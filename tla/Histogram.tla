------------------------------ MODULE Histogram ------------------------------
(***************************************************************************)
(* The latency histogram of the soak tool (tomcatrs-soak histogram.rs):    *)
(* counters in separate atomics, written by many threads and read, one     *)
(* after the other, by snapshot.  record adds to a bucket, to the count,   *)
(* to the sum and then raises the maximum with a compare-and-swap loop.    *)
(***************************************************************************)
EXTENDS Integers, Sequences, FiniteSets, FiniteSetsExt

CONSTANTS
    Threads,    \* that call record
    Samples,    \* durations in microseconds
    Decades,    \* DECADES; 7 in the code
    MaxRecords  \* bound on the calls of record

VARIABLES
    buckets, sum, max,  \* the atomics; count is never read
    thread,     \* per thread: [at, n, us, cur], where it is in the n-th record
    reader,     \* where snapshot is, and what it has read
    started     \* every sample whose record has begun, in order

histVars == <<buckets, sum, max, thread, reader, started>>

Sub == 9
Overflow == Decades * Sub

\* a slip: the first value of the next decade is counted to the one below
BucketForShort(us) ==
    LET decade == CHOOSE d \in 0..Decades :
                    /\ d = Decades \/ us <= 10 ^ (d + 1)
                    /\ d = 0 \/ us > 10 ^ d
    IN  IF decade = Decades THEN Overflow
        ELSE decade * Sub + Min({(us - 10 ^ decade) \div (10 ^ decade), Sub - 1})

BucketFor(us) ==
    LET decade == CHOOSE d \in 0..Decades :
                    /\ d = Decades \/ us < 10 ^ (d + 1)
                    /\ d = 0 \/ us >= 10 ^ d
    IN  IF decade = Decades THEN Overflow
        ELSE decade * Sub + Min({(us - 10 ^ decade) \div (10 ^ decade), Sub - 1})

BucketUpper(idx) ==
    IF idx >= Overflow THEN 10 ^ Decades
    ELSE LET floor == 10 ^ (idx \div Sub) IN floor + floor * ((idx % Sub) + 1)

Total(counts) == FoldSet(LAMBDA k, acc : counts[k] + acc, 0, DOMAIN counts)

\* ceil(q * total), at least 1, with q in thousandths
Target(total, q) == Max({(q * total + 999) \div 1000, 1})

Percentile(counts, q) ==
    LET total == Total(counts)
        reached == {k \in DOMAIN counts :
                      Total([j \in 0..k |-> counts[j]]) >= Target(total, q)}
    IN  IF total = 0 THEN 0 ELSE BucketUpper(Min(reached))

(***************************************************************************)
(* record, one atomic operation per step.                                  *)
(***************************************************************************)
Record(t, d) ==
    LET us == Max({d, 1})
    IN  /\ thread[t].at = "idle" /\ Len(started) < MaxRecords
        /\ buckets' = [buckets EXCEPT ![BucketFor(us)] = @ + 1]
        /\ thread' = [thread EXCEPT ![t] = [at |-> "sum", n |-> Len(started) + 1, us |-> us, cur |-> 0]]
        /\ started' = Append(started, us)
        /\ UNCHANGED <<sum, max, reader>>

AddSum(t) ==
    /\ thread[t].at = "sum"
    /\ sum' = sum + thread[t].us
    /\ thread' = [thread EXCEPT ![t].at = "load"]
    /\ UNCHANGED <<buckets, max, reader, started>>

LoadMax(t) ==
    /\ thread[t].at = "load"
    /\ thread' = [thread EXCEPT ![t].cur = max,
                                ![t].at = IF thread[t].us > max THEN "cas" ELSE "idle"]
    /\ UNCHANGED <<buckets, sum, max, reader, started>>

\* a slip: the maximum is stored without a comparison
RaiseMaxBlind(t) ==
    /\ thread[t].at = "cas"
    /\ max' = thread[t].us
    /\ thread' = [thread EXCEPT ![t].at = "idle"]
    /\ UNCHANGED <<buckets, sum, reader, started>>

\* compare_exchange_weak: fails when another thread was faster, or for no reason
RaiseMax(t) ==
    /\ thread[t].at = "cas"
    /\ \/ /\ max = thread[t].cur
          /\ max' = thread[t].us
          /\ thread' = [thread EXCEPT ![t].at = "idle"]
       \/ /\ max' = max
          /\ thread' = [thread EXCEPT ![t].cur = max,
                                      ![t].at = IF thread[t].us > max THEN "cas" ELSE "idle"]
    /\ UNCHANGED <<buckets, sum, reader, started>>

(***************************************************************************)
(* snapshot: the buckets one by one, then the sum, then the maximum.       *)
(***************************************************************************)
Finished == {k \in DOMAIN started : \A t \in Threads : thread[t].n = k => thread[t].at = "idle"}

SnapshotBegin ==
    /\ reader.at = -1
    /\ reader' = [at |-> 0, counts |-> [k \in {} |-> 0], before |-> Finished, sum |-> 0, max |-> 0]
    /\ UNCHANGED <<buckets, sum, max, thread, started>>

\* a slip: the overflow bucket is left out
SnapshotBucketShort ==
    /\ reader.at \in 0..Overflow
    /\ reader' = [reader EXCEPT !.at = @ + 1,
                                !.counts = [k \in 0..reader.at |->
                                              IF k = Overflow THEN 0
                                              ELSE IF k = reader.at THEN buckets[k] ELSE @[k]]]
    /\ UNCHANGED <<buckets, sum, max, thread, started>>

SnapshotBucket ==
    /\ reader.at \in 0..Overflow
    /\ reader' = [reader EXCEPT !.at = @ + 1,
                                !.counts = [k \in 0..reader.at |-> IF k = reader.at THEN buckets[k] ELSE @[k]]]
    /\ UNCHANGED <<buckets, sum, max, thread, started>>

SnapshotTotals ==
    /\ \/ /\ reader.at = Overflow + 1
          /\ reader' = [reader EXCEPT !.at = @ + 1, !.sum = sum]
       \/ /\ reader.at = Overflow + 2
          /\ reader' = [reader EXCEPT !.at = @ + 1, !.max = max]
    /\ UNCHANGED <<buckets, sum, max, thread, started>>

HistInit ==
    /\ buckets = [k \in 0..Overflow |-> 0] /\ sum = 0 /\ max = 0
    /\ thread = [t \in Threads |-> [at |-> "idle", n |-> 0, us |-> 0, cur |-> 0]]
    /\ reader = [at |-> -1, counts |-> [k \in {} |-> 0], before |-> {}, sum |-> 0, max |-> 0]
    /\ started = <<>>

HistNext ==
    \/ \E t \in Threads :
         \/ \E d \in Samples : Record(t, d)
         \/ AddSum(t) \/ LoadMax(t) \/ RaiseMax(t)
    \/ SnapshotBegin \/ SnapshotBucket \/ SnapshotTotals

HistSpec == HistInit /\ [][HistNext]_histVars

(***************************************************************************)
(* Properties.                                                             *)
(***************************************************************************)
\* the value at rank n of the samples
Ranked(n) ==
    CHOOSE v \in {started[k] : k \in DOMAIN started} :
        /\ Cardinality({k \in DOMAIN started : started[k] <= v}) >= n
        /\ Cardinality({k \in DOMAIN started : started[k] < v}) < n

\* Once every record has returned nothing is lost: the maximum and the sum are
\* exact, whatever compare-and-swap failed on the way (histogram.rs record).
NothingLost ==
    (\A t \in Threads : thread[t].at = "idle") =>
        /\ \A k \in DOMAIN started : started[k] <= max
        /\ sum = FoldSet(LAMBDA k, acc : started[k] + acc, 0, DOMAIN started)

\* A percentile is above the sample of its rank, never below, unless the sample
\* is in the overflow bucket (histogram.rs bucket_upper, percentile).
NeverUnderReports ==
    \A q \in {500, 900, 999} :
        LET n == Target(Len(started), q)
        IN  started # <<>> /\ Ranked(n) < 10 ^ Decades => Percentile(buckets, q) > Ranked(n)

\* A snapshot taken while threads record counts and bounds at least every sample
\* recorded before it began, and counts none that was not begun (histogram.rs
\* snapshot).
SnapshotCovers ==
    reader.at = Overflow + 3 =>
        /\ Total(reader.counts) \in Cardinality(reader.before)..Len(started)
        /\ \A k \in reader.before : started[k] <= reader.max
=============================================================================
