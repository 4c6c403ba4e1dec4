---------------------------- MODULE ServletBridge ----------------------------
(***************************************************************************)
(* The way of a request through the embedded JVM: ServletDispatch builds   *)
(* the two handles, JvmServletInvoker registers them, sends a job to the   *)
(* pool of attached worker threads and waits, the servlet reaches back for *)
(* single values through the natives of jni.rs, and the response sink is   *)
(* read when the invoker returns.  A servlet may leave a thread behind     *)
(* that still holds the facades, a job may panic and take its worker along,*)
(* and the pool may be shut down under the waiting requests.               *)
(***************************************************************************)
EXTENDS Integers, Sequences, FiniteSets

CONSTANTS
  Requests,   \* requests dispatched, each with a response of its own
  Workers,    \* attached worker threads
  Leavers,    \* the requests whose servlet calls natives and leaves a thread
              \* behind that does too; the other servlets only run
  BodyLen,    \* bytes of every request's body
  MaxCalls,   \* bound: natives one thread calls for one request
  MaxPanics   \* bound: jobs that panic

VARIABLES
  task,       \* place of each request's dispatch
  jobs,       \* the pool's queue
  pool,       \* worker -> "idle", "gone" or the request it serves
  open,       \* whether the queue's sender is still there
  requests,   \* HandleRegistry.requests
  responses,  \* HandleRegistry.responses
  sink,       \* ResponseState of each response
  position,   \* cursor of each request's body
  given,      \* body bytes handed to the servlet's threads (history)
  hold,       \* <<request, thread>> -> the entry its native has looked up
  calls,      \* <<request, thread>> -> natives called
  result,     \* status the invoker reported
  wire,       \* what the connector got
  panics

bridgeVars == <<task, jobs, pool, open, requests, responses, sink, position,
                given, hold, calls, result, wire, panics>>
poolVars == <<jobs, pool, open, panics>>
facadeVars == <<sink, position, given, hold, calls>>

Threads == {"servlet", "left"}
NoWire == [status |-> -1, headers |-> <<>>, body |-> <<>>, committed |-> FALSE]
DEFAULT_STATUS == 200

(***************************************************************************)
(* response_facade.rs: every operation locks the state once.               *)
(***************************************************************************)

\* ResponseHandle::new.
EmptyResponse == [status |-> 0, headers |-> <<>>, body |-> <<>>, committed |-> FALSE]

\* Mutant: the status of a committed response can still be set.
SetStatusAlways(s, status) == [s EXCEPT !.status = status]

SetStatus(s, status) == IF s.committed THEN s ELSE [s EXCEPT !.status = status]

\* set_header: the first header of that name takes the value.
SetHeader(s, name, value) ==
  IF s.committed THEN s
  ELSE LET at == {i \in DOMAIN s.headers : s.headers[i][1] = name}
       IN IF at = {} THEN [s EXCEPT !.headers = Append(@, <<name, value>>)]
          ELSE LET i == CHOOSE i \in at : \A j \in at : i <= j
               IN [s EXCEPT !.headers[i] = <<name, value>>]

AddHeader(s, name, value) ==
  IF s.committed THEN s ELSE [s EXCEPT !.headers = Append(@, <<name, value>>)]

\* write_body: also after the commit.
WriteBody(s, bytes) == [s EXCEPT !.body = @ \o bytes]

Commit(s) ==
  [s EXCEPT !.committed = TRUE,
            !.status = IF @ = 0 THEN DEFAULT_STATUS ELSE @]

EffectiveStatus(s) == IF s.status = 0 THEN DEFAULT_STATUS ELSE s.status

(***************************************************************************)
(* request_facade.rs: the body behind its mutex.                           *)
(***************************************************************************)

\* RequestBody::read: the bytes from the cursor on, and the new cursor.
ReadBody(pos, max) ==
  LET end == IF pos + max < BodyLen THEN pos + max ELSE BodyLen
  IN [bytes |-> [i \in 1..(end - pos) |-> pos + i], position |-> end]

(***************************************************************************)
(* jni.rs: the natives.  A native first looks its id up and then works on  *)
(* the clone it got; between the two the invoker may drop the registration.*)
(***************************************************************************)

\* Which threads run for request r: the servlet on its worker, and the one
\* it left behind.
Runs(r, t) ==
  /\ r \in Leavers
  /\ IF t = "servlet" THEN \E w \in Workers : pool[w] = r
                      ELSE calls[<<r, "servlet">>] > 0

\* lookup_request, lookup_response.
Lookup(r, t) ==
  /\ Runs(r, t) /\ hold[<<r, t>>] = {} /\ calls[<<r, t>>] < MaxCalls
  /\ calls' = [calls EXCEPT ![<<r, t>>] = @ + 1]
  /\ hold' = [hold EXCEPT ![<<r, t>>] =
                (IF r \in requests THEN {"request"} ELSE {}) \cup
                (IF r \in responses THEN {"response"} ELSE {})]
  /\ UNCHANGED <<task, requests, responses, sink, position, given, result, wire>>
  /\ UNCHANGED poolVars

Release(r, t) == hold' = [hold EXCEPT ![<<r, t>>] = {}]

\* A native of NativeResponse with the entry found.
OnResponse(r, t, op(_)) ==
  /\ "response" \in hold[<<r, t>>] /\ Release(r, t)
  /\ sink' = [sink EXCEPT ![r] = op(@)]
  /\ UNCHANGED <<task, requests, responses, position, given, calls, result, wire>>
  /\ UNCHANGED poolVars

NativeSetStatus(r, t) == OnResponse(r, t, LAMBDA s : SetStatus(s, 404))
NativeSetHeader(r, t) == OnResponse(r, t, LAMBDA s : SetHeader(s, "h", t))
NativeAddHeader(r, t) == OnResponse(r, t, LAMBDA s : AddHeader(s, "h", t))
NativeWriteBody(r, t) == OnResponse(r, t, LAMBDA s : WriteBody(s, <<t>>))
\* nativeFlush and nativeCommit.
NativeCommit(r, t) == OnResponse(r, t, Commit)

\* Mutant: the cursor moves only once the copy into the Java array is made.
NativeReadBodyPeeks(r, t) ==
  LET read == ReadBody(position[r], 1)
  IN /\ "request" \in hold[<<r, t>>] /\ Release(r, t)
     /\ \E copied \in BOOLEAN :
          /\ position' = IF copied THEN position
                         ELSE [position EXCEPT ![r] = read.position]
          /\ given' = IF copied THEN [given EXCEPT ![r] = @ \o read.bytes] ELSE given
     /\ UNCHANGED <<task, requests, responses, sink, calls, result, wire>>
     /\ UNCHANGED poolVars

\* nativeReadBody: the bytes are taken from the body before they are copied
\* into the Java array, so a copy that fails (the array is too short) loses
\* them.
NativeReadBody(r, t) ==
  LET read == ReadBody(position[r], 1)
  IN /\ "request" \in hold[<<r, t>>] /\ Release(r, t)
     /\ position' = [position EXCEPT ![r] = read.position]
     /\ \E copied \in BOOLEAN :
          given' = IF copied THEN [given EXCEPT ![r] = @ \o read.bytes] ELSE given
     /\ UNCHANGED <<task, requests, responses, sink, calls, result, wire>>
     /\ UNCHANGED poolVars

Natives(r, t) ==
  \/ Lookup(r, t) \/ NativeSetStatus(r, t) \/ NativeSetHeader(r, t)
  \/ NativeAddHeader(r, t) \/ NativeWriteBody(r, t) \/ NativeCommit(r, t)
  \/ NativeReadBody(r, t)

(***************************************************************************)
(* jvm.rs: the worker pool.                                                *)
(***************************************************************************)

Alive == {w \in Workers : pool[w] # "gone"}

\* with_env: a job is accepted while the sender is there and some worker
\* still holds the receiver.
Send(r) ==
  /\ task[r] = "send"
  /\ IF open /\ Alive # {}
       THEN jobs' = Append(jobs, r) /\ task' = [task EXCEPT ![r] = "wait"]
       ELSE jobs' = jobs /\ task' = [task EXCEPT ![r] = "fail"]
  /\ UNCHANGED <<pool, open, panics, requests, responses, result, wire>>
  /\ UNCHANGED facadeVars

\* A worker takes the lock of the receiver and the next job.
TakeJob(w) ==
  /\ pool[w] = "idle" /\ jobs # <<>>
  /\ pool' = [pool EXCEPT ![w] = Head(jobs)] /\ jobs' = Tail(jobs)
  /\ UNCHANGED <<task, open, panics, requests, responses, result, wire>>
  /\ UNCHANGED facadeVars

\* The job ends and its result is sent: ServletDispatcher.dispatch returned,
\* or a JNI call of it failed.
JobEnds(w) ==
  /\ pool[w] \in Requests /\ hold[<<pool[w], "servlet">>] = {}
  /\ \E place \in {"complete", "fail"} : task' = [task EXCEPT ![pool[w]] = place]
  /\ pool' = [pool EXCEPT ![w] = "idle"]
  /\ UNCHANGED <<jobs, open, panics, requests, responses, result, wire>>
  /\ UNCHANGED facadeVars

\* Mutant: the receiver outlives the workers, and the jobs in it.
JobPanicsKeeps(w) ==
  /\ pool[w] \in Requests /\ hold[<<pool[w], "servlet">>] = {} /\ panics < MaxPanics
  /\ pool' = [pool EXCEPT ![w] = "gone"] /\ panics' = panics + 1
  /\ task' = [task EXCEPT ![pool[w]] = "fail"]
  /\ UNCHANGED <<jobs, open, requests, responses, result, wire>>
  /\ UNCHANGED facadeVars

\* The job panics: its result channel is dropped and its worker unwinds; with
\* the last worker goes the receiver, and the result channels of the queued
\* jobs with it.
JobPanics(w) ==
  LET last == Alive = {w}
      lost == {pool[w]} \cup (IF last THEN {jobs[i] : i \in DOMAIN jobs} ELSE {})
  IN /\ pool[w] \in Requests /\ hold[<<pool[w], "servlet">>] = {}
     /\ panics < MaxPanics
     /\ pool' = [pool EXCEPT ![w] = "gone"] /\ panics' = panics + 1
     /\ jobs' = IF last THEN <<>> ELSE jobs
     /\ task' = [r \in Requests |-> IF r \in lost THEN "fail" ELSE task[r]]
     /\ UNCHANGED <<open, requests, responses, result, wire>>
     /\ UNCHANGED facadeVars

\* shutdown: the sender goes.
Shutdown ==
  /\ open /\ open' = FALSE
  /\ UNCHANGED <<task, jobs, pool, panics, requests, responses, result, wire>>
  /\ UNCHANGED facadeVars

\* A worker that finds the queue empty and without a sender detaches.
WorkerExits(w) ==
  /\ pool[w] = "idle" /\ ~open /\ jobs = <<>>
  /\ pool' = [pool EXCEPT ![w] = "gone"]
  /\ UNCHANGED <<task, jobs, open, panics, requests, responses, result, wire>>
  /\ UNCHANGED facadeVars

(***************************************************************************)
(* invoker.rs and dispatch.rs: the dispatch of one request.                *)
(***************************************************************************)

Goes(r, place) == task' = [task EXCEPT ![r] = place]

\* Mutant: a request whose webapp or servlet is unknown is answered without
\* the guard that drops its registration.
InvokeUnguarded(r) ==
  /\ task[r] = "new"
  /\ requests' = requests \cup {r} /\ responses' = responses \cup {r}
  /\ \E found \in BOOLEAN :
       IF found THEN Goes(r, "send") /\ UNCHANGED result
       ELSE Goes(r, "read") /\ result' = [result EXCEPT ![r] = DEFAULT_STATUS]
  /\ UNCHANGED <<wire>> /\ UNCHANGED poolVars /\ UNCHANGED facadeVars

\* invoke_impl up to with_env: both handles are registered, then the webapp
\* and the servlet are looked up.
Invoke(r) ==
  /\ task[r] = "new"
  /\ requests' = requests \cup {r} /\ responses' = responses \cup {r}
  /\ \E found \in BOOLEAN : Goes(r, IF found THEN "send" ELSE "fail")
  /\ UNCHANGED <<result, wire>> /\ UNCHANGED poolVars /\ UNCHANGED facadeVars

\* response.complete().
CompleteResponse(r) ==
  /\ task[r] = "complete" /\ Goes(r, "drop")
  /\ sink' = [sink EXCEPT ![r] = Commit(@)]
  /\ result' = [result EXCEPT ![r] = EffectiveStatus(Commit(sink[r]))]
  /\ UNCHANGED <<position, given, hold, calls, requests, responses, wire>>
  /\ UNCHANGED poolVars

\* fallback_response: status, header, body and commit, each a lock of its own.
FallbackResponse(r) ==
  /\ \/ /\ task[r] = "fail" /\ Goes(r, "failHeader")
        /\ sink' = [sink EXCEPT ![r] = SetStatus(@, 502)] /\ UNCHANGED result
     \/ /\ task[r] = "failHeader" /\ Goes(r, "failBody")
        /\ sink' = [sink EXCEPT ![r] = SetHeader(@, "Content-Type", "fallback")]
        /\ UNCHANGED result
     \/ /\ task[r] = "failBody" /\ Goes(r, "failCommit")
        /\ sink' = [sink EXCEPT ![r] = WriteBody(@, <<"fallback">>)]
        /\ UNCHANGED result
     \/ /\ task[r] = "failCommit" /\ Goes(r, "drop")
        /\ sink' = [sink EXCEPT ![r] = Commit(@)]
        /\ result' = [result EXCEPT ![r] = EffectiveStatus(Commit(sink[r]))]
  /\ UNCHANGED <<position, given, hold, calls, requests, responses, wire>>
  /\ UNCHANGED poolVars

\* The guard of invoke_impl drops: first the request, then the response.
Unregister(r) ==
  /\ \/ /\ task[r] = "drop" /\ Goes(r, "dropResponse")
        /\ requests' = requests \ {r} /\ UNCHANGED responses
     \/ /\ task[r] = "dropResponse" /\ Goes(r, "read")
        /\ responses' = responses \ {r} /\ UNCHANGED requests
  /\ UNCHANGED <<result, wire>> /\ UNCHANGED poolVars /\ UNCHANGED facadeVars

\* ServletDispatch::dispatch, last: the sink's snapshot becomes the response.
ResponseFromSnapshot(r) ==
  /\ task[r] = "read" /\ Goes(r, "done")
  /\ wire' = [wire EXCEPT ![r] = [sink[r] EXCEPT !.status = EffectiveStatus(sink[r])]]
  /\ UNCHANGED <<requests, responses, result>>
  /\ UNCHANGED poolVars /\ UNCHANGED facadeVars

BridgeInit ==
  /\ task = [r \in Requests |-> "new"]
  /\ jobs = <<>> /\ open = TRUE /\ panics = 0
  /\ pool \in {p \in [Workers -> {"idle", "gone"}] : \E w \in Workers : p[w] = "idle"}
  /\ requests = {} /\ responses = {}
  /\ sink = [r \in Requests |-> EmptyResponse]
  /\ position = [r \in Requests |-> 0] /\ given = [r \in Requests |-> <<>>]
  /\ hold = [x \in Requests \X Threads |-> {}]
  /\ calls = [x \in Requests \X Threads |-> 0]
  /\ result = [r \in Requests |-> 0] /\ wire = [r \in Requests |-> NoWire]

Dispatches(r) == Invoke(r) \/ Send(r) \/ CompleteResponse(r) \/ FallbackResponse(r)
               \/ Unregister(r) \/ ResponseFromSnapshot(r)
Works(w) == TakeJob(w) \/ JobEnds(w) \/ JobPanics(w) \/ WorkerExits(w)

BridgeNext ==
  \/ \E r \in Requests : Dispatches(r)
  \/ \E w \in Workers : Works(w)
  \/ \E r \in Requests, t \in Threads : Natives(r, t)
  \/ Shutdown

\* The connector's tasks and the pool's threads run; a native called returns,
\* and a servlet that has made its calls does too.
BridgeFairness ==
  /\ \A r \in Requests : WF_bridgeVars(Dispatches(r))
  /\ \A w \in Workers : WF_bridgeVars(Works(w))
  /\ \A r \in Requests, t \in Threads : WF_bridgeVars(Natives(r, t))

BridgeSpec == BridgeInit /\ [][BridgeNext]_bridgeVars /\ BridgeFairness

\* What the dispatch layer asserts of an invoker: the status it reports is the
\* status the response is sent with, whatever a thread that outlives the
\* servlet's service() still sets (debug_assert_eq of ServletDispatch::dispatch).
ReportedIsSent ==
  \A r \in Requests : task[r] = "done" => wire[r].status = result[r]

\* Handles do not pile up: an answered request has left both registries,
\* however its dispatch ended (the Unregister guard of invoke_impl).
HandlesDropped ==
  \A r \in Requests : task[r] = "done" => r \notin requests \cup responses

\* No byte of a request's body is given twice, and all are given in order,
\* also when the servlet and a thread of its read the same stream and a copy
\* into a Java array fails (nativeReadBody over RequestBody::read).
BodyBytesOnce ==
  \A r \in Requests : \A i, j \in DOMAIN given[r] : i < j => given[r][i] < given[r][j]

\* The bridge is sound whatever a thread that outlives its servlet, a panic or a
\* shutdown of the pool does: the status reported is the status sent, handles
\* leave the registries, and no byte of a body is given out twice.
BridgeSound == ReportedIsSent /\ HandlesDropped /\ BodyBytesOnce

\* Every request is answered: jobs queued before a shutdown are still served,
\* and the ones a dying pool leaves behind fail (with_env never waits for a
\* result that cannot come).
AllAnswered == \A r \in Requests : task[r] = "done"
==============================================================================
