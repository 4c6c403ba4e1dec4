------------------------------ MODULE Pipeline -------------------------------
(***************************************************************************)
(* A container's valve pipeline (tomcatrs-catalina pipeline.rs, valve.rs,  *)
(* security_valve.rs) while it is being configured.  invoke_with clones    *)
(* the valve list under one lock and the basic valve under another, then   *)
(* walks the copy: each valve is called with a cursor to the rest and may  *)
(* act before the rest (filters), after it (reports) or not call it.       *)
(* A valve is named by its kind; "app" is a basic valve of the embedder.   *)
(***************************************************************************)
EXTENDS Integers, Sequences, FiniteSets, SequencesExt

CONSTANTS
    Requests,       \* threads that call invoke
    Filters,        \* kinds that may be installed with add_valve
    Basics,         \* kinds that may be installed with set_basic
    MaxValves       \* bound on the installed valves

\* The names are those of Before and After: these two only end a chain.
ASSUME PipelineAssumption ==
    /\ Filters \cap {"wrapper", "app"} = {} /\ Basics \subseteq {"wrapper", "app"}
    /\ MaxValves \in Nat

VARIABLES
    valves,     \* StandardPipeline.valves
    basic,      \* StandardPipeline.basic, a sequence of at most one kind
    req         \* per request: where it is, its copy, its response, its log

pipeVars == <<valves, basic, req>>

NoBody == "empty"
ReasonPage == "page"

(***************************************************************************)
(* Valve::invoke up to the call of next: the response, and whether next is *)
(* called.  AccessLog, ErrorReport, SecurityHeaders and the Engine, Host   *)
(* and Context valves ("pass") only call it.                               *)
(***************************************************************************)
Forward(resp) == [resp |-> resp, next |-> TRUE]
Refuse(resp) == [resp |-> resp, next |-> FALSE]

\* permits: in the deny list, or not in the allow list
RemoteAddr(q, resp) ==
    IF q.denied THEN Refuse([resp EXCEPT !.status = 403, !.body = NoBody])
    ELSE Forward(resp)

HttpMethodFilter(q, resp) ==
    IF q.disallowed
    THEN Refuse([resp EXCEPT !.status = 405, !.headers = @ \cup {"Allow"}])
    ELSE Forward(resp)

StandardWrapper(resp) ==
    Forward(IF resp.status = 0 THEN [resp EXCEPT !.status = 200] ELSE resp)

Before(q, kind, resp) ==
    CASE kind = "addr" -> RemoteAddr(q, resp)
      [] kind = "methods" -> HttpMethodFilter(q, resp)
      [] kind = "wrapper" -> StandardWrapper(resp)
      [] OTHER -> Forward(resp)

(***************************************************************************)
(* Valve::invoke after the call of next, whatever next returned.           *)
(***************************************************************************)
IsError(resp) == resp.status \in 400..599

\* a slip: the status of the page itself
ErrorReportOk(resp) ==
    IF IsError(resp) /\ resp.body = NoBody
    THEN [resp EXCEPT !.body = ReasonPage, !.status = 200] ELSE resp

ErrorReport(resp) ==
    IF IsError(resp) /\ resp.body = NoBody
    THEN [resp EXCEPT !.body = ReasonPage, !.headers = @ \cup {"Content-Type"}]
    ELSE resp

\* a slip: headers are added on the way in, and the application's answer drops them
SecurityHeadersNone(resp) == resp

\* set_if_absent: an own header of the application stays
SecurityHeaders(resp) ==
    IF "own" \in resp.headers THEN resp ELSE [resp EXCEPT !.headers = @ \cup {"Valve"}]

AccessLog(resp) == [status |-> resp.status, body |-> resp.body]

After(kind, resp) ==
    CASE kind = "error" -> ErrorReport(resp)
      [] kind = "headers" -> SecurityHeaders(resp)
      [] OTHER -> resp

(***************************************************************************)
(* Configuration.                                                          *)
(***************************************************************************)
AddValve(kind) ==
    /\ Len(valves) < MaxValves
    /\ valves' = Append(valves, kind)
    /\ UNCHANGED <<basic, req>>

SetBasic(kind) ==
    /\ basic # <<kind>>
    /\ basic' = <<kind>>
    /\ UNCHANGED <<valves, req>>

(***************************************************************************)
(* StandardPipeline::invoke_with: two locks, one after the other.          *)
(***************************************************************************)
Invoke(r) ==
    /\ req[r].at = "idle"
    /\ req' = [req EXCEPT ![r].at = "begun", ![r].since = Range(valves)]
    /\ UNCHANGED <<valves, basic>>

SnapshotValves(r) ==
    /\ req[r].at = "begun"
    /\ req' = [req EXCEPT ![r].at = "valves", ![r].chain = valves]
    /\ UNCHANGED <<valves, basic>>

SnapshotBasic(r) ==
    /\ req[r].at = "valves"
    /\ req' = IF basic = <<>> THEN [req EXCEPT ![r].at = "err", ![r].failed = TRUE]
              ELSE [req EXCEPT ![r].at = "down", ![r].chain = @ \o basic, ![r].depth = 1]
    /\ UNCHANGED <<valves, basic>>

(***************************************************************************)
(* NextValve::invoke: the cursor's head, then the basic valve once         *)
(* (basic_done), then nothing.  depth counts the frames on the stack.      *)
(***************************************************************************)
\* a slip: the cursor the basic valve gets has not marked it as done
BasicDoneNever(q) == FALSE

BasicDone(q) == q.depth > Len(q.chain)

Exhausted(r) ==
    /\ req[r].at = "down" /\ BasicDone(req[r])
    /\ req' = [req EXCEPT ![r].at = "up", ![r].depth = @ - 1]
    /\ UNCHANGED <<valves, basic>>

Kind(q) == IF q.depth <= Len(q.chain) THEN q.chain[q.depth] ELSE Last(q.chain)

Call(r) ==
    LET q == req[r]
        out == Before(q, Kind(q), q.resp)
    IN  /\ q.at = "down" /\ ~BasicDone(q) /\ Kind(q) # "app"
        /\ req' = [req EXCEPT ![r].resp = out.resp,
                              ![r].ran = IF q.depth >= Len(q.chain) THEN @ + 1 ELSE @,
                              ![r].at = IF out.next THEN "down" ELSE "up",
                              ![r].depth = IF out.next THEN @ + 1 ELSE @ - 1]
        /\ UNCHANGED <<valves, basic>>

\* the application's basic valve answers or fails, and calls no next
CallApp(r) ==
    LET q == req[r]
    IN  /\ q.at = "down" /\ ~BasicDone(q) /\ Kind(q) = "app"
        /\ \E status \in {200, 404}, body \in {NoBody, "text"}, own \in {{}, {"own"}},
              failed \in BOOLEAN :
              req' = [req EXCEPT ![r] = [q EXCEPT
                          !.resp = [status |-> status, body |-> body, headers |-> own],
                          !.failed = failed, !.ran = @ + 1, !.at = "up", !.depth = @ - 1]]
        /\ UNCHANGED <<valves, basic>>

Return(r) ==
    LET q == req[r]
    IN  /\ q.at = "up" /\ q.depth > 0
        /\ req' = [req EXCEPT ![r].resp = After(q.chain[q.depth], q.resp),
                              ![r].log = IF q.chain[q.depth] = "log"
                                         THEN Append(@, AccessLog(q.resp)) ELSE @,
                              ![r].depth = @ - 1]
        /\ UNCHANGED <<valves, basic>>

InvokeReturns(r) ==
    /\ req[r].at = "up" /\ req[r].depth = 0
    /\ req' = [req EXCEPT ![r].at = "done"]
    /\ UNCHANGED <<valves, basic>>

PipeInit ==
    /\ valves = <<>>
    /\ basic = <<>>
    /\ \E status \in {0, 200}, denied, disallowed \in BOOLEAN :
         req = [r \in Requests |->
                  [denied |-> denied, disallowed |-> disallowed,
                   at |-> "idle", since |-> {}, chain |-> <<>>, depth |-> 0, ran |-> 0,
                   failed |-> FALSE, log |-> <<>>,
                   resp |-> [status |-> status, body |-> NoBody, headers |-> {}]]]

PipeNext ==
    \/ \E kind \in Filters : AddValve(kind)
    \/ \E kind \in Basics : SetBasic(kind)
    \/ \E r \in Requests :
         \/ Invoke(r) \/ SnapshotValves(r) \/ SnapshotBasic(r) \/ Call(r)
         \/ CallApp(r) \/ Exhausted(r) \/ Return(r) \/ InvokeReturns(r)

PipeSpec == PipeInit /\ [][PipeNext]_pipeVars

(***************************************************************************)
(* Properties.                                                             *)
(***************************************************************************)
Answered(r) == req[r].at = "done"
Refuses(r, kind) ==
    \/ kind = "addr" /\ req[r].denied
    \/ kind = "methods" /\ req[r].disallowed

\* The basic valve of a request runs exactly once, or not at all when a filter
\* refuses the request; and every filter installed before the request began is
\* asked, while others are being added (pipeline.rs invoke_with, valve.rs
\* NextValve::invoke).
AppRunsOnce ==
    \A r \in Requests :
        /\ req[r].ran <= 1
        /\ Answered(r) /\ req[r].ran = 0 => \E k \in DOMAIN req[r].chain : Refuses(r, req[r].chain[k])
        /\ Answered(r) /\ (\E kind \in req[r].since : Refuses(r, kind)) =>
              req[r].ran = 0

\* What a request was logged with is the status it was answered with, however
\* the valves are ordered, and its body too unless an outer error report wrote
\* one (valve.rs AccessLogValve, ErrorReportValve).
LogsFinal ==
    \A r \in Requests : Answered(r) =>
        \A k \in DOMAIN req[r].log :
            /\ req[r].log[k].status = req[r].resp.status
            /\ req[r].log[k].body = req[r].resp.body \/ "error" \in Range(req[r].chain)

\* No error leaves without a body when the error report is the outermost valve,
\* not the refusal of an inner filter either; nor one without the configured
\* headers, the application's own or the valve's, when that valve is outermost
\* (valve.rs ErrorReportValve, security_valve.rs SecurityHeadersValve).
ErrorsReported ==
    \A r \in Requests :
        Answered(r) =>
            /\ req[r].chain[1] = "error" /\ IsError(req[r].resp) => req[r].resp.body # NoBody
            /\ req[r].chain[1] = "headers" => req[r].resp.headers \cap {"own", "Valve"} # {}
\* However valves are installed while a request runs, its basic valve runs once,
\* the log has the response that was sent and an error gets its page.
ResponsesReported == AppRunsOnce /\ LogsFinal /\ ErrorsReported
=============================================================================
