---------------------------- MODULE AsyncContext ----------------------------
(***************************************************************************)
(* One AsyncContextState of tomcatrs-servlet-bridge and the threads that   *)
(* share it: the caller that services the request and awaits its           *)
(* completion, the application threads that hold the Java AsyncContext,    *)
(* and a connector-side reaper that may force a timeout.  The state is one *)
(* atomic, moved by compare-and-swap; the dispatch path, the timed-out     *)
(* flag and the completion signal are separate cells written after it.     *)
(***************************************************************************)
EXTENDS Naturals, FiniteSets

CONSTANTS
  App,        \* application threads
  Path,       \* dispatch targets
  Calls,      \* what application threads call
  Reaper,     \* whether the out-of-band reaper runs
  MaxCycles,  \* bound: times the request is serviced
  NoPath

ASSUME AsyncAssumption ==
  /\ Calls \subseteq {"complete", "dispatch", "setTimeout"}
  /\ Reaper \in BOOLEAN
  /\ MaxCycles \in Nat \ {0} /\ NoPath \notin Path

VARIABLES
  state,      \* AsyncInner.state
  path,       \* AsyncInner.dispatch_path
  timedOut,   \* AsyncInner.timed_out
  timeout,    \* AsyncInner.timeout_ms: whether one is configured
  signal,     \* the Notified of await_completion: "none", "armed", "fired"
  pc,         \* the caller's place
  site,       \* which of its three looks at the state await_completion is in
  outcome,    \* the AsyncOutcome of the last await_completion
  cycle,      \* services so far
  app,        \* each application thread: its call's place and argument
  reaper,     \* the reaper's place
  winners     \* who left async mode in this cycle (history)

vars == <<state, path, timedOut, timeout, signal, pc, site, outcome, cycle, app,
          reaper, winners>>

AsyncState == {"Dispatched", "Starting", "Started", "Completing", "Completed",
               "Dispatching", "Timing", "Error"}

NoOutcome == [kind |-> "none", path |-> NoPath]
Idle == [at |-> "idle", path |-> NoPath]

\* AsyncState::transition: the legal edges of the diagram.
Legal == {<<"Dispatched", "Starting">>, <<"Starting", "Started">>,
          <<"Started", "Completing">>, <<"Started", "Dispatching">>,
          <<"Started", "Timing">>, <<"Completing", "Completed">>,
          <<"Dispatching", "Dispatched">>, <<"Timing", "Error">>,
          <<"Timing", "Started">>}

\* advance: load, validate and compare-and-swap, retried until one of the
\* first two decides; one atomic step or an error.
MayAdvance(next) == <<state, next>> \in Legal

\* AsyncState::is_async.
IsAsync == state \in {"Starting", "Started", "Completing", "Dispatching", "Timing"}

\* notify_waiters wakes a Notified that exists, and stores nothing.
Notify == signal' = IF signal = "armed" THEN "fired" ELSE signal

(***************************************************************************)
(* The caller: service the request, look whether it went async, await.     *)
(***************************************************************************)

\* The servlet calls startAsync().
StartAsync ==
  /\ pc = "service" /\ MayAdvance("Starting")
  /\ state' = "Starting" /\ pc' = "starting"
  /\ UNCHANGED <<timeout, path, timedOut, signal, site, outcome, cycle, app,
                 reaper, winners>>

Started ==
  /\ pc = "starting"
  /\ state' = "Started" /\ pc' = "returned"
  /\ UNCHANGED <<timeout, path, timedOut, signal, site, outcome, cycle, app,
                 reaper, winners>>

\* service() returns without startAsync(): the response is serialized.
ServiceSync ==
  /\ pc = "service" /\ pc' = "done"
  /\ UNCHANGED <<timeout, state, path, timedOut, signal, site, outcome, cycle,
                 app, reaper, winners>>

\* After service(): a request still in async mode is awaited.
Returned ==
  /\ pc = "returned"
  /\ IF IsAsync THEN pc' = "settle" /\ site' = "first"
                ELSE pc' = "done" /\ UNCHANGED site
  /\ UNCHANGED <<timeout, state, path, timedOut, signal, outcome, cycle, app,
                 reaper, winners>>

Return(kind, p) ==
  /\ outcome' = [kind |-> kind, path |-> p]
  /\ pc' = "got" /\ signal' = "none"

\* settled_outcome, its read of the state.  What an unsettled state leads to
\* depends on the place in await_completion that asks.
Settle ==
  /\ pc = "settle"
  /\ \/ /\ state = "Completed" /\ Return("Completed", NoPath)
     \/ /\ state = "Dispatching" /\ pc' = "path" /\ UNCHANGED <<outcome, signal>>
     \/ /\ state = "Error" /\ pc' = "flag" /\ UNCHANGED <<outcome, signal>>
     \/ /\ state \notin {"Completed", "Dispatching", "Error"}
        /\ IF site = "last"
             THEN Return("Completed", NoPath)
             ELSE /\ pc' = IF site = "first" THEN "async" ELSE "limit"
                  /\ UNCHANGED <<outcome, signal>>
  /\ UNCHANGED <<timeout, state, path, timedOut, site, cycle, app, reaper,
                 winners>>

\* settled_outcome, its read of the dispatch path after the state.
SettlePath ==
  /\ pc = "path" /\ Return("Dispatched", path)
  /\ UNCHANGED <<timeout, state, path, timedOut, site, cycle, app, reaper,
                 winners>>

\* settled_outcome, its read of the timed-out flag after the state.
SettleFlag ==
  /\ pc = "flag"
  /\ Return(IF timedOut THEN "TimedOut" ELSE "Errored", NoPath)
  /\ UNCHANGED <<timeout, state, path, timedOut, site, cycle, app, reaper,
                 winners>>

\* await_completion: not async any more means nothing to wait for.
NotAsync ==
  /\ pc = "async"
  /\ IF IsAsync THEN pc' = "arm" /\ UNCHANGED <<outcome, signal>>
                ELSE Return("Completed", NoPath)
  /\ UNCHANGED <<timeout, state, path, timedOut, site, cycle, app, reaper,
                 winners>>

(* Mutant: the wait is armed without looking at the state again. *)
ArmAndWait ==
  /\ pc = "arm"
  /\ signal' = "armed" /\ pc' = "limit" /\ site' = "again"
  /\ UNCHANGED <<timeout, state, path, timedOut, outcome, cycle, app, reaper,
                 winners>>

\* The signal is armed before the state is looked at again.
Arm ==
  /\ pc = "arm"
  /\ signal' = "armed" /\ pc' = "settle" /\ site' = "again"
  /\ UNCHANGED <<timeout, state, path, timedOut, outcome, cycle, app, reaper,
                 winners>>

\* The timeout is read once, when the wait begins: a later setTimeout() is
\* not seen by it.
ReadLimit ==
  /\ pc = "limit"
  /\ pc' = IF timeout THEN "timed" ELSE "wait"
  /\ UNCHANGED <<state, path, timedOut, timeout, signal, site, outcome, cycle,
                 app, reaper, winners>>

\* The signal arm of select!, or the wait without a timer.
Woken ==
  /\ pc \in {"wait", "timed"} /\ signal = "fired"
  /\ pc' = "settle" /\ site' = "last"
  /\ UNCHANGED <<timeout, state, path, timedOut, signal, outcome, cycle, app,
                 reaper, winners>>

\* select!: the timer arm, which drives time_out().
Timer ==
  /\ pc = "timed"
  /\ pc' = "timing"
  /\ UNCHANGED <<timeout, state, path, timedOut, signal, site, outcome, cycle,
                 app, reaper, winners>>

\* The four steps of time_out(), by the caller and by the reaper.
TimeOutStep(at, next) ==
  \/ /\ at = "timing"
     /\ IF MayAdvance("Timing")
          THEN /\ state' = "Timing" /\ next = "error"
               /\ winners' = winners \cup {"timeout"}
          ELSE next = "end" /\ UNCHANGED <<state, winners>>
     /\ UNCHANGED <<timedOut, signal>>
  \/ /\ at = "error" /\ next = "flagging"
     /\ state' = "Error" /\ UNCHANGED <<timedOut, signal, winners>>
  \/ /\ at = "flagging" /\ next = "notify"
     /\ timedOut' = TRUE /\ UNCHANGED <<state, signal, winners>>
  \/ /\ at = "notify" /\ next = "end"
     /\ Notify /\ UNCHANGED <<state, timedOut, winners>>

(* Mutant: the timer arm does not fall through to the final look. *)
TimeOutStuck ==
  /\ \E next \in {"error", "flagging", "notify", "end"} :
       TimeOutStep(pc, next) /\ pc' = next
  /\ UNCHANGED <<timeout, path, site, outcome, cycle, app, reaper>>

TimeOut ==
  /\ \E next \in {"error", "flagging", "notify", "end"} :
       /\ TimeOutStep(pc, next)
       /\ IF next = "end" THEN pc' = "settle" /\ site' = "last"
                          ELSE pc' = next /\ UNCHANGED site
  /\ UNCHANGED <<timeout, path, outcome, cycle, app, reaper>>

\* What the caller does with the outcome: serialize, or re-route the request
\* (redispatched) and service it again.
Redispatch ==
  /\ pc = "got" /\ outcome.kind = "Dispatched"
  /\ state' = IF MayAdvance("Dispatched") THEN "Dispatched" ELSE state
  /\ IF cycle < MaxCycles
       THEN pc' = "service" /\ cycle' = cycle + 1
       ELSE pc' = "done" /\ UNCHANGED cycle
  /\ outcome' = NoOutcome /\ winners' = {}
  /\ UNCHANGED <<path, timedOut, timeout, signal, site, app, reaper>>

Serialize ==
  /\ pc = "got" /\ outcome.kind # "Dispatched"
  /\ pc' = "done"
  /\ UNCHANGED <<timeout, state, path, timedOut, signal, site, outcome, cycle,
                 app, reaper, winners>>

(***************************************************************************)
(* Application threads: complete() and dispatch(path).  The caller         *)
(* unregisters a finished request, and a later call finds nothing.         *)
(***************************************************************************)
Move(a, at) == app' = [app EXCEPT ![a].at = at]

\* complete() begins; a completed request is a no-op, an illegal state an error.
Complete(a) ==
  /\ "complete" \in Calls /\ app[a].at = "idle" /\ pc # "done"
  /\ MayAdvance("Completing")
  /\ state' = "Completing" /\ Move(a, "completing")
  /\ winners' = winners \cup {a}
  /\ UNCHANGED <<timeout, path, timedOut, signal, pc, site, outcome, cycle,
                 reaper>>

Completed(a) ==
  /\ app[a].at = "completing"
  /\ state' = "Completed" /\ Move(a, "notify")
  /\ UNCHANGED <<timeout, path, timedOut, signal, pc, site, outcome, cycle,
                 reaper, winners>>

\* dispatch(path): the state first, then the path, then the signal.
Dispatch(a, p) ==
  /\ "dispatch" \in Calls /\ app[a].at = "idle" /\ pc # "done"
  /\ MayAdvance("Dispatching")
  /\ state' = "Dispatching"
  /\ app' = [app EXCEPT ![a] = [at |-> "store", path |-> p]]
  /\ winners' = winners \cup {a}
  /\ UNCHANGED <<timeout, path, timedOut, signal, pc, site, outcome, cycle,
                 reaper>>

StorePath(a) ==
  /\ app[a].at = "store"
  /\ path' = app[a].path /\ Move(a, "notify")
  /\ UNCHANGED <<timeout, state, timedOut, signal, pc, site, outcome, cycle,
                 reaper, winners>>

NotifyWaiters(a) ==
  /\ app[a].at = "notify"
  /\ Notify /\ app' = [app EXCEPT ![a] = Idle]
  /\ UNCHANGED <<timeout, state, path, timedOut, pc, site, outcome, cycle,
                 reaper, winners>>

\* set_timeout; zero or less disables it.
SetTimeout(a, on) ==
  /\ "setTimeout" \in Calls /\ app[a].at = "idle" /\ pc # "done"
  /\ timeout # on /\ timeout' = on
  /\ UNCHANGED <<state, path, timedOut, signal, pc, site, outcome, cycle, app,
                 reaper, winners>>

(***************************************************************************)
(* The reaper forces a timeout out of band, at any moment.                 *)
(***************************************************************************)
Reap ==
  /\ Reaper /\ reaper = "idle" /\ IsAsync /\ reaper' = "timing"
  /\ UNCHANGED <<timeout, state, path, timedOut, signal, pc, site, outcome,
                 cycle, app, winners>>

ReapStep ==
  /\ \E next \in {"error", "flagging", "notify", "end"} :
       TimeOutStep(reaper, next) /\ reaper' = IF next = "end" THEN "idle" ELSE next
  /\ UNCHANGED <<timeout, path, pc, site, outcome, cycle, app>>

-----------------------------------------------------------------------------

Init ==
  /\ state = "Dispatched" /\ path = NoPath
  /\ timedOut = FALSE /\ timeout = TRUE
  /\ signal = "none" /\ pc = "service" /\ site = "first"
  /\ outcome = NoOutcome /\ cycle = 1
  /\ app = [a \in App |-> Idle] /\ reaper = "idle"
  /\ winners = {}

Caller ==
  \/ Started \/ Returned
  \/ Settle \/ SettlePath \/ SettleFlag \/ NotAsync \/ Arm
  \/ ReadLimit \/ Woken \/ TimeOut \/ Redispatch \/ Serialize

Servlet == StartAsync \/ ServiceSync

AppStep(a) == Completed(a) \/ StorePath(a) \/ NotifyWaiters(a)

Next ==
  \/ Servlet \/ Caller \/ Timer
  \/ \E a \in App : \/ Complete(a) \/ AppStep(a)
                    \/ \E p \in Path : Dispatch(a, p)
                    \/ \E on \in BOOLEAN : SetTimeout(a, on)
  \/ Reap \/ ReapStep

Spec == Init /\ [][Next]_vars

\* Threads inside a call finish it and the timer fires; nobody has to call
\* complete() or dispatch(), and the reaper need not look.
Fairness ==
  /\ WF_vars(Servlet) /\ WF_vars(Caller) /\ WF_vars(Timer) /\ WF_vars(ReapStep)
  /\ \A a \in App : WF_vars(AppStep(a))

FairSpec == Spec /\ Fairness

-----------------------------------------------------------------------------

\* Every cell and every place stays in its range: in particular no step of the
\* timeout, of the caller or of the reaper, leaves either without a next one.
TypeOK ==
  /\ state \in AsyncState
  /\ path \in Path \cup {NoPath} /\ timedOut \in BOOLEAN /\ timeout \in BOOLEAN
  /\ signal \in {"none", "armed", "fired"}
  /\ pc \in {"service", "starting", "returned", "settle", "path", "flag", "async",
             "arm", "limit", "wait", "timed", "timing", "error", "flagging", "notify", "got", "done"}
  /\ site \in {"first", "again", "last"}
  /\ outcome \in [kind : {"none", "Completed", "Dispatched", "TimedOut", "Errored"},
                  path : Path \cup {NoPath}]
  /\ cycle \in 1 .. MaxCycles
  /\ app \in [App -> [at : {"idle", "completing", "store", "notify"},
                      path : Path \cup {NoPath}]]
  /\ reaper \in {"idle", "timing", "error", "flagging", "notify"}
  /\ winners \subseteq App \cup {"timeout"}

\* complete(), dispatch() and the timeout race to leave async mode: of each
\* startAsync() only one of them wins, however they interleave.
OneWinner == Cardinality(winners) <= 1

\* complete(), dispatch() and the timeout race to leave async mode: one of them
\* wins each startAsync(), and no step leaves a cell or a place out of range.
OneWayOut == TypeOK /\ OneWinner

\* The caller has armed its signal and will look no more before it fires.
Waiting == pc \in {"limit", "wait", "timed"}

\* Somebody is inside a call that ends in notify_waiters().
Finishing ==
  \/ \E a \in App : app[a].at # "idle"
  \/ reaper \in {"error", "flagging", "notify"}

\* No wake-up is lost between the look at the state and the wait: a request
\* that left async mode under a caller waiting for it has fired the caller's
\* signal, or whoever moved it has still to fire it.
NoLostWakeup ==
  Waiting /\ signal # "fired" /\ state # "Started" => signal = "armed" /\ Finishing

\* An asynchronous request ends once, and whoever waits for its end learns it.
EndsOnceHeard == OneWayOut /\ NoLostWakeup
=============================================================================
