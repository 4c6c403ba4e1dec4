----------------------------- MODULE Connector ------------------------------
(***************************************************************************)
(* The accept loops of tomcatrs-coyote and the command line's shutdown.    *)
(* Each connector is a task that binds, accepts and, once the shared watch *)
(* flag flips, drops its listener and drains its JoinSet of connection     *)
(* tasks within a deadline.  The main task waits for a signal, flips the   *)
(* flag, races the drains against a second signal and an outer budget, and *)
(* then stops and destroys the container.  One poll of a select! is one    *)
(* step: its arms are tried in the order written (biased).                 *)
(***************************************************************************)
EXTENDS Naturals, FiniteSets

CONSTANTS
  Connectors,  \* the HTTP/1.1 connectors of the configuration
  Conns,       \* connections clients may open
  MaxSignals   \* bound: shutdown signals the operator sends

VARIABLES
  acc,      \* each accept loop's place
  joinset,  \* each accept loop's JoinSet: tasks spawned and not yet joined
  task,     \* each connection task's place in serve_connection
  flag,     \* the watch channel's value
  main,     \* the main task's place
  how,      \* which arm ended the main task's wait
  signals   \* signals sent so far

connVars == <<acc, joinset, task, flag, main, how, signals>>

Ended == {"done", "failed"}
Running == {"reading", "serving", "writing", "rejecting"}
Live == Running \cup {"cancelling"}

ConnInit ==
  /\ acc = [k \in Connectors |-> "bind"]
  /\ joinset = [k \in Connectors |-> {}]
  /\ task = [c \in Conns |-> "none"]
  /\ flag = FALSE /\ main = "up" /\ how = "none" /\ signals = 0

Alive == main # "exited"

(***************************************************************************)
(* The accept loop                                                         *)
(***************************************************************************)
\* Acceptor::bind, then the look at the flag before the loop is entered.
Bind(k) ==
  /\ Alive /\ acc[k] = "bind"
  /\ \E end \in {IF flag THEN "done" ELSE "loop", "failed"} :
       acc' = [acc EXCEPT ![k] = end]
  /\ UNCHANGED <<joinset, task, flag, main, how, signals>>

\* The accept arm with a connection: its task joins the set.
Accept(k, c) ==
  /\ Alive /\ acc[k] = "loop" /\ ~flag /\ task[c] = "none"
  /\ task' = [task EXCEPT ![c] = "reading"]
  /\ joinset' = [joinset EXCEPT ![k] = @ \cup {c}]
  /\ UNCHANGED <<acc, flag, main, how, signals>>

\* is_fatal_accept_error: running out of descriptors has none of the kinds
\* the list names.
IsFatal(error) == error = "no descriptors"

\* Aborting a task takes effect when it next yields.
Cancelled(set) ==
  [c \in Conns |-> IF c \in set /\ task[c] \in Live THEN "cancelling" ELSE task[c]]

\* The accept arm with an error: sleep, or leave the loop and drop the set.
AcceptError(k, error) ==
  /\ Alive /\ acc[k] = "loop" /\ ~flag
  /\ IF IsFatal(error)
     THEN /\ acc' = [acc EXCEPT ![k] = "failed"]
          /\ task' = Cancelled(joinset[k])
          /\ joinset' = [joinset EXCEPT ![k] = {}]
     ELSE acc' = [acc EXCEPT ![k] = "backoff"] /\ UNCHANGED <<task, joinset>>
  /\ UNCHANGED <<flag, main, how, signals>>

\* The ten milliseconds after an error, during which nothing is watched.
Backoff(k) ==
  /\ Alive /\ acc[k] = "backoff"
  /\ acc' = [acc EXCEPT ![k] = "loop"]
  /\ UNCHANGED <<joinset, task, flag, main, how, signals>>

\* The join arm: a finished task leaves the set.
Reap(k) ==
  /\ Alive /\ acc[k] = "loop" /\ ~flag
  /\ \E c \in joinset[k] :
       task[c] \notin Live /\ joinset' = [joinset EXCEPT ![k] = @ \ {c}]
  /\ UNCHANGED <<acc, task, flag, main, how, signals>>

(* Mutant: the loop ends without waiting for what it has accepted. *)
SeeShutdownForgetful(k) ==
  /\ Alive /\ acc[k] = "loop" /\ flag
  /\ acc' = [acc EXCEPT ![k] = "done"]
  /\ UNCHANGED <<joinset, task, flag, main, how, signals>>

\* The shutdown arm: the listener is dropped; with no task left the loop is
\* done at once.
SeeShutdown(k) ==
  /\ Alive /\ acc[k] = "loop" /\ flag
  /\ acc' = [acc EXCEPT ![k] = IF joinset[k] = {} THEN "done" ELSE "drain"]
  /\ UNCHANGED <<joinset, task, flag, main, how, signals>>

\* One join_next of the drain.
DrainOne(k) ==
  /\ Alive /\ acc[k] \in {"drain", "abort"}
  /\ \E c \in joinset[k] :
       /\ task[c] \notin Live
       /\ joinset' = [joinset EXCEPT ![k] = @ \ {c}]
       /\ acc' = [acc EXCEPT ![k] = IF joinset[k] = {c} THEN "done" ELSE @]
  /\ UNCHANGED <<task, flag, main, how, signals>>

(* Mutant: the deadline passes and the tasks are left running. *)
DrainTimeoutIgnored(k) ==
  /\ Alive /\ acc[k] = "drain" /\ \E c \in joinset[k] : task[c] \in Live
  /\ acc' = [acc EXCEPT ![k] = "done"]
  /\ UNCHANGED <<task, joinset, flag, main, how, signals>>

(* Mutant: past the deadline the tasks are awaited and not aborted. *)
DrainTimeoutWaits(k) ==
  /\ Alive /\ acc[k] = "drain" /\ \E c \in joinset[k] : task[c] \in Live
  /\ acc' = [acc EXCEPT ![k] = "abort"]
  /\ UNCHANGED <<task, joinset, flag, main, how, signals>>

\* The drain deadline: JoinSet::shutdown aborts all and awaits them.
DrainTimeout(k) ==
  /\ Alive /\ acc[k] = "drain" /\ \E c \in joinset[k] : task[c] \in Live
  /\ acc' = [acc EXCEPT ![k] = "abort"]
  /\ task' = Cancelled(joinset[k])
  /\ UNCHANGED <<joinset, flag, main, how, signals>>

(***************************************************************************)
(* A connection task (serve_connection)                                    *)
(***************************************************************************)
Move(c, from, to) ==
  /\ Alive /\ task[c] = from
  /\ \E next \in to : task' = [task EXCEPT ![c] = next]
  /\ UNCHANGED <<acc, joinset, flag, main, how, signals>>

\* read_request returns a request; the peer closes or the keep-alive timeout
\* passes; a malformed request is answered and the connection closed.
ReadRequest(c) == Move(c, "reading", {"serving", "rejecting", "finished"})
\* The adapter answers.
Service(c) == Move(c, "serving", {"writing"})
\* The response is written; keep-alive reads on.
WriteAnswer(c) ==
  Move(c, "writing", {"reading", "finished"}) \/ Move(c, "rejecting", {"finished"})
\* An aborted task is dropped at its next suspension point.
Cancel(c) == Move(c, "cancelling", {"aborted"})

(***************************************************************************)
(* The main task (run)                                                     *)
(***************************************************************************)
\* The first signal: trigger flips the flag.
FirstSignal ==
  /\ main = "up" /\ signals < MaxSignals
  /\ signals' = signals + 1 /\ flag' = TRUE /\ main' = "drain"
  /\ UNCHANGED <<acc, joinset, task, how>>

WaitEnds(why) ==
  /\ main = "drain" /\ main' = "stop" /\ how' = why
  /\ UNCHANGED <<acc, joinset, task, flag>>

\* The three arms: a second signal, every connector task ended, the budget.
SecondSignal ==
  signals < MaxSignals /\ signals' = signals + 1 /\ WaitEnds("forced")

(* Mutant: the wait ends with the first connector that ends. *)
DrainAllFirst ==
  (\E k \in Connectors : acc[k] \in Ended) /\ WaitEnds("drained") /\ UNCHANGED signals

DrainAll ==
  (\A k \in Connectors : acc[k] \in Ended) /\ WaitEnds("drained") /\ UNCHANGED signals

\* The outer budget is two seconds longer than every connector's deadline:
\* when it passes, a connector that is watching has seen its own.
OuterBudget ==
  /\ \A k \in Connectors : acc[k] \notin {"loop", "drain"}
  /\ WaitEnds("budget") /\ UNCHANGED signals

\* Server::stop, Server::destroy, and the end of main, which drops the runtime.
StopServer ==
  /\ main \in {"stop", "destroy"}
  /\ main' = IF main = "stop" THEN "destroy" ELSE "exiting"
  /\ UNCHANGED <<acc, joinset, task, flag, how, signals>>

Exit ==
  /\ main = "exiting" /\ main' = "exited"
  /\ task' = [c \in Conns |-> IF task[c] \in Live THEN "aborted" ELSE task[c]]
  /\ UNCHANGED <<acc, joinset, flag, how, signals>>

ConnNext ==
  \/ \E k \in Connectors :
       \/ Bind(k) \/ Backoff(k) \/ Reap(k) \/ SeeShutdown(k) \/ DrainOne(k) \/ DrainTimeout(k)
       \/ \E c \in Conns : Accept(k, c)
       \/ \E e \in {"aborted", "no descriptors"} : AcceptError(k, e)
  \/ \E c \in Conns : ReadRequest(c) \/ Service(c) \/ WriteAnswer(c) \/ Cancel(c)
  \/ FirstSignal \/ SecondSignal \/ DrainAll \/ OuterBudget \/ StopServer \/ Exit

\* A poll of an accept loop that can go on, and of the main task.
AcceptLoop(k) == Bind(k) \/ Backoff(k) \/ SeeShutdown(k) \/ DrainOne(k) \/ DrainTimeout(k)
MainTask == DrainAll \/ StopServer \/ Exit

\* Tasks that can proceed are polled and timers fire; clients, applications
\* and operators owe nothing.
ConnFairness ==
  /\ \A k \in Connectors : WF_connVars(AcceptLoop(k))
  /\ \A c \in Conns : WF_connVars(Cancel(c))
  /\ WF_connVars(MainTask)

ConnSpec == ConnInit /\ [][ConnNext]_connVars /\ ConnFairness

(***************************************************************************)
(* Properties                                                              *)
(***************************************************************************)
\* Unless the operator forces it or the budget is overrun, the container is
\* stopped and destroyed only when no connection task runs any more; only a
\* loop that failed, and so dropped its set, leaves tasks it has not awaited.
StopAfterDrain ==
  main \in {"stop", "destroy", "exiting"} /\ how = "drained" =>
    \A c \in Conns :
      /\ task[c] \notin Running
      /\ task[c] = "cancelling" => \E k \in Connectors : acc[k] = "failed"

\* After a signal the process ends, however the connections behave: an idle
\* keep-alive connection or a hung servlet cannot hold it.
Stopping == main = "drain"
Stopped == main = "exited"
=============================================================================
