----------------------------- MODULE Deployment -----------------------------
(***************************************************************************)
(* A virtual host of tomcatrs-catalina and everything that changes its     *)
(* contexts while the server runs:                                         *)
(*                                                                         *)
(*   main        the lifecycle cascade Server -> ... -> Host -> Context    *)
(*               -> Wrapper driven by the command line (init, start, stop, *)
(*               destroy);                                                 *)
(*   watcher     DeploymentWatcher, which re-scans app_base on a timer;    *)
(*   redeployer  HotRedeployer, which bounces reloadable contexts whose    *)
(*               WEB-INF changed;                                          *)
(*   manager     one operator request of ManagerService at a time.         *)
(*                                                                         *)
(* The four run on different threads and share the context map (a DashMap) *)
(* and the contexts (state cells and OnceLocks): no lock spans two of the  *)
(* steps below.  The disk is changed by an operator at any moment.         *)
(***************************************************************************)
EXTENDS Integers, FiniteSets, Sequences, FiniteSetsExt

CONSTANTS
  Apps,          \* context paths, numbered in the order of the scanner's sort
  Configured,    \* the paths declared in server.xml, reloadable
  Servlets,      \* number of <servlet>s of a descriptor that declares some
  Descriptors,   \* the kinds of web.xml an operator writes
  Roles,         \* the background actors this embedding runs
  Requests,      \* the manager requests the operator sends
  Stops,         \* whether the server is stopped
  MaxContexts,   \* bound: contexts ever created
  MaxClock       \* bound: changes of the disk

ASSUME DeploymentAssumption ==
  /\ Apps \subseteq Nat /\ IsFiniteSet(Apps)
  /\ Configured \subseteq Apps
  /\ Servlets \in Nat \ {0}
  /\ Descriptors \subseteq {"none", "good", "empty", "bad"}
  /\ Roles \subseteq {"watcher", "redeployer", "manager"}
  /\ Requests \subseteq {"start", "stop", "reload", "deploy", "undeploy"}
  /\ Stops \in BOOLEAN
  /\ MaxContexts \in Nat /\ MaxClock \in Nat

VARIABLES
  disk,      \* app_base: what is at each path, its web.xml, its WEB-INF mtime
  clock,     \* the newest mtime given out
  host,      \* Host.contexts: the context registered at each path
  contexts,  \* every Context ever created; the index is the Arc's identity
  hostState, \* Host.state
  pc,        \* where each actor is
  todo,      \* what is left of each actor's loop
  cur,       \* the path or context each actor is working on
  job,       \* the context cascade each actor is in
  seen       \* HotRedeployer.seen

vars == <<disk, clock, host, contexts, hostState, pc, todo, cur, job, seen>>
local == <<pc, todo, cur, job>>

Actors == {"main"} \cup Roles
States == {"New", "Initialized", "Starting", "Started", "Stopping", "Stopped", "Destroyed"}
None == 0
NoTime == -1
NoJob == [op |-> "none", id |-> None, n |-> 0, step |-> 0, ret |-> "idle"]

Ids == 1 .. Len(contexts)
Registered == {p \in Apps : host[p] # None}

(***************************************************************************)
(* Contexts.                                                               *)
(***************************************************************************)

(* Mutant: the context forgets which path it was built for. *)
NewContextMisfiled(p, reloadable) ==
  [path |-> Min(Apps), reloadable |-> reloadable, state |-> "New",
   wired |-> FALSE, wrappers |-> <<>>]

\* A context as its constructors leave it: no descriptor wired in.
NewContext(p, reloadable) ==
  [path |-> p, reloadable |-> reloadable, state |-> "New",
   wired |-> FALSE, wrappers |-> <<>>]

\* Webapp::open: an exploded directory whose web.xml, if any, parses.
Opens(p) == disk[p].kind = "dir" /\ disk[p].xml # "bad"

\* The wrappers a descriptor declares: none for one without <servlet>s.
Declared(p) ==
  IF disk[p].xml = "good" THEN [i \in 1 .. Servlets |-> "New"] ELSE <<>>

(* Mutant: a second descriptor is let through. *)
WiresTwice(c) == TRUE

\* Context::deploy_descriptor claims the OnceLock; a second call is refused,
\* also when the first descriptor declared no servlet.
Wires(c) == ~c.wired

DeployDescriptor(c) == [c EXCEPT !.wired = TRUE, !.wrappers = Declared(c.path)]

\* Whether Context::deploy returns Ok on this context now.
DeploySucceeds(c) ==
  Opens(c.path) /\ (disk[c.path].xml = "none" \/ Wires(c))

\* Context::deploy: open, parse, wire; a failure leaves the context as it was.
Deploy(c) ==
  IF DeploySucceeds(c) /\ disk[c.path].xml # "none" THEN DeployDescriptor(c) ELSE c

(***************************************************************************)
(* The lifecycle cascade of one context: the transitional state, its       *)
(* wrappers one by one, the final state.                                   *)
(***************************************************************************)
Transitional(op) == CASE op = "start" -> "Starting" [] op = "stop" -> "Stopping"
Final(op) == CASE op = "init" -> "Initialized" [] op = "start" -> "Started"
               [] op = "stop" -> "Stopped" [] op = "destroy" -> "Destroyed"

BeginJob(a, op, id, ret) ==
  job' = [job EXCEPT ![a] =
            [op |-> op, id |-> id, n |-> 0, step |-> 0, ret |-> ret]]

\* The transitional state is written and the wrapper slice taken.
JobEnter(a) ==
  LET j == job[a] IN
  /\ j.op # "none" /\ j.step = 0
  /\ contexts' = IF j.op \in {"start", "stop"}
                   THEN [contexts EXCEPT ![j.id].state = Transitional(j.op)]
                   ELSE contexts
  /\ job' = [job EXCEPT ![a].n = Len(contexts[j.id].wrappers), ![a].step = 1]
  /\ UNCHANGED <<disk, clock, host, hostState, pc, todo, cur, seen>>

JobWrapper(a) ==
  LET j == job[a] IN
  /\ j.op # "none" /\ j.step \in 1 .. j.n
  /\ contexts' = [contexts EXCEPT ![j.id].wrappers[j.step] = Final(j.op)]
  /\ job' = [job EXCEPT ![a].step = @ + 1]
  /\ UNCHANGED <<disk, clock, host, hostState, pc, todo, cur, seen>>

(* Mutant: the last wrapper is left behind. *)
JobLeaveEarly(a) ==
  LET j == job[a] IN
  /\ j.op # "none" /\ j.step > 0 /\ j.step >= j.n
  /\ contexts' = [contexts EXCEPT ![j.id].state = Final(j.op)]
  /\ job' = [job EXCEPT ![a] = NoJob]
  /\ pc' = [pc EXCEPT ![a] = j.ret]
  /\ UNCHANGED <<disk, clock, host, hostState, todo, cur, seen>>

JobLeave(a) ==
  LET j == job[a] IN
  /\ j.op # "none" /\ j.step = j.n + 1
  /\ contexts' = [contexts EXCEPT ![j.id].state = Final(j.op)]
  /\ job' = [job EXCEPT ![a] = NoJob]
  /\ pc' = [pc EXCEPT ![a] = j.ret]
  /\ UNCHANGED <<disk, clock, host, hostState, todo, cur, seen>>

(***************************************************************************)
(* main: one cascade over the host after the other.  The walk visits the   *)
(* contexts registered when it began and still there, in any order; one    *)
(* registered meanwhile may be visited or missed (it depends on its shard).*)
(* cur holds what has been visited.                                        *)
(***************************************************************************)
Following(op) == CASE op = "init" -> "start" [] op = "start" -> "running"
                   [] op = "stop" -> "destroy" [] op = "destroy" -> "exit"

HostBegin ==
  /\ pc["main"] \in {"init", "start", "stop", "destroy"}
  /\ hostState' = IF pc["main"] \in {"start", "stop"}
                    THEN Transitional(pc["main"]) ELSE hostState
  /\ pc' = [pc EXCEPT !["main"] = CASE @ = "init" -> "initing"
                          [] @ = "start" -> "starting"
                          [] @ = "stop" -> "stopping"
                          [] @ = "destroy" -> "destroying"]
  /\ todo' = [todo EXCEPT !["main"] = Registered]
  /\ cur' = [cur EXCEPT !["main"] = {}]
  /\ UNCHANGED <<disk, clock, host, contexts, job, seen>>

Walking(op) == pc["main"] = CASE op = "init" -> "initing" [] op = "start" -> "starting"
                              [] op = "stop" -> "stopping" [] op = "destroy" -> "destroying"

HostVisit(op, p) ==
  /\ Walking(op) /\ job["main"] = NoJob
  /\ p \in Registered \ cur["main"]
  /\ cur' = [cur EXCEPT !["main"] = @ \cup {p}]
  /\ BeginJob("main", op, host[p], pc["main"])
  /\ UNCHANGED <<disk, clock, host, contexts, hostState, pc, todo, seen>>

HostEnd(op) ==
  /\ Walking(op) /\ job["main"] = NoJob
  /\ (todo["main"] \cap Registered) \subseteq cur["main"]
  /\ hostState' = Final(op)
  /\ pc' = [pc EXCEPT !["main"] = Following(op)]
  /\ todo' = [todo EXCEPT !["main"] = {}]
  /\ cur' = [cur EXCEPT !["main"] = {}]
  /\ UNCHANGED <<disk, clock, host, contexts, job, seen>>

\* The shutdown signal: the command line drains the connectors and stops the
\* server; the background loops see it before their next tick only.
Signal ==
  /\ Stops /\ pc["main"] = "running"
  /\ pc' = [pc EXCEPT !["main"] = "stop"]
  /\ UNCHANGED <<disk, clock, host, contexts, hostState, todo, cur, job, seen>>

Up == pc["main"] = "running"

(***************************************************************************)
(* HostDeployer::deploy_all, run by the watcher or by a manager request.   *)
(***************************************************************************)

\* scan: the exploded directories and packed archives under app_base.
Scan(a) ==
  /\ pc' = [pc EXCEPT ![a] = "unit"]
  /\ todo' = [todo EXCEPT ![a] = {p \in Apps : disk[p].kind # "absent"}]
  /\ UNCHANGED <<disk, clock, host, contexts, hostState, cur, job, seen>>

\* The scan is sorted by path.
Foremost(p, paths) == \A q \in paths : p <= q

(* Mutant: the check that the path is free is lost. *)
NextUnitUnchecked(a) ==
  /\ pc[a] = "unit"
  /\ \E p \in todo[a] :
     /\ Foremost(p, todo[a])
     /\ todo' = [todo EXCEPT ![a] = @ \ {p}]
     /\ cur' = [cur EXCEPT ![a] = p]
     /\ pc' = [pc EXCEPT ![a] = "open"]
  /\ UNCHANGED <<disk, clock, host, contexts, hostState, job, seen>>

\* The next unit in path order: skipped when its path is registered.
NextUnit(a) ==
  /\ pc[a] = "unit"
  /\ \E p \in todo[a] :
     /\ Foremost(p, todo[a])
     /\ todo' = [todo EXCEPT ![a] = @ \ {p}]
     /\ IF host[p] # None
          THEN UNCHANGED <<pc, cur>>
          ELSE /\ cur' = [cur EXCEPT ![a] = p]
               /\ pc' = [pc EXCEPT ![a] = "open"]
  /\ UNCHANGED <<disk, clock, host, contexts, hostState, job, seen>>

(* Mutant: a unit that fails ends the watch loop. *)
OpenUnitGivesUp(a) ==
  LET p == cur[a] IN
  /\ pc[a] = "open"
  /\ IF ~Opens(p)
       THEN /\ pc' = [pc EXCEPT ![a] = "ended"]
            /\ cur' = [cur EXCEPT ![a] = None]
            /\ UNCHANGED <<host, contexts>>
       ELSE /\ Len(contexts) < MaxContexts
            /\ contexts' = Append(contexts, NewContext(p, FALSE))
            /\ host' = [host EXCEPT ![p] = Len(contexts')]
            /\ cur' = [cur EXCEPT ![a] = Len(contexts')]
            /\ pc' = [pc EXCEPT ![a] = "deploy"]
  /\ UNCHANGED <<disk, clock, hostState, todo, job, seen>>

\* deploy_unit, first half: a packed archive or an invalid application is
\* logged and skipped; otherwise a new context is registered at the path.
OpenUnit(a) ==
  LET p == cur[a] IN
  /\ pc[a] = "open"
  /\ IF ~Opens(p)
       THEN /\ pc' = [pc EXCEPT ![a] = "unit"]
            /\ cur' = [cur EXCEPT ![a] = None]
            /\ UNCHANGED <<host, contexts>>
       ELSE /\ Len(contexts) < MaxContexts
            /\ contexts' = Append(contexts, NewContext(p, FALSE))
            /\ host' = [host EXCEPT ![p] = Len(contexts')]
            /\ cur' = [cur EXCEPT ![a] = Len(contexts')]
            /\ pc' = [pc EXCEPT ![a] = "deploy"]
  /\ UNCHANGED <<disk, clock, hostState, todo, job, seen>>

\* deploy_unit, second half: the descriptor is read again and wired in.
DeployUnit(a) ==
  /\ pc[a] = "deploy"
  /\ contexts' = [contexts EXCEPT ![cur[a]] = Deploy(@)]
  /\ pc' = [pc EXCEPT ![a] = "unit"]
  /\ cur' = [cur EXCEPT ![a] = None]
  /\ UNCHANGED <<disk, clock, host, hostState, todo, job, seen>>

\* The scan is over; what vanished from the disk is only logged.
ScanDone(a) ==
  /\ pc[a] = "unit" /\ todo[a] = {}
  /\ pc' = [pc EXCEPT ![a] = "idle"]
  /\ UNCHANGED <<disk, clock, host, contexts, hostState, todo, cur, job, seen>>

WatcherTick ==
  /\ "watcher" \in Roles /\ Up /\ pc["watcher"] = "idle"
  /\ Scan("watcher")

(***************************************************************************)
(* HotRedeployer::tick over the reloadable contexts registered now.        *)
(***************************************************************************)
RedeployTick ==
  /\ "redeployer" \in Roles /\ Up /\ pc["redeployer"] = "idle"
  /\ pc' = [pc EXCEPT !["redeployer"] = "observe"]
  /\ todo' = [todo EXCEPT !["redeployer"] =
                {host[p] : p \in {q \in Registered : contexts[host[q]].reloadable}}]
  /\ UNCHANGED <<disk, clock, host, contexts, hostState, cur, job, seen>>

\* combined_mtime: the newest time under WEB-INF, if there is a WEB-INF.
CombinedMtime(p) == IF disk[p].kind = "dir" THEN disk[p].mtime ELSE NoTime

\* The mtime is remembered before the reload is tried; the first one, an
\* equal and an older one start nothing.
Observe(id) ==
  LET p == contexts[id].path IN
  /\ pc["redeployer"] = "observe" /\ job["redeployer"] = NoJob
  /\ id \in todo["redeployer"]
  /\ todo' = [todo EXCEPT !["redeployer"] = @ \ {id}]
  /\ IF CombinedMtime(p) = NoTime
       THEN UNCHANGED <<seen, cur, job>>
       ELSE /\ seen' = [seen EXCEPT ![p] = CombinedMtime(p)]
            /\ IF seen[p] # NoTime /\ seen[p] < CombinedMtime(p)
                 THEN /\ cur' = [cur EXCEPT !["redeployer"] = id]
                      /\ BeginJob("redeployer", "stop", id, "reopen")
                 ELSE UNCHANGED <<cur, job>>
  /\ UNCHANGED <<disk, clock, host, contexts, hostState, pc>>

(* Mutant: the descriptor is handed over on every reload. *)
ReopenAlwaysWires ==
  LET id == cur["redeployer"]
      c == contexts[id]
      unwired == disk[c.path].xml # "none"
  IN
  /\ pc["redeployer"] = "reopen"
  /\ pc' = [pc EXCEPT !["redeployer"] = "observe"]
  /\ IF ~Opens(c.path) \/ (unwired /\ ~Wires(c))
       THEN UNCHANGED <<contexts, job>>
       ELSE /\ contexts' = IF unwired
                             THEN [contexts EXCEPT ![id] = DeployDescriptor(c)]
                             ELSE contexts
            /\ BeginJob("redeployer", "start", id, "observe")
  /\ cur' = [cur EXCEPT !["redeployer"] = None]
  /\ UNCHANGED <<disk, clock, host, hostState, todo, seen>>

\* redeploy_one after its stop: re-validate, wire a context without wrappers,
\* start; any failure leaves the context stopped.
Reopen ==
  LET id == cur["redeployer"]
      c == contexts[id]
      unwired == Len(c.wrappers) = 0 /\ disk[c.path].xml # "none"
  IN
  /\ pc["redeployer"] = "reopen"
  /\ pc' = [pc EXCEPT !["redeployer"] = "observe"]
  /\ IF ~Opens(c.path) \/ (unwired /\ ~Wires(c))
       THEN UNCHANGED <<contexts, job>>
       ELSE /\ contexts' = IF unwired
                             THEN [contexts EXCEPT ![id] = DeployDescriptor(c)]
                             ELSE contexts
            /\ BeginJob("redeployer", "start", id, "observe")
  /\ cur' = [cur EXCEPT !["redeployer"] = None]
  /\ UNCHANGED <<disk, clock, host, hostState, todo, seen>>

TickDone ==
  /\ pc["redeployer"] = "observe" /\ job["redeployer"] = NoJob
  /\ todo["redeployer"] = {}
  /\ pc' = [pc EXCEPT !["redeployer"] = "idle"]
  /\ UNCHANGED <<disk, clock, host, contexts, hostState, todo, cur, job, seen>>

(***************************************************************************)
(* ManagerService: find_context, then the handler.                         *)
(***************************************************************************)
ManagerReady(r) ==
  "manager" \in Roles /\ Up /\ r \in Requests
    /\ pc["manager"] = "idle" /\ job["manager"] = NoJob

\* handle_start and handle_stop run the cascade on the context they found.
HandleStartStop(op, p) ==
  /\ ManagerReady(op) /\ host[p] # None
  /\ BeginJob("manager", op, host[p], "idle")
  /\ UNCHANGED <<disk, clock, host, contexts, hostState, pc, todo, cur, seen>>

\* handle_reload re-runs Context::deploy and nothing else.
HandleReload(p) ==
  /\ ManagerReady("reload") /\ host[p] # None
  /\ contexts' = [contexts EXCEPT ![host[p]] = Deploy(@)]
  /\ UNCHANGED <<disk, clock, host, hostState, local, seen>>

HandleDeploy ==
  /\ ManagerReady("deploy")
  /\ Scan("manager")

\* handle_undeploy drops the context from the map; it is not stopped.
HandleUndeploy(p) ==
  /\ ManagerReady("undeploy") /\ host[p] # None
  /\ host' = [host EXCEPT ![p] = None]
  /\ UNCHANGED <<disk, clock, contexts, hostState, local, seen>>

(***************************************************************************)
(* The operator's changes of app_base.                                     *)
(***************************************************************************)

\* An archive, or an application whose files keep their old mtimes or get new
\* ones (only a redeployer looks, and only at what is Configured), is copied in.
DropApp(p) ==
  /\ clock < MaxClock /\ disk[p].kind = "absent"
  /\ clock' = clock + 1
  /\ \/ disk' = [disk EXCEPT ![p] = [kind |-> "war", xml |-> "none", mtime |-> 0]]
     \/ \E xml \in Descriptors,
          m \in IF "redeployer" \in Roles /\ p \in Configured THEN {0, clock'} ELSE {0} :
          disk' = [disk EXCEPT ![p] = [kind |-> "dir", xml |-> xml, mtime |-> m]]
  /\ UNCHANGED <<host, contexts, hostState, local, seen>>

\* web.xml or a class is rewritten in place.
EditApp(p) ==
  /\ clock < MaxClock /\ disk[p].kind = "dir"
  /\ clock' = clock + 1
  /\ \E xml \in Descriptors :
       disk' = [disk EXCEPT ![p].xml = xml, ![p].mtime = clock']
  /\ UNCHANGED <<host, contexts, hostState, local, seen>>

RemoveApp(p) ==
  /\ disk[p].kind # "absent" /\ clock < MaxClock
  /\ clock' = clock + 1
  /\ disk' = [disk EXCEPT ![p] = [kind |-> "absent", xml |-> "none", mtime |-> 0]]
  /\ UNCHANGED <<host, contexts, hostState, local, seen>>

-----------------------------------------------------------------------------

\* The tree as Host::from_config builds it: one context per declared path.
Init ==
  /\ \E xml \in [Configured -> Descriptors \ {"bad"}] :
       disk = [p \in Apps |->
                 IF p \in Configured
                   THEN [kind |-> "dir", xml |-> xml[p], mtime |-> 0]
                   ELSE [kind |-> "absent", xml |-> "none", mtime |-> 0]]
  /\ clock = 0
  /\ \E order \in [1 .. Cardinality(Configured) -> Configured] :
       /\ \A i, j \in DOMAIN order : i < j => order[i] < order[j]
       /\ contexts = [i \in DOMAIN order |-> NewContext(order[i], TRUE)]
       /\ host = [p \in Apps |->
                    IF p \in Configured
                      THEN CHOOSE i \in DOMAIN order : order[i] = p
                      ELSE None]
  /\ hostState = "New"
  /\ pc = [a \in Actors |-> IF a = "main" THEN "init" ELSE "idle"]
  /\ todo = [a \in Actors |-> {}]
  /\ cur = [a \in Actors |-> IF a = "main" THEN {} ELSE None]
  /\ job = [a \in Actors |-> NoJob]
  /\ seen = [p \in Apps |-> NoTime]

Cascade(a) == JobEnter(a) \/ JobWrapper(a) \/ JobLeave(a)

Main ==
  \/ HostBegin
  \/ \E op \in {"init", "start", "stop", "destroy"} :
       (\E p \in Apps : HostVisit(op, p)) \/ HostEnd(op)
  \/ Cascade("main")

DeployAll(a) == NextUnit(a) \/ OpenUnit(a) \/ DeployUnit(a) \/ ScanDone(a)

Watcher == WatcherTick \/ ("watcher" \in Roles /\ DeployAll("watcher"))

Redeployer ==
  \/ RedeployTick
  \/ "redeployer" \in Roles /\ \/ \E id \in Ids : Observe(id)
                               \/ Reopen \/ TickDone
                               \/ Cascade("redeployer")

Manager ==
  \/ \E p \in Apps : \/ \E op \in {"start", "stop"} : HandleStartStop(op, p)
                     \/ HandleReload(p) \/ HandleUndeploy(p)
  \/ HandleDeploy
  \/ "manager" \in Roles /\ (DeployAll("manager") \/ Cascade("manager"))

Operator == \E p \in Apps : DropApp(p) \/ EditApp(p) \/ RemoveApp(p)

Next == Main \/ Signal \/ Watcher \/ Redeployer \/ Manager \/ Operator

Spec == Init /\ [][Next]_vars

\* The runtime keeps polling the tasks it was given: main, the interval loops
\* and a request that was taken up all proceed.  Nobody has to send a request,
\* a signal, or touch the disk.
FairSpec ==
  /\ Spec
  /\ WF_vars(Main) /\ WF_vars(Watcher) /\ WF_vars(Redeployer)
  /\ WF_vars("manager" \in Roles /\ (DeployAll("manager") \/ Cascade("manager")))

-----------------------------------------------------------------------------
(***************************************************************************)
(* Properties.                                                             *)
(***************************************************************************)

\* The types, and that a registered context is the one built for its path.
TypeOK ==
  /\ \A p \in Apps :
       /\ disk[p].kind \in {"absent", "dir", "war"}
       /\ disk[p].xml \in Descriptors \cup {"none"}
       /\ disk[p].mtime \in 0 .. clock
       /\ host[p] \in {None} \cup Ids
       /\ seen[p] \in {NoTime} \cup 0 .. clock
  /\ clock \in 0 .. MaxClock
  /\ \A i \in Ids :
       /\ contexts[i].state \in States
       /\ \A k \in DOMAIN contexts[i].wrappers : contexts[i].wrappers[k] \in States
  /\ \A p \in Registered : contexts[host[p]].path = p
  /\ \A a \in Actors : job[a] = NoJob \/ job[a].id \in Ids

\* No actor is inside a lifecycle cascade of context i.
Quiet(i) == \A a \in Actors : job[a].id # i

\* docs/architecture.md: "a parent is only considered `Started` once its
\* children are started".  A registered context that says Started, with no
\* cascade under way on it, has every wrapper started.
StartedMeansChildren ==
  \A p \in Registered :
    LET c == contexts[host[p]] IN
    c.state = "Started" /\ Quiet(host[p]) =>
      \A k \in DOMAIN c.wrappers : c.wrappers[k] = "Started"

\* deploy_all: "A context whose path is already deployed is left untouched":
\* a path's context gives way to another one only through an undeploy.
NeverReplaced ==
  [][\A p \in Apps : host[p] # None => host'[p] \in {host[p], None}]_vars

\* The wrappers of a context are wired once: a later descriptor changes their
\* number never, whoever of deployer, manager and redeployer came second.
WiredOnce ==
  [][\A i \in Ids : contexts[i].wired =>
        Len(contexts'[i].wrappers) = Len(contexts[i].wrappers)]_vars

\* The context's single-shot guard was spent on a descriptor without servlets,
\* and there still is a descriptor: Reopen hands it over again and is refused.
SpentOnEmpty(p) ==
  LET c == contexts[host[p]] IN c.wired /\ c.wrappers = <<>> /\ disk[p].xml # "none"

Fixed(p) == Opens(p) /\ host[p] # None /\ seen[p] # NoTime /\ disk[p].mtime > seen[p]

BackUp(p) ==
  host[p] # None /\ contexts[host[p]].state = "Started" /\ seen[p] = disk[p].mtime

\* redeploy_one: "the operator can fix the descriptor and we'll pick it up next
\* tick": when the application on disk is valid and newer than what the
\* redeployer has seen, its context comes back up, unless the disk or the
\* registration changes again.  Claimed of every context but those that
\* SpentOnEmpty names: of these the code contradicts the comment (redeploy.rs
\* l. 167-169 against the guard at l. 176), each later fix being refused.
FixPickedUp ==
  \A p \in Configured :
    Fixed(p) ~> BackUp(p) \/ ~Opens(p) \/ host[p] = None \/ SpentOnEmpty(p)

\* The comment's whole claim, without that exception; it fails as soon as
\* Descriptors has "empty" (README, section 5).
FixPickedUpAlways ==
  \A p \in Configured : Fixed(p) ~> BackUp(p) \/ ~Opens(p) \/ host[p] = None

\* An application dropped into app_base and left there is registered by the
\* watcher, however often an earlier scan had to skip it.
DropsRegistered ==
  \A p \in Apps : Opens(p) ~> (host[p] # None \/ ~Opens(p))

=============================================================================
