---------------------------- MODULE MCContainer -----------------------------
(***************************************************************************)
(* The parts of the container that wait for one another, side by side for  *)
(* TLC: an asynchronous request, requests on their way through the JVM's   *)
(* worker pool, the background thread, and loads from the cluster's store. *)
(* They do not interact: a behaviour belongs to one of them and the others *)
(* are at rest, so that no fairness asks them to move.  All but the        *)
(* cluster's store are extended modules.                                   *)
(***************************************************************************)
EXTENDS AsyncContext, ServletBridge, Background, TLC

CONSTANT Parts  \* the components this run looks at

VARIABLES
  part,
  status, local, inbox, waiters, cpc, hand, want, expired, loads, stamp, applied, owed

clusterVars == <<status, local, inbox, waiters, cpc, hand, want, expired, loads, stamp,
                 applied, owed>>

(***************************************************************************)
(* The instances                                                           *)
(***************************************************************************)
\* Two hosts with a context of the same path, and one of another.
Deployed == {[host |-> "h", path |-> "/"], [host |-> "k", path |-> "/"],
             [host |-> "h", path |-> "/a"]}

\* One writer, and loads at two other nodes, of which one runs a receiver and
\* one may leave.
Nodes == {"n1", "n2", "n3"}
LoaderAt == ("t1" :> "n1") @@ ("t2" :> "n2") @@ ("t3" :> "n3")
LoaderOps == {<<"t1", "save", "s">>, <<"t2", "load", "s">>, <<"t3", "load", "s">>}
Cluster == INSTANCE ClusterStore
  WITH Node <- Nodes, Founders <- Nodes, Receivers <- {"n2"}, Session <- {"s"},
       Task <- {"t1", "t2", "t3"}, At <- LoaderAt, Ops <- LoaderOps,
       Mode <- [n \in Nodes |-> "AllToAll"], Backup <- [n \in Nodes |-> "none"],
       NoNode <- "none", MaxWrites <- 1, MaxLoads <- 1, MayJoin <- {}, MayLeave <- {"n3"},
       pc <- cpc, seen <- applied

(***************************************************************************)
(* The sum                                                                 *)
(***************************************************************************)
AsyncDone ==
  /\ state = "Dispatched" /\ path = NoPath /\ timedOut = FALSE /\ timeout = FALSE
  /\ signal = "none" /\ pc = "done" /\ site = "first" /\ outcome = NoOutcome /\ cycle = 1
  /\ app = [a \in App |-> Idle] /\ reaper = "idle" /\ winners = {}

\* No request was sent, and none will be.
BridgeDone ==
  /\ task = [r \in Requests |-> "done"] /\ jobs = <<>> /\ open = TRUE /\ panics = 0
  /\ pool = [w \in Workers |-> "idle"] /\ requests = {} /\ responses = {}
  /\ sink = [r \in Requests |-> EmptyResponse]
  /\ position = [r \in Requests |-> 0] /\ given = [r \in Requests |-> <<>>]
  /\ hold = [x \in Requests \X Threads |-> {}]
  /\ calls = [x \in Requests \X Threads |-> 1]
  /\ result = [r \in Requests |-> 200]
  /\ wire = [r \in Requests |-> [EmptyResponse EXCEPT !.status = 200]]

SumInit ==
  /\ part \in Parts
  /\ IF part = "async" THEN Init ELSE AsyncDone
  /\ IF part = "bridge" THEN BridgeInit ELSE BridgeDone
  /\ IF part = "background" THEN BgInit
     ELSE BgInit /\ mtime = [c \in Deployed |-> 0]
  /\ Cluster!Init

AsyncStep ==
  /\ part = "async" /\ Next
  /\ UNCHANGED <<part, bridgeVars, bgVars, clusterVars>>

BridgeStep ==
  /\ part = "bridge" /\ BridgeNext
  /\ UNCHANGED <<part, vars, bgVars, clusterVars>>

BackgroundStep ==
  /\ part = "background" /\ BgNext
  /\ UNCHANGED <<part, vars, bridgeVars, clusterVars>>

ClusterStep ==
  /\ part = "cluster" /\ Cluster!Next
  /\ UNCHANGED <<part, vars, bridgeVars, bgVars>>

SumNext == AsyncStep \/ BridgeStep \/ BackgroundStep \/ ClusterStep

SumSpec ==
  /\ SumInit /\ [][SumNext]_<<part, vars, bridgeVars, bgVars, clusterVars>>
  /\ Fairness /\ BridgeFairness /\ BgFairness /\ Cluster!Fairness

(***************************************************************************)
(* Properties                                                              *)
(***************************************************************************)
\* Nobody waits for ever: once an asynchronous request left async mode its caller
\* gets the outcome; every request through the worker pool is answered, also
\* when the pool dies or shuts down; the background thread ends when told; and
\* in the cluster every load returns and every replicated write arrives.
EveryoneAnswered ==
  (\/ part = "async" /\ state \in {"Completed", "Dispatching", "Error"}
   \/ part = "bridge"
   \/ part = "background" /\ Signalled
   \/ part = "cluster")
  ~> (\/ part = "async" /\ pc \in {"got", "service", "done"}
      \/ part = "bridge" /\ AllAnswered
      \/ part = "background" /\ LoopEnded
      \/ part = "cluster" /\ Cluster!LoadsDone /\ Cluster!WritesArrived)
=============================================================================
