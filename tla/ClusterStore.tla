---------------------------- MODULE ClusterStore ----------------------------
(***************************************************************************)
(* The replicated session store of tomcatrs-session: ClusterSessionStore   *)
(* over the InMemoryClusterTransport (store_cluster.rs).                   *)
(*                                                                         *)
(* Every node keeps its own copy of the sessions and one inbox.  Request   *)
(* tasks call save, delete and load on the store of the node they run at;  *)
(* a node may also run run_receiver, a loop that applies what arrives.     *)
(* Both that loop and a load waiting for an answer take messages from the  *)
(* same inbox, whose mutex is handed over first come, first served.        *)
(*                                                                         *)
(* A session's payload is abstracted to the number of the write that       *)
(* produced it (0: absent).  seen and owed are history variables.          *)
(***************************************************************************)
EXTENDS Integers, Sequences, FiniteSets

CONSTANTS
    Node,        \* cluster node ids, out of and in the cluster
    Founders,    \* the nodes minted together by cluster()
    Receivers,   \* the nodes that spawn run_receiver
    Session,     \* session ids
    Task,        \* request tasks that call the store
    At,          \* the node each task runs at
    Ops,         \* which <<task, operation, session>> calls are made
    Mode,        \* each node's ReplicationMode
    Backup,      \* the with_backup peer of each node, or NoNode
    NoNode,
    MaxWrites,   \* bound: writes per session
    MaxLoads,    \* bound: loads per task
    MayJoin,     \* nodes that may join later
    MayLeave     \* nodes that may shut down

ASSUME NodeAssumption ==
    /\ NoNode \notin Node
    /\ Founders \subseteq Node
    /\ Receivers \subseteq Node
    /\ MayJoin \subseteq Node
    /\ MayLeave \subseteq Node
ASSUME TaskAssumption ==
    /\ Task \cap Node = {}
    /\ At \in [Task -> Node]
    /\ Ops \subseteq Task \X {"save", "delete", "load"} \X Session
ASSUME ModeAssumption ==
    /\ Mode \in [Node -> {"AllToAll", "PrimaryBackup"}]
    /\ Backup \in [Node -> Node \cup {NoNode}]
    /\ \A n \in Node : Backup[n] # n
ASSUME BoundAssumption == MaxWrites \in Nat /\ MaxLoads \in Nat

VARIABLES
    status,    \* whether a node is "out" of, "up" in or "down" in the cluster
    local,     \* each node's MemorySessionStore: the write a session holds
    inbox,     \* each node's unbounded channel
    waiters,   \* each inbox mutex: its holder, then those queued for it
    pc,        \* where each actor is
    hand,      \* the message an actor is about to send or to apply
    want,      \* the session a task's load is after
    expired,   \* whether a load's deadline has passed
    loads,     \* loads each task has made
    stamp,     \* writes made to each session so far
    seen,      \* history: the last write applied at each node
    owed       \* history: the last write acknowledged while the node was due it

vars == <<status, local, inbox, waiters, pc, hand, want, expired, loads,
          stamp, seen, owed>>

Actor == Task \cup Receivers
Home(a) == IF a \in Task THEN At[a] ELSE a

(***************************************************************************)
(* ClusterMessage.  ver is the write a Save or a positive FetchResponse    *)
(* carries, 0 in a negative one; in a Delete it only names the write.      *)
(***************************************************************************)
Msg == [type : {"Save", "Delete", "FetchRequest", "FetchResponse"},
        id : Session, ver : 0..MaxWrites, reply_to : Node \cup {NoNode}]
Message(type, s, v, n) == [type |-> type, id |-> s, ver |-> v, reply_to |-> n]
NoMsg == [type |-> "nothing"]
NoSession == "none"

IsWrite(m) == m.type \in {"Save", "Delete"}

(* Mutant: the delete leaves a tombstone. *)
StoredTombstone(m) == IF m.type = "Delete" THEN -1 ELSE m.ver
(* Mutant: the delete is applied as a save. *)
StoredUndeleted(m) == m.ver
(* What a node's store holds of m's session once m is applied. *)
Stored(m) == IF m.type = "Delete" THEN 0 ELSE m.ver

Up == {n \in Node : status[n] = "up"}

(* Mutant: the sender is not skipped. *)
PeersAndSelf(n) == IF Mode[n] = "AllToAll" THEN Node ELSE {Backup[n]} \cap Node
(* Where a write made at n is replicated to. *)
Peers(n) == IF Mode[n] = "AllToAll" THEN Node \ {n} ELSE {Backup[n]} \cap Node

(* Mutant: an unreachable peer ends the broadcast. *)
SentIfAllUp(To, m) ==
    [n \in Node |-> IF n \in To \cap Up /\ ~\E d \in To : status[d] = "down"
                      THEN Append(inbox[n], m) ELSE inbox[n]]
(* tx.send to every node of To: only live endpoints still take messages. *)
Sent(To, m) ==
    [n \in Node |-> IF n \in To \cap Up THEN Append(inbox[n], m) ELSE inbox[n]]

(* Mutant: a cancelled lock() stays queued. *)
WithoutNobody(q, a) == q
(* A queue after a cancelled lock() has left it. *)
Without(q, a) ==
    LET k == CHOOSE i \in 1..Len(q) : q[i] = a
    IN  IF \E i \in 1..Len(q) : q[i] = a
          THEN SubSeq(q, 1, k - 1) \o SubSeq(q, k + 1, Len(q))
          ELSE q

-----------------------------------------------------------------------------
(* cluster() mints the founders; the nodes with a receiver spawn it at once. *)
Init ==
    /\ status = [n \in Node |-> IF n \in Founders THEN "up" ELSE "out"]
    /\ local = [n \in Node |-> [s \in Session |-> 0]]
    /\ inbox = [n \in Node |-> <<>>]
    /\ waiters = [n \in Node |->
                    IF n \in Receivers \cap Founders THEN <<n>> ELSE <<>>]
    /\ pc = [a \in Actor |-> IF Home(a) \notin Founders THEN "off"
                             ELSE IF a \in Task THEN "idle" ELSE "wait"]
    /\ hand = [a \in Actor |-> NoMsg]
    /\ want = [t \in Task |-> NoSession]
    /\ expired = [t \in Task |-> FALSE]
    /\ loads = [t \in Task |-> 0]
    /\ stamp = [s \in Session |-> 0]
    /\ seen = [n \in Node |-> [s \in Session |-> 0]]
    /\ owed = [n \in Node |-> [s \in Session |-> 0]]

(* A node's store after it holds v for s, the w-th write. *)
Put(n, s, v, w) ==
    /\ local' = [local EXCEPT ![n][s] = v]
    /\ seen' = [seen EXCEPT ![n][s] = w]

(* Mutant: the receive loop ends on an error it should log. *)
NextRoundUnlessError(a) ==
    LET failed == pc[a] = "reply" /\ hand[a].reply_to \notin Up
        again == ~failed /\ ~(a \in Task /\ expired[a])
    IN  /\ hand' = [hand EXCEPT ![a] = NoMsg]
        /\ pc' = [pc EXCEPT ![a] = IF again THEN "wait" ELSE "idle"]
        /\ want' = IF again \/ a \notin Task THEN want
                   ELSE [want EXCEPT ![a] = NoSession]
        /\ waiters' = IF again THEN [waiters EXCEPT ![Home(a)] = Append(@, a)]
                      ELSE waiters

(* Actor a is through with its message: a receiver, and a load whose       *)
(* deadline has not passed, queue for the inbox again; a load at its       *)
(* deadline returns None.                                                  *)
NextRound(a) ==
    /\ hand' = [hand EXCEPT ![a] = NoMsg]
    /\ IF a \in Task /\ expired[a]
         THEN /\ pc' = [pc EXCEPT ![a] = "idle"]
              /\ want' = [want EXCEPT ![a] = NoSession]
              /\ UNCHANGED waiters
         ELSE /\ pc' = [pc EXCEPT ![a] = "wait"]
              /\ waiters' = [waiters EXCEPT ![Home(a)] = Append(@, a)]
              /\ UNCHANGED want

-----------------------------------------------------------------------------
(* save and delete: the local copy first ... *)
WriteLocal(t, type, s, v) ==
    /\ pc[t] = "idle"
    /\ stamp[s] < MaxWrites
    /\ stamp' = [stamp EXCEPT ![s] = @ + 1]
    /\ Put(At[t], s, v, stamp[s] + 1)
    /\ hand' = [hand EXCEPT ![t] = Message(type, s, stamp[s] + 1, NoNode)]
    /\ pc' = [pc EXCEPT ![t] = "replicate"]
    /\ UNCHANGED <<status, inbox, waiters, want, expired, loads, owed>>

Save(t, s) ==
    /\ <<t, "save", s>> \in Ops
    /\ WriteLocal(t, "Save", s, stamp[s] + 1)

Delete(t, s) ==
    /\ <<t, "delete", s>> \in Ops
    /\ WriteLocal(t, "Delete", s, 0)

(* ... then replicate, which answers the caller.  broadcast never fails;   *)
(* send_to fails when the backup's endpoint is gone or unknown, and the    *)
(* caller gets that error although the local copy has changed.             *)
Replicate(t) ==
    /\ pc[t] = "replicate"
    /\ inbox' = Sent(Peers(At[t]), hand[t])
    /\ owed' = [n \in Node |->
                  IF n \in Peers(At[t]) \cap Up
                    THEN [owed[n] EXCEPT ![hand[t].id] = hand[t].ver]
                    ELSE owed[n]]
    /\ pc' = [pc EXCEPT ![t] = "idle"]
    /\ hand' = [hand EXCEPT ![t] = NoMsg]
    /\ UNCHANGED <<status, local, waiters, want, expired, loads, stamp, seen>>

-----------------------------------------------------------------------------
(* load: a local hit returns at once, a miss goes to the peers. *)
Load(t, s) ==
    /\ <<t, "load", s>> \in Ops
    /\ pc[t] = "idle"
    /\ loads[t] < MaxLoads
    /\ loads' = [loads EXCEPT ![t] = @ + 1]
    /\ IF local[At[t]][s] # 0
         THEN UNCHANGED <<pc, want, expired>>
         ELSE /\ pc' = [pc EXCEPT ![t] = "ask"]
              /\ want' = [want EXCEPT ![t] = s]
              /\ expired' = [expired EXCEPT ![t] = FALSE]
    /\ UNCHANGED <<status, local, inbox, waiters, hand, stamp, seen, owed>>

(* The request is broadcast in both modes, then the load queues for the inbox. *)
Ask(t) ==
    /\ pc[t] = "ask"
    /\ inbox' = Sent(Node \ {At[t]}, Message("FetchRequest", want[t], 0, At[t]))
    /\ pc' = [pc EXCEPT ![t] = "wait"]
    /\ waiters' = [waiters EXCEPT ![At[t]] = Append(@, t)]
    /\ UNCHANGED <<status, local, hand, want, expired, loads, stamp, seen, owed>>

(* fetch_timeout runs out, whatever the load is doing ... *)
Deadline(t) ==
    /\ pc[t] \in {"wait", "apply", "reply"}
    /\ ~expired[t]
    /\ expired' = [expired EXCEPT ![t] = TRUE]
    /\ UNCHANGED <<status, local, inbox, waiters, pc, hand, want, loads, stamp,
                   seen, owed>>

(* Mutant: the timeout covers recv() but not the wait for the inbox mutex. *)
TimeoutOfHolder(t) ==
    /\ pc[t] = "wait" /\ expired[t] /\ Head(waiters[At[t]]) = t
    /\ pc' = [pc EXCEPT ![t] = "idle"]
    /\ want' = [want EXCEPT ![t] = NoSession]
    /\ waiters' = [waiters EXCEPT ![At[t]] = Without(@, t)]
    /\ UNCHANGED <<status, local, inbox, hand, expired, loads, stamp, seen, owed>>

(* ... and cancels its receive(), which leaves the mutex or its queue. *)
Timeout(t) ==
    /\ pc[t] = "wait" /\ expired[t]
    /\ pc' = [pc EXCEPT ![t] = "idle"]
    /\ want' = [want EXCEPT ![t] = NoSession]
    /\ waiters' = [waiters EXCEPT ![At[t]] = Without(@, t)]
    /\ UNCHANGED <<status, local, inbox, hand, expired, loads, stamp, seen, owed>>

-----------------------------------------------------------------------------
(* receive: the holder of the inbox mutex takes the next message and lets go. *)
Receive(a) ==
    LET n == Home(a)
    IN  /\ pc[a] = "wait"
        /\ waiters[n] # <<>> /\ Head(waiters[n]) = a
        /\ inbox[n] # <<>>
        /\ hand' = [hand EXCEPT ![a] = Head(inbox[n])]
        /\ inbox' = [inbox EXCEPT ![n] = Tail(@)]
        /\ waiters' = [waiters EXCEPT ![n] = Tail(@)]
        /\ pc' = [pc EXCEPT ![a] = "apply"]
        /\ UNCHANGED <<status, local, want, expired, loads, stamp, seen, owed>>

(* apply_incoming of a replicated write. *)
ApplyWrite(a) ==
    /\ pc[a] = "apply" /\ IsWrite(hand[a])
    /\ Put(Home(a), hand[a].id, Stored(hand[a]), hand[a].ver)
    /\ NextRound(a)
    /\ UNCHANGED <<status, inbox, expired, loads, stamp, owed>>

(* apply_incoming of a FetchRequest: look the session up ... *)
LookUp(a) ==
    /\ pc[a] = "apply" /\ hand[a].type = "FetchRequest"
    /\ hand' = [hand EXCEPT ![a] = Message("FetchResponse", hand[a].id,
                       local[Home(a)][hand[a].id], hand[a].reply_to)]
    /\ pc' = [pc EXCEPT ![a] = "reply"]
    /\ UNCHANGED <<status, local, inbox, waiters, want, expired, loads, stamp,
                   seen, owed>>

(* ... and send it straight back.  A requester that is gone is an error:   *)
(* the receiver logs it and goes on, a load gives up with it.              *)
Reply(a) ==
    LET to == hand[a].reply_to
    IN  /\ pc[a] = "reply"
        /\ inbox' = Sent({to}, hand[a])
        /\ IF a \in Task /\ to \notin Up
             THEN /\ hand' = [hand EXCEPT ![a] = NoMsg]
                  /\ pc' = [pc EXCEPT ![a] = "idle"]
                  /\ want' = [want EXCEPT ![a] = NoSession]
                  /\ UNCHANGED waiters
             ELSE NextRound(a)
        /\ UNCHANGED <<status, local, expired, loads, stamp, seen, owed>>

(* A FetchResponse ends the load it is for, which caches what it brings. *)
Answered(a) == a \in Task /\ hand[a].id = want[a]

Cache(a) ==
    /\ pc[a] = "apply" /\ hand[a].type = "FetchResponse" /\ Answered(a)
    /\ IF hand[a].ver # 0 THEN Put(At[a], hand[a].id, hand[a].ver, hand[a].ver)
                          ELSE UNCHANGED <<local, seen>>
    /\ pc' = [pc EXCEPT ![a] = "idle"]
    /\ hand' = [hand EXCEPT ![a] = NoMsg]
    /\ want' = [want EXCEPT ![a] = NoSession]
    /\ UNCHANGED <<status, inbox, waiters, expired, loads, stamp, owed>>

(* Anyone else that has taken a FetchResponse drops it. *)
Drop(a) ==
    /\ pc[a] = "apply" /\ hand[a].type = "FetchResponse" /\ ~Answered(a)
    /\ NextRound(a)
    /\ UNCHANGED <<status, local, inbox, expired, loads, stamp, seen, owed>>

-----------------------------------------------------------------------------
(* join: a new endpoint, its receiver started, enters the shared registry. *)
Join(n) ==
    /\ n \in MayJoin /\ status[n] = "out" /\ Up # {}
    /\ status' = [status EXCEPT ![n] = "up"]
    /\ waiters' = [waiters EXCEPT ![n] = IF n \in Receivers THEN <<n>> ELSE <<>>]
    /\ pc' = [a \in Actor |-> IF Home(a) # n THEN pc[a]
                              ELSE IF a \in Task THEN "idle" ELSE "wait"]
    /\ UNCHANGED <<local, inbox, hand, want, expired, loads, stamp, seen, owed>>

(* A node shuts down: its endpoint and everything running at it is dropped, *)
(* its entry stays in the registry with a closed channel.                   *)
Leave(n) ==
    /\ n \in MayLeave /\ status[n] = "up"
    /\ status' = [status EXCEPT ![n] = "down"]
    /\ inbox' = [inbox EXCEPT ![n] = <<>>]
    /\ waiters' = [waiters EXCEPT ![n] = <<>>]
    /\ pc' = [a \in Actor |-> IF Home(a) = n THEN "off" ELSE pc[a]]
    /\ hand' = [a \in Actor |-> IF Home(a) = n THEN NoMsg ELSE hand[a]]
    /\ want' = [t \in Task |-> IF At[t] = n THEN NoSession ELSE want[t]]
    /\ UNCHANGED <<local, expired, loads, stamp, seen, owed>>

-----------------------------------------------------------------------------
Consume(a) ==
    Receive(a) \/ ApplyWrite(a) \/ LookUp(a) \/ Reply(a) \/ Cache(a) \/ Drop(a)

Next ==
    \/ \E t \in Task, s \in Session : Save(t, s) \/ Delete(t, s) \/ Load(t, s)
    \/ \E t \in Task : Replicate(t) \/ Ask(t) \/ Deadline(t) \/ Timeout(t)
    \/ \E a \in Actor : Consume(a)
    \/ \E n \in Node : Join(n) \/ Leave(n)

Spec == Init /\ [][Next]_vars

(* The runtime keeps polling a task that can go on, and timers fire; that  *)
(* calls are made, and nodes join or leave, is not promised.               *)
Fairness ==
    /\ \A t \in Task : WF_vars(Replicate(t)) /\ WF_vars(Ask(t))
                       /\ WF_vars(Deadline(t)) /\ WF_vars(Timeout(t))
    /\ \A a \in Actor : WF_vars(Consume(a))

FairSpec == Spec /\ Fairness

-----------------------------------------------------------------------------
(* The types: what stores, inboxes and actors hold are writes that were    *)
(* made and messages that can be sent.                                     *)
TypeOK ==
    /\ status \in [Node -> {"out", "up", "down"}]
    /\ local \in [Node -> [Session -> 0..MaxWrites]]
    /\ inbox \in [Node -> Seq(Msg)]
    /\ waiters \in [Node -> Seq(Actor)]
    /\ pc \in [Actor -> {"off", "idle", "replicate", "ask", "wait", "apply",
                         "reply"}]
    /\ hand \in [Actor -> Msg \cup {NoMsg}]
    /\ want \in [Task -> Session \cup {NoSession}]
    /\ expired \in [Task -> BOOLEAN]
    /\ loads \in [Task -> 0..MaxLoads]
    /\ stamp \in [Session -> 0..MaxWrites]
    /\ seen \in [Node -> [Session -> 0..MaxWrites]]
    /\ owed \in [Node -> [Session -> 0..MaxWrites]]

(* Each session is written by one task only: requests of a session stick   *)
(* to a node and are served one at a time.                                 *)
Writes(t, s) == <<t, "save", s>> \in Ops \/ <<t, "delete", s>> \in Ops
SingleWriter ==
    \A s \in Session : \A t, u \in Task : Writes(t, s) /\ Writes(u, s) => t = u
NoLoads == \A t \in Task, s \in Session : <<t, "load", s>> \notin Ops

(* A write for s no older than v is on its way into n's store: queued in   *)
(* its inbox, or taken from it by an actor that has yet to apply it.       *)
Carries(m, s, v) == IsWrite(m) /\ m.id = s /\ m.ver >= v
Coming(n, s, v) ==
    \/ \E i \in 1..Len(inbox[n]) : Carries(inbox[n][i], s, v)
    \/ \E a \in Actor : Home(a) = n /\ pc[a] = "apply" /\ Carries(hand[a], s, v)

(* store_cluster.rs: a save or delete that returned Ok is never lost on    *)
(* the way: every live peer it was due to has applied it, or a later       *)
(* write, or still has it coming.                                          *)
AckedReplicated ==
    \A n \in Up, s \in Session :
        seen[n][s] < owed[n][s] => Coming(n, s, owed[n][s])

(* store_cluster.rs apply_incoming: a node's copy of a session never goes  *)
(* back to an earlier write than one it has applied.                       *)
NoRegress ==
    [][\A n \in Node, s \in Session : seen'[n][s] >= seen[n][s]]_vars

(* No write is under way or on its way anywhere, and no load is waiting. *)
Quiescent ==
    /\ \A n \in Up : \A i \in 1..Len(inbox[n]) : ~IsWrite(inbox[n][i])
    /\ \A t \in Task : pc[t] \in {"off", "idle"}
    /\ \A a \in Actor : ~IsWrite(hand[a])

(* ReplicationMode: "each node converges to holding every session": when   *)
(* everything sent has been handled, every peer of a live writer that was  *)
(* due its last write holds exactly what the writer's node holds.          *)
Converged ==
    Quiescent =>
        \A o \in Ops : \A n \in Peers(At[o[1]]) \cap Up :
            (o[2] # "load" /\ At[o[1]] \in Up /\ owed[n][o[3]] = stamp[o[3]])
                => local[n][o[3]] = local[At[o[1]]][o[3]]

(* ClusterMessage::Delete: "A session was invalidated on a peer; the       *)
(* recipient should drop it": when everything sent has been handled, no    *)
(* peer that was sent the delete still holds what its writer deleted.      *)
DeletesDropped ==
    Quiescent =>
        \A o \in Ops : \A n \in Peers(At[o[1]]) \cap Up :
            /\ o[2] = "delete" /\ At[o[1]] \in Up
            /\ owed[n][o[3]] = stamp[o[3]] /\ local[At[o[1]]][o[3]] = 0
            => local[n][o[3]] = 0

(* receive under the inbox mutex: an actor queues for its node's inbox     *)
(* exactly while it is inside receive(), once, so that a cancelled load    *)
(* never leaves the mutex in the hands of nobody.                          *)
InboxQueueSound ==
    \A n \in Node :
        /\ \A i, j \in 1..Len(waiters[n]) :
              waiters[n][i] = waiters[n][j] => i = j
        /\ {waiters[n][i] : i \in 1..Len(waiters[n])}
              = {a \in Actor : Home(a) = n /\ pc[a] = "wait"}

(* "a load cannot hang if no peer answers".  *)
LoadsDone == \A t \in Task : pc[t] \in {"idle", "off"}

(* run_receiver: at a node that runs it, what peers replicate is applied,  *)
(* whatever loads do at the same inbox and whichever requesters are gone.  *)
WritesArrived ==
    \A n \in Receivers \cap Up, s \in Session : seen[n][s] >= owed[n][s]

=============================================================================
