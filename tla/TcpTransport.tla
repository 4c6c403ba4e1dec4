---------------------------- MODULE TcpTransport ----------------------------
(***************************************************************************)
(* TcpClusterTransport of tomcatrs-session: tasks of one node send to its  *)
(* peers over connections that are opened on the first send, each with a   *)
(* writer task and a bounded queue, and found through a shared map.  A     *)
(* peer may restart, which breaks every connection to it.  A message is    *)
(* its number; whether it is too large to frame is chosen when it is sent. *)
(***************************************************************************)
EXTENDS Naturals, Sequences, FiniteSets, SequencesExt

CONSTANTS
  Peers,       \* the other nodes
  Tasks,       \* tasks of this node that send
  MaxMessages, \* bound: messages sent
  MaxConns,    \* bound: connections opened
  MaxRestarts, \* bound: restarts of peers
  QueueDepth,  \* OUTBOUND_QUEUE_DEPTH
  InboxDepth,  \* INBOUND_QUEUE_DEPTH
  SocketDepth, \* bound: frames a socket buffers
  Directed     \* peers addressed with send_to; the rest only by broadcast

ASSUME PeersAssumption == IsFiniteSet(Peers)
ASSUME MessagesAssumption == MaxMessages \in Nat

VARIABLES
  outbound,  \* the map from peers to the connection used, 0 for none
  conns,     \* every connection: its peer, queue, socket, writer and link
  sender,    \* each task's place, its message, and the peers still to send to
  inbox,     \* each peer's inbound queue
  nmsgs,     \* messages so far
  restarts,  \* restarts so far
  accepted,  \* messages queued for each peer (history)
  received   \* messages each peer's application got (history)

tcpVars == <<outbound, conns, sender, inbox, nmsgs, restarts, accepted, received>>

Messages == 1..MaxMessages
Idle == [at |-> "idle", msg |-> 0, big |-> FALSE, todo |-> <<>>, via |-> 0]

TcpInit ==
  /\ outbound = [p \in Peers |-> 0] /\ conns = <<>>
  /\ sender = [t \in Tasks |-> Idle]
  /\ inbox = [p \in Peers |-> <<>>] /\ nmsgs = 0 /\ restarts = 0
  /\ accepted = [p \in Peers |-> {}] /\ received = [p \in Peers |-> <<>>]

Target(t) == Head(sender[t].todo)

\* The task goes on with the next peer of a broadcast, or is done.
NextLeg(t) ==
  LET leg == sender[t]
  IN [sender EXCEPT ![t] = IF Len(leg.todo) = 1 THEN Idle
                           ELSE [leg EXCEPT !.at = "lookup", !.todo = Tail(leg.todo),
                                            !.via = 0]]

(***************************************************************************)
(* Sending                                                                 *)
(***************************************************************************)
Start(t, peers, big) ==
  /\ sender[t].at = "idle" /\ nmsgs < MaxMessages
  /\ nmsgs' = nmsgs + 1
  /\ sender' = IF peers = <<>> THEN sender
               ELSE [sender EXCEPT ![t] = [at |-> "lookup", msg |-> nmsgs + 1, big |-> big,
                                           todo |-> peers, via |-> 0]]
  /\ UNCHANGED <<outbound, conns, inbox, restarts, accepted, received>>

\* send_to
SendTo(t, p, big) == p \in Directed /\ Start(t, <<p>>, big)

\* broadcast: the peers in the map when it starts, one after the other.
Broadcast(t, big) == Start(t, SetToSeq({p \in Peers : outbound[p] # 0}), big)

\* ensure_peer finds an entry.
EnsureFound(t) ==
  /\ sender[t].at = "lookup" /\ outbound[Target(t)] # 0
  /\ sender' = [sender EXCEPT ![t].at = "send", ![t].via = outbound[Target(t)]]
  /\ UNCHANGED <<outbound, conns, inbox, nmsgs, restarts, accepted, received>>

\* It finds none and awaits a connection.
EnsureConnects(t) ==
  /\ sender[t].at = "lookup" /\ outbound[Target(t)] = 0 /\ Len(conns) < MaxConns
  /\ sender' = [sender EXCEPT ![t].at = "connect"]
  /\ UNCHANGED <<outbound, conns, inbox, nmsgs, restarts, accepted, received>>

\* The connection is there and its writer spawned; an entry another task made
\* meanwhile is preferred, and the sender of the new queue dropped.
Connected(t) ==
  /\ sender[t].at = "connect" /\ Len(conns) < MaxConns
  /\ LET p == Target(t)
         c == Len(conns) + 1
         via == IF outbound[p] = 0 THEN c ELSE outbound[p]
     IN /\ conns' = Append(conns, [peer |-> p, queue |-> <<>>, sock |-> <<>>,
                                   writer |-> "up", link |-> "up"])
        /\ outbound' = [outbound EXCEPT ![p] = via]
        /\ sender' = [sender EXCEPT ![t].at = "send", ![t].via = via]
  /\ UNCHANGED <<inbox, nmsgs, restarts, accepted, received>>

\* The connection is refused, or the bound on connections is met.
ConnectFails(t) ==
  /\ sender[t].at \in {"lookup", "connect"}
  /\ sender[t].at = "lookup" => outbound[Target(t)] = 0 /\ Len(conns) = MaxConns
  /\ sender' = NextLeg(t)
  /\ UNCHANGED <<outbound, conns, inbox, nmsgs, restarts, accepted, received>>

\* The queue takes the message, now or when it has room.
Enqueue(t) ==
  LET c == sender[t].via
  IN /\ sender[t].at = "send" /\ conns[c].writer # "down" /\ Len(conns[c].queue) < QueueDepth
     /\ conns' = [conns EXCEPT ![c].queue = Append(@, [id |-> sender[t].msg, big |-> sender[t].big])]
     /\ accepted' = [accepted EXCEPT ![Target(t)] = @ \cup {sender[t].msg}]
     /\ sender' = NextLeg(t)
     /\ UNCHANGED <<outbound, inbox, nmsgs, restarts, received>>

\* The writer is gone: whatever entry the peer has is cleared.
EnqueueClosed(t) ==
  /\ sender[t].at = "send" /\ conns[sender[t].via].writer = "down"
  /\ outbound' = [outbound EXCEPT ![Target(t)] = 0]
  /\ sender' = NextLeg(t)
  /\ UNCHANGED <<conns, inbox, nmsgs, restarts, accepted, received>>

(***************************************************************************)
(* The writer task of a connection                                         *)
(***************************************************************************)
HasSender(c) ==
  (\E p \in Peers : outbound[p] = c) \/ \E t \in Tasks : sender[t].at = "send" /\ sender[t].via = c

\* Is the writer's next message one that it cannot frame?
NextIsBig(c) == conns[c].queue # <<>> /\ Head(conns[c].queue).big

\* A message that is too large is dropped, whatever the state of the link.
DropBig(c) ==
  /\ conns[c].writer = "up" /\ NextIsBig(c)
  /\ conns' = [conns EXCEPT ![c].queue = Tail(@)]
  /\ UNCHANGED <<outbound, sender, inbox, nmsgs, restarts, accepted, received>>

(* Mutant: a frame is taken off the queue once the write is confirmed. *)
WriteFrameTwice(c) ==
  /\ conns[c].writer = "up" /\ conns[c].queue # <<>> /\ conns[c].link = "up"
  /\ Len(conns[c].sock) < SocketDepth
  /\ \E taken \in BOOLEAN :
       conns' = [conns EXCEPT ![c].queue = IF taken THEN Tail(@) ELSE @,
                              ![c].sock = Append(@, Head(conns[c].queue).id)]
  /\ UNCHANGED <<outbound, sender, inbox, nmsgs, restarts, accepted, received>>

\* Any other is framed and written.
WriteFrame(c) ==
  /\ conns[c].writer = "up" /\ conns[c].queue # <<>> /\ conns[c].link = "up"
  /\ ~NextIsBig(c) /\ Len(conns[c].sock) < SocketDepth
  /\ conns' = [conns EXCEPT ![c].queue = Tail(@),
                            ![c].sock = Append(@, Head(conns[c].queue).id)]
  /\ UNCHANGED <<outbound, sender, inbox, nmsgs, restarts, accepted, received>>

(* Mutant: the writer waits for more whether or not anyone can send. *)
WriterStopsNever(c) ==
  /\ conns[c].writer = "up"
  /\ conns[c].queue # <<>> /\ ~NextIsBig(c) /\ conns[c].link = "broken"
  /\ conns' = [conns EXCEPT ![c].writer = "ending"]
  /\ outbound' = [outbound EXCEPT ![conns[c].peer] = 0]
  /\ UNCHANGED <<sender, inbox, nmsgs, restarts, accepted, received>>

(* Mutant: a write that fails is tried for ever. *)
WriterStopsIdle(c) ==
  /\ conns[c].writer = "up" /\ conns[c].queue = <<>> /\ ~HasSender(c)
  /\ conns' = [conns EXCEPT ![c].writer = "ending"]
  /\ outbound' = [outbound EXCEPT ![conns[c].peer] = 0]
  /\ UNCHANGED <<sender, inbox, nmsgs, restarts, accepted, received>>

\* A write fails, or every sender is gone and the queue is empty: the loop ends
\* and the peer's entry is removed, also when it is another connection's.
WriterStops(c) ==
  /\ conns[c].writer = "up"
  /\ \/ conns[c].queue # <<>> /\ ~NextIsBig(c) /\ conns[c].link = "broken"
     \/ conns[c].queue = <<>> /\ ~HasSender(c)
  /\ conns' = [conns EXCEPT ![c].writer = "ending"]
  /\ outbound' = [outbound EXCEPT ![conns[c].peer] = 0]
  /\ UNCHANGED <<sender, inbox, nmsgs, restarts, accepted, received>>

\* The stream is shut down and the queue dropped with what is in it.
WriterGone(c) ==
  /\ conns[c].writer = "ending"
  /\ conns' = [conns EXCEPT ![c].writer = "down", ![c].queue = <<>>]
  /\ UNCHANGED <<outbound, sender, inbox, nmsgs, restarts, accepted, received>>

(***************************************************************************)
(* A peer                                                                  *)
(***************************************************************************)
\* read_inbound_loop: a frame goes to the inbound queue, which may be full.
ReadInbound(c) ==
  LET p == conns[c].peer
  IN /\ conns[c].sock # <<>> /\ Len(inbox[p]) < InboxDepth
     /\ conns' = [conns EXCEPT ![c].sock = Tail(@)]
     /\ inbox' = [inbox EXCEPT ![p] = Append(@, Head(conns[c].sock))]
     /\ UNCHANGED <<outbound, sender, nmsgs, restarts, accepted, received>>

\* receive
Receive(p) ==
  /\ inbox[p] # <<>>
  /\ received' = [received EXCEPT ![p] = Append(@, Head(inbox[p]))]
  /\ inbox' = [inbox EXCEPT ![p] = Tail(@)]
  /\ UNCHANGED <<outbound, conns, sender, nmsgs, restarts, accepted>>

\* The peer restarts: connections break, and what was on its way is lost.
Restart(p) ==
  /\ restarts < MaxRestarts /\ restarts' = restarts + 1
  /\ inbox' = [inbox EXCEPT ![p] = <<>>]
  /\ conns' = [c \in DOMAIN conns |->
                 IF conns[c].peer = p THEN [conns[c] EXCEPT !.link = "broken", !.sock = <<>>]
                 ELSE conns[c]]
  /\ UNCHANGED <<outbound, sender, nmsgs, accepted, received>>

TaskStep(t) ==
  \/ EnsureFound(t) \/ EnsureConnects(t) \/ Connected(t) \/ ConnectFails(t)
  \/ Enqueue(t) \/ EnqueueClosed(t)

WriterStep(c) == DropBig(c) \/ WriteFrame(c) \/ WriterStops(c) \/ WriterGone(c)

TcpNext ==
  \/ \E t \in Tasks :
       \/ \E big \in BOOLEAN : Broadcast(t, big) \/ \E p \in Peers : SendTo(t, p, big)
       \/ TaskStep(t)
  \/ \E c \in DOMAIN conns : WriterStep(c) \/ ReadInbound(c)
  \/ \E p \in Peers : Receive(p) \/ Restart(p)

\* Tasks are polled, and the replication layer of a peer keeps receiving.
TcpFairness ==
  /\ \A t \in Tasks : WF_tcpVars(TaskStep(t))
  /\ \A c \in 1..MaxConns :
       /\ WF_tcpVars(c \in DOMAIN conns /\ WriterStep(c))
       /\ WF_tcpVars(c \in DOMAIN conns /\ ReadInbound(c))
  /\ \A p \in Peers : WF_tcpVars(Receive(p))

TcpSpec == TcpInit /\ [][TcpNext]_tcpVars /\ TcpFairness

(***************************************************************************)
(* Properties                                                              *)
(***************************************************************************)
Link == INSTANCE LossyLink WITH sent <- accepted, got <- received

\* Whatever the tasks, writers and restarts do, the transport is a link that
\* neither makes up nor repeats a message: a reconnect resends nothing.
ImplementsLink == Link!LinkSpec

\* The tasks send no more than MaxMessages messages, and then it comes to rest:
\* every send has ended, also against a full queue and a peer that restarts, and
\* no writer stays behind on a connection that lost the race for the map or was
\* evicted from it.
AtRest ==
  /\ \A t \in Tasks : sender[t].at = "idle"
  /\ \A c \in DOMAIN conns : conns[c].writer # "down" => HasSender(c)
=============================================================================
