--------------------------- MODULE ProtocolProofs ---------------------------
(***************************************************************************)
(* The connection protocols, for every number of peers, connections and    *)
(* messages.                                                               *)
(*                                                                         *)
(* TcpTransport implements LossyLink, whatever the depths of its queues:   *)
(* what a peer receives was accepted for it, and is received once.  A      *)
(* message accepted for a peer is in at most one place: received, in the   *)
(* peer's inbound queue, or in the socket or the queue of one of the       *)
(* connections that lead to it.  Sequences are followed as sets of what    *)
(* they carry, and each carries nothing twice.                             *)
(*                                                                         *)
(* Connector: every connection task that runs is in the set of a loop that *)
(* has not ended, or was aborted as its loop failed; so a server that has  *)
(* drained has none.                                                       *)
(*                                                                         *)
(* WebSocket: what is written is well formed after each step and ends with *)
(* a whole message, and a connection that sent a Close is not open.        *)
(***************************************************************************)
EXTENDS TcpTransport, Connector, WebSocket, FiniteSetTheorems, SequenceTheorems, TLAPS

-----------------------------------------------------------------------------
(* The types. *)

Queued == [id : Messages, big : BOOLEAN]
ConnType == [peer : Peers, queue : Seq(Queued), sock : Seq(Messages),
             writer : {"up", "ending", "down"}, link : {"up", "broken"}]
SenderType == [at : {"idle", "lookup", "connect", "send"}, msg : Nat, big : BOOLEAN,
               todo : Seq(Peers), via : Nat]

TcpTypes ==
  /\ outbound \in [Peers -> Nat]
  /\ conns \in Seq(ConnType)
  /\ sender \in [Tasks -> SenderType]
  /\ inbox \in [Peers -> Seq(Messages)]
  /\ nmsgs \in Nat
  /\ accepted \in [Peers -> SUBSET Messages]
  /\ received \in [Peers -> Seq(Messages)]

-----------------------------------------------------------------------------
(* The inductive invariant. *)

OnceIn(s) == \A i, j \in DOMAIN s : s[i] = s[j] => i = j

(* The map, and a task about to send, name connections to the right peer.  *)
Leads(c, p) == c \in DOMAIN conns /\ conns[c].peer = p
Wired ==
  /\ \A p \in Peers : outbound[p] # 0 => Leads(outbound[p], p)
  /\ \A t \in Tasks : sender[t].at = "send" => Leads(sender[t].via, Target(t))

(* A task sends a message of its own, to each of its peers for the first   *)
(* time.                                                                   *)
Leg(t) ==
  /\ sender[t].todo # <<>> /\ sender[t].msg \in 1..nmsgs /\ OnceIn(sender[t].todo)
  /\ \A p \in ToSet(sender[t].todo) : sender[t].msg \notin accepted[p]
Sending ==
  /\ \A t \in Tasks : sender[t].at # "idle" => Leg(t)
  /\ \A t, u \in Tasks :
       (t # u /\ sender[t].at # "idle" /\ sender[u].at # "idle")
         => sender[t].msg # sender[u].msg
  /\ nmsgs <= MaxMessages
  /\ \A p \in Peers : accepted[p] \subseteq 1..nmsgs

(* What a connection carries, in its queue or in its socket.               *)
Ids(q) == {q[i].id : i \in DOMAIN q}
OnceIds(q) == \A i, j \in DOMAIN q : q[i].id = q[j].id => i = j
Carried(k) == ToSet(k.sock) \cup Ids(k.queue)
Whole(k) == OnceIn(k.sock) /\ OnceIds(k.queue) /\ ToSet(k.sock) \cap Ids(k.queue) = {}

(* What has left the connections for good or is about to.                  *)
Arrived(p) == ToSet(inbox[p]) \cup ToSet(received[p])

ConnsSound ==
  \A c \in DOMAIN conns :
    /\ Whole(conns[c])
    /\ Carried(conns[c]) \subseteq accepted[conns[c].peer] \ Arrived(conns[c].peer)
ConnsApart ==
  \A c, d \in DOMAIN conns :
    (c # d /\ conns[c].peer = conns[d].peer) => Carried(conns[c]) \cap Carried(conns[d]) = {}
PeersSound ==
  \A p \in Peers :
    /\ OnceIn(inbox[p])
    /\ ToSet(inbox[p]) \subseteq accepted[p] \ ToSet(received[p])
    /\ ToSet(received[p]) \subseteq accepted[p]
Flight == ConnsSound /\ ConnsApart /\ PeersSound

TcpInv == TcpTypes /\ Wired /\ Sending /\ Flight

-----------------------------------------------------------------------------
(* Sequences as sets. *)

LEMMA AppendSet ==
    ASSUME NEW S, NEW s \in Seq(S), NEW x \in S
    PROVE  /\ Append(s, x) \in Seq(S) /\ ToSet(Append(s, x)) = ToSet(s) \cup {x}
           /\ (OnceIn(s) /\ x \notin ToSet(s)) => OnceIn(Append(s, x))
  <1>1. /\ Append(s, x) \in Seq(S) /\ DOMAIN s = 1..Len(s) /\ Len(s) \in Nat
        /\ DOMAIN Append(s, x) = 1..(Len(s) + 1)
    BY AppendProperties, LenProperties
  <1>2. Append(s, x)[Len(s) + 1] = x /\ \A i \in 1..Len(s) : Append(s, x)[i] = s[i]
    BY AppendProperties
  <1>3. ToSet(Append(s, x)) = ToSet(s) \cup {x}
    BY <1>1, <1>2 DEF ToSet
  <1>4. (OnceIn(s) /\ x \notin ToSet(s)) => OnceIn(Append(s, x))
    BY <1>1, <1>2 DEF OnceIn, ToSet
  <1> QED
    BY <1>1, <1>3, <1>4

LEMMA TailSet ==
    ASSUME NEW S, NEW s \in Seq(S), s # <<>>
    PROVE  /\ Tail(s) \in Seq(S) /\ Head(s) \in S
           /\ ToSet(s) = ToSet(Tail(s)) \cup {Head(s)}
           /\ OnceIn(s) => OnceIn(Tail(s)) /\ Head(s) \notin ToSet(Tail(s))
  <1>1. /\ Tail(s) \in Seq(S) /\ Head(s) \in S /\ Head(s) = s[1]
        /\ Len(s) \in Nat /\ Len(s) >= 1 /\ Len(Tail(s)) = Len(s) - 1
    BY HeadTailProperties, LenProperties, EmptySeq
  <1>2. DOMAIN s = 1..Len(s) /\ DOMAIN Tail(s) = 1..(Len(s) - 1)
    BY <1>1, LenProperties
  <1>3. \A i \in 1..(Len(s) - 1) : Tail(s)[i] = s[i + 1]
    BY <1>1, HeadTailProperties
  <1>4. ToSet(s) = ToSet(Tail(s)) \cup {Head(s)}
    <2>1. ASSUME NEW i \in DOMAIN s PROVE s[i] \in ToSet(Tail(s)) \cup {Head(s)}
      <3>1. CASE i = 1
        BY <1>1, <3>1
      <3>2. CASE i # 1
        <4>1. i - 1 \in 1..(Len(s) - 1) /\ s[(i - 1) + 1] = s[i]
          BY <1>1, <1>2, <3>2
        <4> QED
          BY <1>2, <1>3, <4>1 DEF ToSet
      <3> QED
        BY <3>1, <3>2
    <2>2. ToSet(Tail(s)) \cup {Head(s)} \subseteq ToSet(s)
      BY <1>1, <1>2, <1>3 DEF ToSet
    <2> QED
      BY <2>1, <2>2 DEF ToSet
  <1>5. OnceIn(s) => OnceIn(Tail(s))
    BY <1>1, <1>2, <1>3 DEF OnceIn
  <1>6. OnceIn(s) => Head(s) \notin ToSet(Tail(s))
    BY <1>1, <1>2, <1>3 DEF OnceIn, ToSet
  <1> QED
    BY <1>1, <1>4, <1>5, <1>6

LEMMA EmptySet == ToSet(<<>>) = {} /\ Ids(<<>>) = {} /\ OnceIn(<<>>) /\ OnceIds(<<>>)
  BY DEF ToSet, Ids, OnceIn, OnceIds

(* A queue is read through the numbers of its messages. *)
LEMMA AppendIds ==
    ASSUME NEW q \in Seq(Queued), NEW x \in Queued
    PROVE  /\ Append(q, x) \in Seq(Queued) /\ Ids(Append(q, x)) = Ids(q) \cup {x.id}
           /\ (OnceIds(q) /\ x.id \notin Ids(q)) => OnceIds(Append(q, x))
  <1>1. /\ Append(q, x) \in Seq(Queued) /\ DOMAIN q = 1..Len(q) /\ Len(q) \in Nat
        /\ DOMAIN Append(q, x) = 1..(Len(q) + 1)
    BY AppendProperties, LenProperties
  <1>2. Append(q, x)[Len(q) + 1] = x /\ \A i \in 1..Len(q) : Append(q, x)[i] = q[i]
    BY AppendProperties
  <1>3. Ids(Append(q, x)) = Ids(q) \cup {x.id}
    BY <1>1, <1>2 DEF Ids
  <1>4. (OnceIds(q) /\ x.id \notin Ids(q)) => OnceIds(Append(q, x))
    BY <1>1, <1>2 DEF OnceIds, Ids
  <1> QED
    BY <1>1, <1>3, <1>4

LEMMA TailIds ==
    ASSUME NEW q \in Seq(Queued), q # <<>>
    PROVE  /\ Tail(q) \in Seq(Queued) /\ Head(q) \in Queued
           /\ Ids(Tail(q)) \subseteq Ids(q) /\ Head(q).id \in Ids(q)
           /\ OnceIds(q) => OnceIds(Tail(q)) /\ Head(q).id \notin Ids(Tail(q))
  <1>1. /\ Tail(q) \in Seq(Queued) /\ Head(q) \in Queued /\ Head(q) = q[1]
        /\ Len(q) \in Nat /\ Len(q) >= 1 /\ Len(Tail(q)) = Len(q) - 1
    BY HeadTailProperties, LenProperties, EmptySeq
  <1>2. DOMAIN q = 1..Len(q) /\ DOMAIN Tail(q) = 1..(Len(q) - 1)
    BY <1>1, LenProperties
  <1>3. \A i \in 1..(Len(q) - 1) : Tail(q)[i] = q[i + 1]
    BY <1>1, HeadTailProperties
  <1>4. Ids(Tail(q)) \subseteq Ids(q) /\ Head(q).id \in Ids(q)
    BY <1>1, <1>2, <1>3 DEF Ids
  <1>5. OnceIds(q) => OnceIds(Tail(q))
    BY <1>1, <1>2, <1>3 DEF OnceIds
  <1>6. OnceIds(q) => Head(q).id \notin Ids(Tail(q))
    BY <1>1, <1>2, <1>3 DEF OnceIds, Ids
  <1> QED
    BY <1>1, <1>4, <1>5, <1>6

(* A broadcast names each peer once. *)
LEMMA SeqOfPeers ==
    ASSUME NEW P \in SUBSET Peers
    PROVE  SetToSeq(P) \in Seq(Peers) /\ OnceIn(SetToSeq(P))
  <1> DEFINE n == Cardinality(P)
  <1>1. n \in Nat /\ ExistsBijection(1..n, P)
    BY PeersAssumption, FS_Subset, FS_CardinalityType
  <1>2. PICK f \in [1..n -> P] : \A i, j \in 1..n : f[i] = f[j] => i = j
    BY <1>1, Zenon DEF ExistsBijection, Bijection, Injection, IsInjective
  <1>3. IsInjective(f)
    BY <1>2 DEF IsInjective
  <1>4. SetToSeq(P) \in [1..n -> P] /\ IsInjective(SetToSeq(P))
    BY <1>2, <1>3, Zenon DEF SetToSeq
  <1>5. SetToSeq(P) \in Seq(Peers)
    <2>1. \A g \in [1..n -> P] : g \in Seq(Peers)
      BY <1>1 DEF Seq
    <2> QED
      BY <1>4, <2>1
  <1> QED
    BY <1>4, <1>5 DEF IsInjective, OnceIn

-----------------------------------------------------------------------------
(* The tasks. *)

LEMMA IdleSender == Idle \in SenderType /\ Idle.at = "idle"
  <1>1. <<>> \in Seq(Peers)
    BY EmptySeq
  <1> QED
    BY <1>1 DEF Idle, SenderType

(* What carries messages keeps what was said of it as long as the          *)
(* connections, the inboxes and the histories stay.                        *)
LEMMA FlightStays ==
    ASSUME Flight, UNCHANGED <<conns, inbox, accepted, received>>
    PROVE  Flight'
  BY DEF Flight, ConnsSound, ConnsApart, PeersSound, Arrived

(* send_to and broadcast: the message is the task's own. *)
LEMMA Starts ==
    ASSUME TcpInv, NEW t \in Tasks, NEW peers \in Seq(Peers), OnceIn(peers),
           NEW big \in BOOLEAN, Start(t, peers, big)
    PROVE  TcpInv' /\ UNCHANGED <<accepted, received>>
  <1> USE DEF TcpInv
  <1>1. TcpTypes'
    <2>1. [at |-> "lookup", msg |-> nmsgs + 1, big |-> big, todo |-> peers, via |-> 0]
            \in SenderType
      BY DEF SenderType, TcpTypes
    <2> QED
      BY <2>1 DEF Start, TcpTypes
  <1>2. Wired'
    BY DEF Start, Wired, Leads, Target, TcpTypes
  <1>3. Sending'
    <2>1. \A u \in Tasks : sender'[u] = sender[u] \/ (u = t /\ peers # <<>>)
      BY DEF Start, TcpTypes
    <2>2. peers # <<>> => (sender'[t].msg = nmsgs + 1 /\ sender'[t].todo = peers)
      BY DEF Start, TcpTypes
    <2>3. /\ nmsgs' = nmsgs + 1 /\ accepted' = accepted /\ nmsgs' \in Nat
          /\ nmsgs' <= MaxMessages /\ nmsgs \in Nat /\ MaxMessages \in Nat
      BY MessagesAssumption DEF Start, TcpTypes
    <2>4. \A p \in Peers : accepted[p] \subseteq 1..nmsgs
      BY DEF Sending
    <2>5. ToSet(peers) \subseteq Peers
      BY ElementOfSeq, LenProperties DEF ToSet
    <2>6. \A u \in Tasks : sender'[u].at # "idle" => Leg(u)'
      <3> SUFFICES ASSUME NEW u \in Tasks, sender'[u].at # "idle" PROVE Leg(u)'
        OBVIOUS
      <3>1. CASE sender'[u] = sender[u]
        <4>1. Leg(u)
          BY <3>1 DEF Sending
        <4> QED
          BY <2>3, <3>1, <4>1 DEF Leg, OnceIn, ToSet
      <3>2. CASE u = t /\ peers # <<>>
        BY <2>2, <2>3, <2>4, <2>5, <3>2 DEF Leg, OnceIn, ToSet
      <3> QED
        BY <2>1, <3>1, <3>2
    <2>7. \A u, v \in Tasks :
            (u # v /\ sender'[u].at # "idle" /\ sender'[v].at # "idle")
              => sender'[u].msg # sender'[v].msg
      BY <2>1, <2>2, <2>3 DEF Sending, Leg
    <2>8. \A p \in Peers : accepted'[p] \subseteq 1..nmsgs'
      BY <2>3, <2>4
    <2> QED
      BY <2>3, <2>6, <2>7, <2>8 DEF Sending
  <1>4. Flight' /\ UNCHANGED <<accepted, received>>
    BY FlightStays DEF Start
  <1> QED
    BY <1>1, <1>2, <1>3, <1>4

(* A task that is not idle has a peer to send to. *)
LEMMA TargetIsPeer ==
    ASSUME TcpInv, NEW t \in Tasks, sender[t].at # "idle"
    PROVE  /\ Target(t) \in Peers /\ Target(t) \in ToSet(sender[t].todo)
           /\ sender[t].msg \in Messages /\ sender[t].msg \notin accepted[Target(t)]
           /\ Leg(t) /\ sender[t].todo \in Seq(Peers)
  <1>1. Leg(t) /\ sender[t].todo \in Seq(Peers)
    BY DEF TcpInv, Sending, TcpTypes, SenderType
  <1>2. Target(t) \in Peers /\ Target(t) \in ToSet(sender[t].todo)
    BY <1>1, TailSet DEF Leg, Target
  <1>3. sender[t].msg \in Messages
    BY <1>1, MessagesAssumption DEF TcpInv, TcpTypes, Sending, Leg, Messages
  <1> QED
    BY <1>1, <1>2, <1>3 DEF Leg

(* ... and goes on with the rest of its peers. *)
LEMMA NextLegs ==
    ASSUME TcpInv, NEW t \in Tasks, sender[t].at # "idle", sender' = NextLeg(t)
    PROVE  /\ sender' \in [Tasks -> SenderType]
           /\ \A u \in Tasks \ {t} : sender'[u] = sender[u]
           /\ sender'[t].at \in {"idle", "lookup"}
           /\ sender'[t].at # "idle" =>
                /\ sender'[t].msg = sender[t].msg /\ sender'[t].todo # <<>>
                /\ OnceIn(sender'[t].todo)
                /\ ToSet(sender'[t].todo) \subseteq ToSet(sender[t].todo) \ {Target(t)}
  <1>1. /\ Leg(t) /\ sender[t].todo \in Seq(Peers) /\ sender[t] \in SenderType
        /\ sender \in [Tasks -> SenderType]
    BY TargetIsPeer DEF TcpInv, TcpTypes
  <1>2. /\ Tail(sender[t].todo) \in Seq(Peers) /\ OnceIn(Tail(sender[t].todo))
        /\ ToSet(Tail(sender[t].todo)) \subseteq ToSet(sender[t].todo) \ {Target(t)}
    BY <1>1, TailSet DEF Leg, Target
  <1>3. \A u \in Tasks \ {t} : sender'[u] = sender[u]
    BY <1>1 DEF NextLeg
  <1>4. CASE Len(sender[t].todo) = 1
    <2>1. sender' = [sender EXCEPT ![t] = Idle]
      BY <1>1, <1>4 DEF NextLeg
    <2> QED
      BY <1>1, <1>3, <2>1, IdleSender
  <1>5. CASE Len(sender[t].todo) # 1
    <2> DEFINE next == [sender[t] EXCEPT !.at = "lookup", !.todo = Tail(sender[t].todo),
                                    !.via = 0]
    <2>1. sender' = [sender EXCEPT ![t] = next]
      BY <1>1, <1>5 DEF NextLeg
    <2>2. /\ next \in SenderType /\ next.at = "lookup" /\ next.msg = sender[t].msg
          /\ next.todo = Tail(sender[t].todo)
      BY <1>1, <1>2 DEF SenderType
    <2> HIDE DEF next
    <2>3. sender'[t] = next /\ sender' \in [Tasks -> SenderType]
      BY <1>1, <2>1, <2>2
    <2>4. Tail(sender[t].todo) # <<>>
      <3>1. sender[t].todo # <<>> /\ Len(sender[t].todo) \in Nat
        BY <1>1, LenProperties DEF Leg
      <3>2. Len(Tail(sender[t].todo)) = Len(sender[t].todo) - 1
        BY <1>1, <3>1, HeadTailProperties
      <3>3. Len(Tail(sender[t].todo)) # 0
        BY <1>5, <3>1, <3>2
      <3>4. Len(<<>>) = 0
        BY EmptySeq
      <3> QED
        BY <3>3, <3>4
    <2> QED
      BY <1>2, <1>3, <2>2, <2>3, <2>4
  <1> QED
    BY <1>4, <1>5

(* What a step that leaves the task its message or takes it on to the next *)
(* peer keeps of Sending.                                                  *)
LEMMA SendingStays ==
    ASSUME TcpInv, NEW t \in Tasks, sender[t].at # "idle",
           \A u \in Tasks \ {t} : sender'[u] = sender[u],
           sender'[t].msg = sender[t].msg, sender'[t].todo = sender[t].todo,
           UNCHANGED <<nmsgs, accepted>>
    PROVE  Sending'
  <1> USE DEF TcpInv
  <1>1. \A u \in Tasks : sender'[u].at # "idle" => Leg(u)'
    <2> SUFFICES ASSUME NEW u \in Tasks, sender'[u].at # "idle" PROVE Leg(u)'
      OBVIOUS
    <2>1. Leg(u) /\ sender'[u].msg = sender[u].msg /\ sender'[u].todo = sender[u].todo
      BY DEF Sending
    <2> QED
      BY <2>1 DEF Leg
  <1> QED
    BY <1>1 DEF Sending

LEMMA SendingGoesOn ==
    ASSUME TcpInv, NEW t \in Tasks, sender[t].at # "idle", sender' = NextLeg(t),
           UNCHANGED nmsgs,
           \A p \in Peers : \/ accepted'[p] = accepted[p]
                            \/ /\ p = Target(t)
                               /\ accepted'[p] = accepted[p] \cup {sender[t].msg}
    PROVE  Sending'
  <1> USE DEF TcpInv
  <1>1. Leg(t) /\ Target(t) \in Peers
    BY TargetIsPeer
  <1>2. \A u \in Tasks : ToSet(sender[u].todo) \subseteq Peers
    BY ElementOfSeq, LenProperties DEF ToSet, TcpTypes, SenderType
  <1>3. \A u \in Tasks : sender'[u].at # "idle" => Leg(u)'
    <2> SUFFICES ASSUME NEW u \in Tasks, sender'[u].at # "idle" PROVE Leg(u)'
      OBVIOUS
    <2>1. CASE u = t
      <3>1. /\ sender'[u].msg = sender[t].msg /\ sender'[u].todo # <<>>
            /\ OnceIn(sender'[u].todo)
            /\ ToSet(sender'[u].todo) \subseteq ToSet(sender[t].todo) \ {Target(t)}
        BY <2>1, NextLegs
      <3> QED
        BY <1>1, <1>2, <3>1 DEF Leg
    <2>2. CASE u # t
      <3>1. sender'[u] = sender[u]
        BY <2>2, NextLegs
      <3>2. Leg(u) /\ sender[u].msg # sender[t].msg
        BY <2>2, <3>1 DEF Sending
      <3> QED
        BY <1>2, <3>1, <3>2 DEF Leg
    <2> QED
      BY <2>1, <2>2
  <1>4. \A u, v \in Tasks :
          (u # v /\ sender'[u].at # "idle" /\ sender'[v].at # "idle")
            => sender'[u].msg # sender'[v].msg
    <2>1. /\ sender'[t].at # "idle" => sender'[t].msg = sender[t].msg
          /\ \A u \in Tasks \ {t} : sender'[u] = sender[u]
      BY NextLegs
    <2> QED
      BY <2>1 DEF Sending
  <1>5. \A p \in Peers : accepted'[p] \subseteq 1..nmsgs'
    BY <1>1 DEF Sending, Leg
  <1> QED
    BY <1>3, <1>4, <1>5 DEF Sending

LEMMA WiredStays ==
    ASSUME TcpInv, DOMAIN conns \subseteq DOMAIN conns',
           \A c \in DOMAIN conns : conns'[c].peer = conns[c].peer,
           \A p \in Peers : outbound'[p] \in {outbound[p], 0},
           \A u \in Tasks : sender'[u].at = "send" => sender'[u] = sender[u]
    PROVE  Wired'
  BY DEF TcpInv, Wired, Leads, Target

LEMMA ConnTyped ==
    ASSUME TcpTypes, NEW c \in DOMAIN conns
    PROVE  conns[c] \in ConnType /\ conns[c].peer \in Peers
  <1>1. conns[c] \in ConnType
    BY ElementOfSeq, LenProperties DEF TcpTypes
  <1> QED
    BY <1>1 DEF ConnType

(* A connection is changed in place. *)
LEMMA ConnSet ==
    ASSUME TcpTypes, NEW c \in DOMAIN conns, NEW k \in ConnType,
           conns' = [conns EXCEPT ![c] = k]
    PROVE  /\ conns' \in Seq(ConnType) /\ DOMAIN conns' = DOMAIN conns
           /\ conns'[c] = k /\ \A d \in DOMAIN conns \ {c} : conns'[d] = conns[d]
  <1>1. DOMAIN conns = 1..Len(conns)
    BY LenProperties DEF TcpTypes
  <1> QED
    BY <1>1, ExceptSeq DEF TcpTypes

(* ... and carries nothing new. *)
LEMMA FlightShrinks ==
    ASSUME TcpInv, NEW c \in DOMAIN conns, NEW k \in ConnType,
           conns' = [conns EXCEPT ![c] = k], k.peer = conns[c].peer, Whole(k),
           Carried(k) \subseteq Carried(conns[c]),
           UNCHANGED <<inbox, accepted, received>>
    PROVE  Flight'
  <1>1. /\ DOMAIN conns' = DOMAIN conns /\ conns'[c] = k
        /\ \A d \in DOMAIN conns \ {c} : conns'[d] = conns[d]
    BY ConnSet DEF TcpInv
  <1>2. \A d \in DOMAIN conns :
          /\ conns'[d].peer = conns[d].peer /\ Whole(conns'[d])
          /\ Carried(conns'[d]) \subseteq Carried(conns[d])
    BY <1>1 DEF TcpInv, Flight, ConnsSound, ConnsApart, PeersSound
  <1>3. \A d \in DOMAIN conns' :
          /\ Whole(conns'[d]) /\ conns'[d].peer = conns[d].peer
          /\ Carried(conns'[d]) \subseteq accepted[conns[d].peer] \ Arrived(conns[d].peer)
    BY <1>1, <1>2 DEF TcpInv, Flight, ConnsSound, ConnsApart, PeersSound
  <1>4. \A d, e \in DOMAIN conns' :
          (d # e /\ conns'[d].peer = conns'[e].peer)
            => Carried(conns'[d]) \cap Carried(conns'[e]) = {}
    BY <1>1, <1>2 DEF TcpInv, Flight, ConnsSound, ConnsApart, PeersSound
  <1> QED
    BY <1>3, <1>4 DEF TcpInv, Flight, ConnsSound, ConnsApart, PeersSound, Arrived

(* ensure_peer. *)
LEMMA EnsureSteps ==
    ASSUME TcpInv, NEW t \in Tasks, EnsureFound(t) \/ EnsureConnects(t)
    PROVE  TcpInv' /\ UNCHANGED <<accepted, received>>
  <1>1. /\ sender[t].at = "lookup" /\ sender[t] \in SenderType
        /\ sender \in [Tasks -> SenderType] /\ outbound \in [Peers -> Nat]
        /\ Target(t) \in Peers
    BY TargetIsPeer DEF EnsureFound, EnsureConnects, TcpInv, TcpTypes
  <1>2. /\ sender' \in [Tasks -> SenderType]
        /\ \A u \in Tasks \ {t} : sender'[u] = sender[u]
        /\ sender'[t].msg = sender[t].msg /\ sender'[t].todo = sender[t].todo
    <2>1. CASE EnsureFound(t)
      BY <1>1, <2>1 DEF EnsureFound, SenderType
    <2>2. CASE EnsureConnects(t)
      BY <1>1, <2>2 DEF EnsureConnects, SenderType
    <2> QED
      BY <2>1, <2>2
  <1>3. UNCHANGED <<outbound, conns, inbox, nmsgs, accepted, received>>
    BY DEF EnsureFound, EnsureConnects
  <1>4. TcpTypes'
    BY <1>2, <1>3 DEF TcpInv, TcpTypes
  <1>5. Sending'
    BY <1>1, <1>2, <1>3, SendingStays
  <1>6. Wired'
    <2>1. CASE EnsureFound(t)
      <3>1. sender'[t].via = outbound[Target(t)] /\ outbound[Target(t)] # 0
        BY <1>1, <2>1 DEF EnsureFound
      <3>2. Target(t)' = Target(t)
        BY <1>2 DEF Target
      <3>3. Leads(sender'[t].via, Target(t)')
        BY <1>1, <3>1, <3>2 DEF TcpInv, Wired
      <3> QED
        BY <1>2, <1>3, <3>2, <3>3 DEF TcpInv, Wired, Leads, Target
    <2>2. CASE EnsureConnects(t)
      <3>1. sender'[t].at = "connect"
        BY <1>1, <2>2 DEF EnsureConnects
      <3> QED
        BY <1>2, <1>3, <3>1, WiredStays
    <2> QED
      BY <2>1, <2>2
  <1>7. Flight'
    BY <1>3, FlightStays DEF TcpInv
  <1> QED
    BY <1>3, <1>4, <1>5, <1>6, <1>7 DEF TcpInv

(* A send that comes to nothing. *)
LEMMA GivesUp ==
    ASSUME TcpInv, NEW t \in Tasks, ConnectFails(t) \/ EnqueueClosed(t)
    PROVE  TcpInv' /\ UNCHANGED <<accepted, received>>
  <1>1. /\ sender[t].at # "idle" /\ sender' = NextLeg(t) /\ Target(t) \in Peers
        /\ UNCHANGED <<conns, inbox, nmsgs, accepted, received>>
    BY TargetIsPeer DEF ConnectFails, EnqueueClosed
  <1>2. outbound' \in [Peers -> Nat] /\ \A p \in Peers : outbound'[p] \in {outbound[p], 0}
    <2>1. outbound \in [Peers -> Nat]
      BY DEF TcpInv, TcpTypes
    <2>2. outbound' = outbound \/ outbound' = [outbound EXCEPT ![Target(t)] = 0]
      BY DEF ConnectFails, EnqueueClosed
    <2> QED
      BY <2>1, <2>2
  <1>3. /\ sender' \in [Tasks -> SenderType]
        /\ \A u \in Tasks : sender'[u].at = "send" => sender'[u] = sender[u]
    BY <1>1, NextLegs
  <1>4. TcpTypes'
    BY <1>1, <1>2, <1>3 DEF TcpInv, TcpTypes
  <1>5. Wired'
    BY <1>1, <1>2, <1>3, WiredStays
  <1>6. Sending'
    BY <1>1, SendingGoesOn
  <1>7. Flight'
    BY <1>1, FlightStays DEF TcpInv
  <1> QED
    BY <1>1, <1>4, <1>5, <1>6, <1>7 DEF TcpInv

(* A new connection carries nothing; an entry made meanwhile is kept.      *)
LEMMA Connects ==
    ASSUME TcpInv, NEW t \in Tasks, Connected(t)
    PROVE  TcpInv' /\ UNCHANGED <<accepted, received>>
  <1> DEFINE p == Target(t)
             c == Len(conns) + 1
             via == IF outbound[p] = 0 THEN c ELSE outbound[p]
             k == [peer |-> p, queue |-> <<>>, sock |-> <<>>, writer |-> "up", link |-> "up"]
  <1>1. /\ sender[t].at = "connect" /\ sender[t] \in SenderType /\ p \in Peers
        /\ sender \in [Tasks -> SenderType] /\ outbound \in [Peers -> Nat]
    BY TargetIsPeer DEF Connected, TcpInv, TcpTypes
  <1>2. /\ conns' = Append(conns, k) /\ outbound' = [outbound EXCEPT ![p] = via]
        /\ sender' = [sender EXCEPT ![t].at = "send", ![t].via = via]
        /\ UNCHANGED <<inbox, nmsgs, accepted, received>>
    BY DEF Connected
  <1>3. k \in ConnType /\ k.peer = p /\ Whole(k) /\ Carried(k) = {}
    <2>1. k \in ConnType
      BY <1>1, EmptySeq DEF ConnType
    <2> QED
      BY <2>1, EmptySet DEF Whole, Carried
  <1> HIDE DEF k
  <1>4. /\ conns' \in Seq(ConnType) /\ DOMAIN conns = 1..Len(conns) /\ Len(conns) \in Nat
        /\ DOMAIN conns' = 1..(Len(conns) + 1)
        /\ conns'[c] = k /\ \A d \in DOMAIN conns : conns'[d] = conns[d]
    BY <1>2, <1>3, AppendProperties, LenProperties DEF TcpInv, TcpTypes
  <1>5. c \in Nat /\ c \notin DOMAIN conns /\ DOMAIN conns' = DOMAIN conns \cup {c}
    BY <1>4
  <1>6. via \in DOMAIN conns' /\ conns'[via].peer = p /\ via \in Nat
    <2>1. CASE outbound[p] = 0
      BY <1>3, <1>4, <1>5, <2>1
    <2>2. CASE outbound[p] # 0
      <3>1. Leads(outbound[p], p) /\ outbound[p] \in Nat
        BY <1>1, <2>2 DEF TcpInv, Wired
      <3> QED
        BY <1>4, <1>5, <2>2, <3>1 DEF Leads
    <2> QED
      BY <2>1, <2>2
  <1> HIDE DEF via, c
  <1>7. /\ sender' \in [Tasks -> SenderType]
        /\ \A u \in Tasks \ {t} : sender'[u] = sender[u]
        /\ sender'[t].msg = sender[t].msg /\ sender'[t].todo = sender[t].todo
        /\ sender'[t].via = via
    BY <1>1, <1>2, <1>6 DEF SenderType
  <1>8. TcpTypes'
    BY <1>1, <1>2, <1>4, <1>6, <1>7 DEF TcpInv, TcpTypes
  <1>9. Sending'
    BY <1>1, <1>2, <1>7, SendingStays
  <1>10. Wired'
    <2>1. \A d, q : Leads(d, q) => d \in DOMAIN conns' /\ conns'[d].peer = q
      BY <1>4, <1>5 DEF Leads
    <2>2. \A u \in Tasks \ {t} : sender'[u].at = "send" => Leads(sender[u].via, Target(u))
      BY <1>7 DEF TcpInv, Wired
    <2>3. Target(t)' = p /\ \A u \in Tasks \ {t} : Target(u)' = Target(u)
      BY <1>7 DEF Target
    <2>4. ASSUME NEW u \in Tasks, sender'[u].at = "send"
          PROVE  Leads(sender[u].via, Target(u))'
      BY <1>6, <1>7, <2>1, <2>2, <2>3, <2>4 DEF Leads
    <2>5. ASSUME NEW q \in Peers, outbound'[q] # 0 PROVE Leads(outbound[q], q)'
      <3>1. CASE q = p
        <4>1. outbound'[q] = via
          BY <1>1, <1>2, <3>1
        <4> QED
          BY <1>6, <3>1, <4>1 DEF Leads
      <3>2. CASE q # p
        <4>1. outbound'[q] = outbound[q]
          BY <1>1, <1>2, <3>2
        <4> QED
          BY <2>1, <2>5, <4>1 DEF TcpInv, Wired, Leads
      <3> QED
        BY <3>1, <3>2
    <2> QED
      BY <2>4, <2>5 DEF Wired
  <1>11. Flight'
    <2>1. \A d \in DOMAIN conns' :
            /\ Whole(conns'[d])
            /\ Carried(conns'[d])
                 \subseteq accepted[conns'[d].peer] \ Arrived(conns'[d].peer)
      BY <1>3, <1>4, <1>5 DEF TcpInv, Flight, ConnsSound, ConnsApart, PeersSound
    <2>2. \A d, e \in DOMAIN conns' :
            (d # e /\ conns'[d].peer = conns'[e].peer)
              => Carried(conns'[d]) \cap Carried(conns'[e]) = {}
      BY <1>3, <1>4, <1>5 DEF TcpInv, Flight, ConnsSound, ConnsApart, PeersSound
    <2> QED
      BY <1>2, <2>1, <2>2 DEF TcpInv, Flight, ConnsSound, ConnsApart, PeersSound, Arrived
  <1> QED
    BY <1>2, <1>8, <1>9, <1>10, <1>11 DEF TcpInv

(* The message is accepted for its target for the first time, so that no   *)
(* connection carries it yet and the peer has not got it.                  *)
LEMMA Enqueues ==
    ASSUME TcpInv, NEW t \in Tasks, Enqueue(t)
    PROVE  TcpInv' /\ Link!LinkSend(Target(t), sender[t].msg)
  <1> DEFINE c == sender[t].via
             m == sender[t].msg
             p == Target(t)
             k == [conns[c] EXCEPT !.queue = Append(conns[c].queue,
                                                    [id |-> m, big |-> sender[t].big])]
  <1>1. /\ sender[t].at = "send" /\ p \in Peers /\ m \in Messages /\ m \notin accepted[p]
        /\ accepted \in [Peers -> SUBSET Messages] /\ sender[t] \in SenderType
    BY TargetIsPeer DEF Enqueue, TcpInv, TcpTypes
  <1>2. c \in DOMAIN conns /\ conns[c].peer = p /\ conns[c] \in ConnType
    BY <1>1, ConnTyped DEF TcpInv, Wired, Leads
  <1>3. /\ conns' = [conns EXCEPT ![c] = k]
        /\ accepted' = [accepted EXCEPT ![p] = accepted[p] \cup {m}]
        /\ sender' = NextLeg(t) /\ UNCHANGED <<outbound, inbox, nmsgs, received>>
    BY <1>1, <1>2 DEF Enqueue
  <1>4. m \notin Carried(conns[c]) /\ Whole(conns[c])
    BY <1>1, <1>2 DEF TcpInv, Flight, ConnsSound, ConnsApart, PeersSound
  <1>5. k \in ConnType /\ k.peer = p /\ Whole(k) /\ Carried(k) = Carried(conns[c]) \cup {m}
    <2> DEFINE x == [id |-> m, big |-> sender[t].big]
    <2>1. x \in Queued /\ x.id = m
      BY <1>1 DEF Queued, SenderType
    <2> HIDE DEF x
    <2>2. /\ conns[c].queue \in Seq(Queued)
          /\ k = [conns[c] EXCEPT !.queue = Append(conns[c].queue, x)]
      BY <1>2 DEF ConnType, x
    <2>3. /\ Append(conns[c].queue, x) \in Seq(Queued)
          /\ Ids(Append(conns[c].queue, x)) = Ids(conns[c].queue) \cup {m}
          /\ (OnceIds(conns[c].queue) /\ m \notin Ids(conns[c].queue))
               => OnceIds(Append(conns[c].queue, x))
      BY <2>1, <2>2, AppendIds
    <2> HIDE DEF k
    <2>4. /\ k \in ConnType /\ k.peer = p /\ k.sock = conns[c].sock
          /\ k.queue = Append(conns[c].queue, x)
      BY <1>2, <2>2, <2>3 DEF ConnType
    <2> QED
      BY <1>4, <2>3, <2>4 DEF Whole, Carried
  <1> HIDE DEF k
  <1>6. /\ conns' \in Seq(ConnType) /\ DOMAIN conns' = DOMAIN conns
        /\ conns'[c] = k /\ \A d \in DOMAIN conns \ {c} : conns'[d] = conns[d]
    BY <1>2, <1>3, <1>5, ConnSet DEF TcpInv
  <1>7. /\ sender' \in [Tasks -> SenderType]
        /\ \A u \in Tasks : sender'[u].at = "send" => sender'[u] = sender[u]
    BY <1>1, <1>3, NextLegs
  <1>8. \A q \in Peers : accepted'[q] = IF q = p THEN accepted[p] \cup {m} ELSE accepted[q]
    BY <1>1, <1>3
  <1>9. TcpTypes'
    BY <1>1, <1>3, <1>6, <1>7 DEF TcpInv, TcpTypes
  <1>10. Wired'
    BY <1>2, <1>3, <1>5, <1>6, <1>7, WiredStays DEF TcpInv, TcpTypes
  <1>11. Sending'
    BY <1>1, <1>3, <1>8, SendingGoesOn
  <1>12. Flight'
    <2>1. \A d \in DOMAIN conns : conns[d].peer \in Peers
      BY ConnTyped DEF TcpInv
    <2>2. m \notin Arrived(p)
      BY <1>1 DEF TcpInv, Flight, ConnsSound, ConnsApart, PeersSound, Arrived
    <2>3. \A d \in DOMAIN conns' :
            /\ Whole(conns'[d])
            /\ Carried(conns'[d])
                 \subseteq accepted'[conns'[d].peer] \ Arrived(conns'[d].peer)
      BY <1>2, <1>5, <1>6, <1>8, <2>1, <2>2 DEF TcpInv, Flight, ConnsSound, ConnsApart, PeersSound
    <2>4. \A d, e \in DOMAIN conns' :
            (d # e /\ conns'[d].peer = conns'[e].peer)
              => Carried(conns'[d]) \cap Carried(conns'[e]) = {}
      BY <1>1, <1>2, <1>5, <1>6 DEF TcpInv, Flight, ConnsSound, ConnsApart, PeersSound
    <2>5. \A q \in Peers : accepted[q] \subseteq accepted'[q]
      BY <1>8
    <2>6. \A q \in Peers :
            /\ OnceIn(inbox[q]) /\ ToSet(inbox[q]) \subseteq accepted'[q] \ ToSet(received[q])
            /\ ToSet(received[q]) \subseteq accepted'[q]
      BY <2>5 DEF TcpInv, Flight, ConnsSound, ConnsApart, PeersSound
    <2>7. ConnsSound'
      BY <1>3, <2>3 DEF ConnsSound, Arrived
    <2>8. ConnsApart' /\ PeersSound'
      BY <1>3, <2>4, <2>6 DEF ConnsApart, PeersSound
    <2> QED
      BY <2>7, <2>8 DEF Flight
  <1>13. Link!LinkSend(p, m)
    BY <1>1, <1>3 DEF Link!LinkSend
  <1> QED
    BY <1>9, <1>10, <1>11, <1>12, <1>13 DEF TcpInv

-----------------------------------------------------------------------------
(* The writers. *)

(* A connection that is changed in place and goes on to the same peer,     *)
(* while entries of the map are at most removed.                           *)
LEMMA WriterChanges ==
    ASSUME TcpInv, NEW c \in DOMAIN conns, NEW k \in ConnType,
           conns' = [conns EXCEPT ![c] = k], k.peer = conns[c].peer, Whole(k),
           Carried(k) \subseteq Carried(conns[c]),
           outbound' \in [Peers -> Nat],
           \A p \in Peers : outbound'[p] \in {outbound[p], 0},
           UNCHANGED <<sender, inbox, nmsgs, accepted, received>>
    PROVE  TcpInv'
  <1>1. /\ conns' \in Seq(ConnType) /\ DOMAIN conns' = DOMAIN conns
        /\ \A d \in DOMAIN conns : conns'[d].peer = conns[d].peer
    BY ConnSet DEF TcpInv
  <1>2. TcpTypes'
    BY <1>1 DEF TcpInv, TcpTypes
  <1>3. Wired'
    BY <1>1, WiredStays
  <1>4. Sending'
    BY DEF TcpInv, Sending, Leg
  <1>5. Flight'
    BY FlightShrinks
  <1> QED
    BY <1>2, <1>3, <1>4, <1>5 DEF TcpInv

LEMMA WriterSteps ==
    ASSUME TcpInv, NEW c \in DOMAIN conns, WriterStep(c)
    PROVE  TcpInv' /\ UNCHANGED <<accepted, received>>
  <1>1. /\ conns[c] \in ConnType /\ conns[c].peer \in Peers /\ Whole(conns[c])
        /\ outbound \in [Peers -> Nat]
    BY ConnTyped DEF TcpInv, TcpTypes, Flight, ConnsSound, ConnsApart, PeersSound
  <1>2. conns[c].queue \in Seq(Queued) /\ conns[c].sock \in Seq(Messages)
    BY <1>1 DEF ConnType
  <1>3. CASE DropBig(c) \/ WriteFrame(c)
    <2> DEFINE head == Head(conns[c].queue)
               sock == IF head.big THEN conns[c].sock ELSE Append(conns[c].sock, head.id)
               k == [conns[c] EXCEPT !.queue = Tail(conns[c].queue), !.sock = sock]
    <2>1. /\ conns[c].queue # <<>> /\ conns' = [conns EXCEPT ![c] = k]
          /\ UNCHANGED <<outbound, sender, inbox, nmsgs, accepted, received>>
      <3>1. CASE DropBig(c)
        BY <1>1, <3>1 DEF DropBig, NextIsBig, ConnType
      <3>2. CASE WriteFrame(c)
        BY <1>1, <3>2 DEF WriteFrame, NextIsBig, ConnType
      <3> QED
        BY <1>3, <3>1, <3>2
    <2>2. /\ head \in Queued /\ Tail(conns[c].queue) \in Seq(Queued)
          /\ Ids(Tail(conns[c].queue)) \subseteq Ids(conns[c].queue)
          /\ head.id \in Ids(conns[c].queue) /\ head.id \notin Ids(Tail(conns[c].queue))
          /\ OnceIds(Tail(conns[c].queue))
      BY <1>1, <1>2, <2>1, TailIds DEF Whole
    <2>3. head.id \in Messages /\ head.id \notin ToSet(conns[c].sock)
      BY <1>1, <2>2 DEF Queued, Whole
    <2>4. /\ sock \in Seq(Messages) /\ OnceIn(sock)
          /\ ToSet(sock) \subseteq ToSet(conns[c].sock) \cup {head.id}
      BY <1>1, <1>2, <2>3, AppendSet DEF Whole
    <2> HIDE DEF sock, head
    <2>5. /\ k \in ConnType /\ k.peer = conns[c].peer /\ k.sock = sock
          /\ k.queue = Tail(conns[c].queue)
      BY <1>1, <2>2, <2>4 DEF ConnType
    <2> HIDE DEF k
    <2>6. Whole(k) /\ Carried(k) \subseteq Carried(conns[c])
      BY <1>1, <2>2, <2>4, <2>5 DEF Whole, Carried
    <2>7. outbound' \in [Peers -> Nat] /\ \A p \in Peers : outbound'[p] \in {outbound[p], 0}
      BY <1>1, <2>1
    <2>8. TcpInv'
      BY <2>1, <2>5, <2>6, <2>7, WriterChanges
    <2> QED
      BY <2>1, <2>8
  <1>4. CASE WriterStops(c)
    <2> DEFINE k == [conns[c] EXCEPT !.writer = "ending"]
    <2>1. /\ conns' = [conns EXCEPT ![c] = k]
          /\ outbound' = [outbound EXCEPT ![conns[c].peer] = 0]
          /\ UNCHANGED <<sender, inbox, nmsgs, accepted, received>>
      BY <1>4 DEF WriterStops
    <2>2. /\ k \in ConnType /\ k.peer = conns[c].peer /\ k.sock = conns[c].sock
          /\ k.queue = conns[c].queue
      BY <1>1 DEF ConnType
    <2> HIDE DEF k
    <2>3. Whole(k) /\ Carried(k) \subseteq Carried(conns[c])
      BY <1>1, <2>2 DEF Whole, Carried
    <2>4. outbound' \in [Peers -> Nat] /\ \A p \in Peers : outbound'[p] \in {outbound[p], 0}
      BY <1>1, <2>1
    <2>5. TcpInv'
      BY <2>1, <2>2, <2>3, <2>4, WriterChanges
    <2> QED
      BY <2>1, <2>5
  <1>5. CASE WriterGone(c)
    <2> DEFINE k == [conns[c] EXCEPT !.writer = "down", !.queue = <<>>]
    <2>1. /\ conns' = [conns EXCEPT ![c] = k]
          /\ UNCHANGED <<outbound, sender, inbox, nmsgs, accepted, received>>
      BY <1>5 DEF WriterGone
    <2>2. /\ k \in ConnType /\ k.peer = conns[c].peer /\ k.sock = conns[c].sock
          /\ k.queue = <<>>
      BY <1>1, EmptySeq DEF ConnType
    <2> HIDE DEF k
    <2>3. Whole(k) /\ Carried(k) \subseteq Carried(conns[c])
      BY <1>1, <2>2, EmptySet DEF Whole, Carried
    <2>4. outbound' \in [Peers -> Nat] /\ \A p \in Peers : outbound'[p] \in {outbound[p], 0}
      BY <1>1, <2>1
    <2>5. TcpInv'
      BY <2>1, <2>2, <2>3, <2>4, WriterChanges
    <2> QED
      BY <2>1, <2>5
  <1> QED
    BY <1>3, <1>4, <1>5 DEF WriterStep

-----------------------------------------------------------------------------
(* The peers. *)

(* A frame leaves the socket for the inbound queue. *)
LEMMA Reads ==
    ASSUME TcpInv, NEW c \in DOMAIN conns, ReadInbound(c)
    PROVE  TcpInv' /\ UNCHANGED <<accepted, received>>
  <1> DEFINE p == conns[c].peer
             m == Head(conns[c].sock)
             k == [conns[c] EXCEPT !.sock = Tail(conns[c].sock)]
  <1>1. /\ conns[c] \in ConnType /\ p \in Peers /\ Whole(conns[c])
        /\ Carried(conns[c]) \subseteq accepted[p] \ Arrived(p)
        /\ inbox \in [Peers -> Seq(Messages)] /\ outbound \in [Peers -> Nat]
    BY ConnTyped DEF TcpInv, TcpTypes, Flight, ConnsSound, ConnsApart, PeersSound
  <1>2. /\ conns[c].sock # <<>> /\ conns' = [conns EXCEPT ![c] = k]
        /\ inbox' = [inbox EXCEPT ![p] = Append(inbox[p], m)]
        /\ UNCHANGED <<outbound, sender, nmsgs, accepted, received>>
    BY <1>1 DEF ReadInbound
  <1>3. /\ Tail(conns[c].sock) \in Seq(Messages) /\ m \in Messages
        /\ ToSet(conns[c].sock) = ToSet(Tail(conns[c].sock)) \cup {m}
        /\ OnceIn(Tail(conns[c].sock)) /\ m \notin ToSet(Tail(conns[c].sock))
    BY <1>1, <1>2, TailSet DEF ConnType, Whole
  <1>4. /\ k \in ConnType /\ k.peer = p /\ k.sock = Tail(conns[c].sock)
        /\ k.queue = conns[c].queue
    BY <1>1, <1>3 DEF ConnType
  <1> HIDE DEF k, m
  <1>5. /\ Whole(k) /\ Carried(k) \subseteq Carried(conns[c]) \ {m}
        /\ m \in Carried(conns[c])
    BY <1>1, <1>3, <1>4 DEF Whole, Carried
  <1>6. /\ conns' \in Seq(ConnType) /\ DOMAIN conns' = DOMAIN conns
        /\ conns'[c] = k /\ \A d \in DOMAIN conns \ {c} : conns'[d] = conns[d]
    BY <1>2, <1>4, ConnSet DEF TcpInv
  <1>7. /\ inbox' \in [Peers -> Seq(Messages)]
        /\ \A q \in Peers \ {p} : inbox'[q] = inbox[q]
        /\ ToSet(inbox'[p]) = ToSet(inbox[p]) \cup {m} /\ OnceIn(inbox'[p])
    <2>1. m \notin ToSet(inbox[p]) /\ OnceIn(inbox[p]) /\ inbox[p] \in Seq(Messages)
      BY <1>1, <1>5 DEF TcpInv, Flight, ConnsSound, ConnsApart, PeersSound, Arrived
    <2>2. /\ Append(inbox[p], m) \in Seq(Messages) /\ OnceIn(Append(inbox[p], m))
          /\ ToSet(Append(inbox[p], m)) = ToSet(inbox[p]) \cup {m}
      BY <1>3, <2>1, AppendSet
    <2> QED
      BY <1>1, <1>2, <2>2
  <1>8. TcpTypes'
    BY <1>2, <1>6, <1>7 DEF TcpInv, TcpTypes
  <1>9. Wired'
    BY <1>2, <1>4, <1>6, WiredStays
  <1>10. Sending'
    BY <1>2 DEF TcpInv, Sending, Leg
  <1>11. Flight'
    <2>1. m \in accepted[p] /\ m \notin ToSet(received[p])
      BY <1>1, <1>5 DEF Arrived
    <2>2. \A d \in DOMAIN conns' :
            /\ Whole(conns'[d]) /\ conns'[d].peer = conns[d].peer
            /\ Carried(conns'[d]) \subseteq Carried(conns[d])
            /\ conns[d].peer = p => m \notin Carried(conns'[d])
      BY <1>4, <1>5, <1>6 DEF TcpInv, Flight, ConnsSound, ConnsApart, PeersSound
    <2>3. \A d \in DOMAIN conns' :
            Carried(conns'[d])
              \subseteq accepted[conns'[d].peer]
                          \ (ToSet(inbox'[conns'[d].peer]) \cup ToSet(received[conns'[d].peer]))
      <3> SUFFICES ASSUME NEW d \in DOMAIN conns'
                   PROVE  Carried(conns'[d])
                            \subseteq accepted[conns[d].peer]
                                        \ (ToSet(inbox'[conns[d].peer])
                                             \cup ToSet(received[conns[d].peer]))
        BY <2>2
      <3>1. conns[d].peer \in Peers
        BY <1>6, ConnTyped DEF TcpInv
      <3>2. Carried(conns[d]) \subseteq accepted[conns[d].peer] \ Arrived(conns[d].peer)
        BY <1>6 DEF TcpInv, Flight, ConnsSound, ConnsApart, PeersSound
      <3> QED
        BY <1>7, <2>2, <3>1, <3>2 DEF Arrived
    <2>4. \A d, e \in DOMAIN conns' :
            (d # e /\ conns'[d].peer = conns'[e].peer)
              => Carried(conns'[d]) \cap Carried(conns'[e]) = {}
      BY <1>6, <2>2 DEF TcpInv, Flight, ConnsSound, ConnsApart, PeersSound
    <2>5. \A q \in Peers :
            /\ OnceIn(inbox'[q]) /\ ToSet(inbox'[q]) \subseteq accepted[q] \ ToSet(received[q])
            /\ ToSet(received[q]) \subseteq accepted[q]
      BY <1>7, <2>1 DEF TcpInv, Flight, ConnsSound, ConnsApart, PeersSound
    <2>6. ConnsSound'
      BY <1>2, <2>2, <2>3 DEF ConnsSound, Arrived
    <2>7. ConnsApart' /\ PeersSound'
      BY <1>2, <2>4, <2>5 DEF ConnsApart, PeersSound
    <2> QED
      BY <2>6, <2>7 DEF Flight
  <1> QED
    BY <1>2, <1>8, <1>9, <1>10, <1>11 DEF TcpInv

(* receive: the application gets each message once. *)
LEMMA Receives ==
    ASSUME TcpInv, NEW p \in Peers, Receive(p)
    PROVE  TcpInv' /\ Link!LinkReceive(p, Head(inbox[p])) /\ Head(inbox[p]) \in Messages
  <1> DEFINE m == Head(inbox[p])
  <1>1. /\ inbox \in [Peers -> Seq(Messages)] /\ received \in [Peers -> Seq(Messages)]
        /\ inbox[p] # <<>> /\ inbox[p] \in Seq(Messages) /\ received[p] \in Seq(Messages)
    BY DEF Receive, TcpInv, TcpTypes
  <1>2. /\ received' = [received EXCEPT ![p] = Append(received[p], m)]
        /\ inbox' = [inbox EXCEPT ![p] = Tail(inbox[p])]
        /\ UNCHANGED <<outbound, conns, sender, nmsgs, accepted>>
    BY <1>1 DEF Receive
  <1>3. OnceIn(inbox[p]) /\ ToSet(inbox[p]) \subseteq accepted[p] \ ToSet(received[p])
    BY DEF TcpInv, Flight, PeersSound
  <1>4. /\ Tail(inbox[p]) \in Seq(Messages) /\ m \in Messages /\ OnceIn(Tail(inbox[p]))
        /\ ToSet(inbox[p]) = ToSet(Tail(inbox[p])) \cup {m}
        /\ m \notin ToSet(Tail(inbox[p]))
    BY <1>1, <1>3, TailSet
  <1> HIDE DEF m
  <1>5. /\ Append(received[p], m) \in Seq(Messages)
        /\ ToSet(Append(received[p], m)) = ToSet(received[p]) \cup {m}
    BY <1>1, <1>4, AppendSet
  <1>6. /\ inbox' \in [Peers -> Seq(Messages)] /\ received' \in [Peers -> Seq(Messages)]
        /\ inbox'[p] = Tail(inbox[p]) /\ received'[p] = Append(received[p], m)
        /\ \A q \in Peers \ {p} : inbox'[q] = inbox[q] /\ received'[q] = received[q]
    BY <1>1, <1>2, <1>4, <1>5
  <1>7. TcpTypes'
    BY <1>2, <1>6 DEF TcpInv, TcpTypes
  <1>8. Wired'
    BY <1>2, WiredStays
  <1>9. Sending'
    BY <1>2 DEF TcpInv, Sending, Leg
  <1>10. Flight'
    <2>1. \A q \in Peers :
            ToSet(inbox'[q]) \cup ToSet(received'[q]) = ToSet(inbox[q]) \cup ToSet(received[q])
      BY <1>4, <1>5, <1>6
    <2>2. \A c \in DOMAIN conns : conns[c].peer \in Peers
      BY ConnTyped DEF TcpInv
    <2>3. ConnsSound'
      BY <1>2, <2>1, <2>2 DEF TcpInv, Flight, ConnsSound, Arrived
    <2>4. ConnsApart'
      BY <1>2 DEF TcpInv, Flight, ConnsApart
    <2>5. PeersSound'
      <3> SUFFICES ASSUME NEW q \in Peers
                   PROVE  /\ OnceIn(inbox'[q])
                          /\ ToSet(inbox'[q]) \subseteq accepted[q] \ ToSet(received'[q])
                          /\ ToSet(received'[q]) \subseteq accepted[q]
        BY <1>2 DEF PeersSound
      <3>1. /\ OnceIn(inbox[q]) /\ ToSet(inbox[q]) \subseteq accepted[q] \ ToSet(received[q])
            /\ ToSet(received[q]) \subseteq accepted[q]
        BY DEF TcpInv, Flight, PeersSound
      <3>2. CASE q = p
        BY <1>4, <1>5, <1>6, <3>1, <3>2
      <3>3. CASE q # p
        BY <1>6, <3>1, <3>3
      <3> QED
        BY <3>2, <3>3
    <2> QED
      BY <2>3, <2>4, <2>5 DEF Flight
  <1>11. Link!LinkReceive(p, m)
    BY <1>2, <1>3, <1>4 DEF Link!LinkReceive, Link!ToSet, ToSet
  <1> QED
    BY <1>4, <1>7, <1>8, <1>9, <1>10, <1>11 DEF TcpInv, m

(* A restart empties the peer's sockets and its inbound queue. *)
LEMMA Restarts ==
    ASSUME TcpInv, NEW p \in Peers, Restart(p)
    PROVE  TcpInv' /\ UNCHANGED <<accepted, received>>
  <1> DEFINE after(c) == IF conns[c].peer = p
                         THEN [conns[c] EXCEPT !.link = "broken", !.sock = <<>>]
                         ELSE conns[c]
  <1>1. /\ inbox' = [inbox EXCEPT ![p] = <<>>] /\ inbox \in [Peers -> Seq(Messages)]
        /\ conns' = [c \in DOMAIN conns |-> after(c)] /\ conns \in Seq(ConnType)
        /\ UNCHANGED <<outbound, sender, nmsgs, accepted, received>>
    BY DEF Restart, TcpInv, TcpTypes
  <1>2. \A c \in DOMAIN conns :
          /\ after(c) \in ConnType /\ after(c).peer = conns[c].peer
          /\ Whole(after(c)) /\ Carried(after(c)) \subseteq Carried(conns[c])
    <2> SUFFICES ASSUME NEW c \in DOMAIN conns
                 PROVE  /\ after(c) \in ConnType /\ after(c).peer = conns[c].peer
                        /\ Whole(after(c)) /\ Carried(after(c)) \subseteq Carried(conns[c])
      OBVIOUS
    <2>1. conns[c] \in ConnType /\ Whole(conns[c])
      BY ConnTyped DEF TcpInv, Flight, ConnsSound
    <2>2. CASE conns[c].peer = p
      <3> DEFINE k == [conns[c] EXCEPT !.link = "broken", !.sock = <<>>]
      <3>1. /\ k \in ConnType /\ k.peer = conns[c].peer /\ k.sock = <<>>
            /\ k.queue = conns[c].queue
        BY <2>1, EmptySeq DEF ConnType
      <3>2. after(c) = k
        BY <2>2
      <3> HIDE DEF k, after
      <3>3. Whole(k) /\ Carried(k) \subseteq Carried(conns[c])
        BY <2>1, <3>1, EmptySet DEF Whole, Carried
      <3> QED
        BY <3>1, <3>2, <3>3
    <2>3. CASE conns[c].peer # p
      <3>1. after(c) = conns[c]
        BY <2>3
      <3> QED
        BY <2>1, <3>1
    <2> QED
      BY <2>2, <2>3
  <1> HIDE DEF after
  <1>3. DOMAIN conns' = DOMAIN conns /\ \A c \in DOMAIN conns : conns'[c] = after(c)
    BY <1>1
  <1>4. conns' \in Seq(ConnType)
    <2>1. DOMAIN conns = 1..Len(conns) /\ Len(conns) \in Nat
      BY <1>1, LenProperties
    <2> QED
      BY <1>1, <1>2, <2>1 DEF Seq
  <1>5. /\ inbox' \in [Peers -> Seq(Messages)] /\ inbox'[p] = <<>>
        /\ \A q \in Peers \ {p} : inbox'[q] = inbox[q]
    BY <1>1, EmptySeq
  <1>6. TcpTypes'
    BY <1>1, <1>4, <1>5 DEF TcpInv, TcpTypes
  <1>7. Wired'
    BY <1>1, <1>2, <1>3, WiredStays
  <1>8. Sending'
    BY <1>1 DEF TcpInv, Sending, Leg
  <1>9. Flight'
    <2>1. \A q \in Peers : ToSet(inbox'[q]) \subseteq ToSet(inbox[q]) /\ OnceIn(inbox'[q])
      <3>1. \A q \in Peers : OnceIn(inbox[q])
        BY DEF TcpInv, Flight, PeersSound
      <3> QED
        BY <1>5, <3>1, EmptySet
    <2>2. \A c \in DOMAIN conns : conns[c].peer \in Peers
      BY ConnTyped DEF TcpInv
    <2>3. \A c \in DOMAIN conns' :
            /\ Whole(conns'[c]) /\ conns'[c].peer = conns[c].peer
            /\ Carried(conns'[c]) \subseteq Carried(conns[c])
      BY <1>2, <1>3
    <2>4. \A c \in DOMAIN conns' :
            Carried(conns'[c]) \subseteq accepted[conns[c].peer]
              \ (ToSet(inbox'[conns[c].peer]) \cup ToSet(received[conns[c].peer]))
      BY <1>3, <2>1, <2>2, <2>3 DEF TcpInv, Flight, ConnsSound, Arrived
    <2>5. ConnsSound'
      BY <1>1, <2>3, <2>4 DEF ConnsSound, Arrived
    <2>6. ConnsApart'
      BY <1>3, <2>3 DEF TcpInv, Flight, ConnsApart
    <2>7. PeersSound'
      BY <1>1, <2>1 DEF TcpInv, Flight, PeersSound
    <2> QED
      BY <2>5, <2>6, <2>7 DEF Flight
  <1> QED
    BY <1>1, <1>6, <1>7, <1>8, <1>9 DEF TcpInv

-----------------------------------------------------------------------------
LEMMA InitTcp == TcpInit => TcpInv /\ Link!LinkInit
  <1> SUFFICES ASSUME TcpInit PROVE TcpInv /\ Link!LinkInit
    OBVIOUS
  <1>1. TcpTypes
    <2>1. <<>> \in Seq(ConnType) /\ <<>> \in Seq(Messages)
      BY EmptySeq
    <2> QED
      BY <2>1, IdleSender DEF TcpInit, TcpTypes
  <1>2. Wired /\ Sending
    BY IdleSender, MessagesAssumption DEF TcpInit, Wired, Sending
  <1>3. Flight
    <2>1. DOMAIN conns = {}
      BY DEF TcpInit
    <2> QED
      BY <2>1, EmptySet DEF TcpInit, Flight, ConnsSound, ConnsApart, PeersSound
  <1>4. Link!LinkInit
    BY DEF TcpInit, Link!LinkInit
  <1> QED
    BY <1>1, <1>2, <1>3, <1>4 DEF TcpInv

(* Accepting a message is the link's send, the application's receive its   *)
(* receive; every other step stutters.                                     *)
LEMMA NextTcp ==
    ASSUME TcpInv, [TcpNext]_tcpVars
    PROVE  TcpInv' /\ [Link!LinkNext]_<<accepted, received>>
  <1>1. CASE UNCHANGED tcpVars
    <2>1. TcpTypes' /\ Wired' /\ Sending'
      BY <1>1 DEF tcpVars, TcpInv, TcpTypes, Wired, Leads, Target, Sending, Leg
    <2>2. Flight'
      BY <1>1, FlightStays DEF tcpVars, TcpInv
    <2> QED
      BY <1>1, <2>1, <2>2 DEF tcpVars, TcpInv
  <1>2. ASSUME NEW t \in Tasks, NEW big \in BOOLEAN, Broadcast(t, big)
        PROVE  TcpInv' /\ UNCHANGED <<accepted, received>>
    BY <1>2, Starts, SeqOfPeers DEF Broadcast
  <1>3. ASSUME NEW t \in Tasks, NEW big \in BOOLEAN, NEW p \in Peers, SendTo(t, p, big)
        PROVE  TcpInv' /\ UNCHANGED <<accepted, received>>
    <2>1. <<p>> \in Seq(Peers) /\ OnceIn(<<p>>)
      BY DEF OnceIn
    <2> QED
      BY <1>3, <2>1, Starts DEF SendTo
  <1>4. ASSUME NEW t \in Tasks, TaskStep(t)
        PROVE  TcpInv' /\ [Link!LinkNext]_<<accepted, received>>
    <2>1. CASE Enqueue(t)
      <3>1. Target(t) \in Peers /\ sender[t].msg \in Messages
        BY <2>1, TargetIsPeer DEF Enqueue
      <3> QED
        BY <2>1, <3>1, Enqueues DEF Link!LinkNext
    <2> QED
      BY <1>4, <2>1, EnsureSteps, GivesUp, Connects DEF TaskStep
  <1>5. ASSUME NEW c \in DOMAIN conns, WriterStep(c) \/ ReadInbound(c)
        PROVE  TcpInv' /\ UNCHANGED <<accepted, received>>
    BY <1>5, WriterSteps, Reads
  <1>6. ASSUME NEW p \in Peers, Receive(p) \/ Restart(p)
        PROVE  TcpInv' /\ [Link!LinkNext]_<<accepted, received>>
    <2>1. CASE Receive(p)
      BY <2>1, Receives DEF Link!LinkNext
    <2>2. CASE Restart(p)
      BY <2>2, Restarts
    <2> QED
      BY <1>6, <2>1, <2>2
  <1>7. CASE TcpNext
    BY <1>2, <1>3, <1>4, <1>5, <1>6, <1>7 DEF TcpNext
  <1> QED
    BY <1>1, <1>7

(* Through reconnects, evictions from the map, races of two tasks for it   *)
(* and restarts of a peer, what a peer's receive returns was accepted for  *)
(* it, and no message is returned twice.                                   *)
THEOREM TransportIsLink == TcpSpec => ImplementsLink
  <1>1. TcpInit => TcpInv /\ Link!LinkInit
    BY InitTcp
  <1>2. TcpInv /\ [TcpNext]_tcpVars => TcpInv' /\ [Link!LinkNext]_<<accepted, received>>
    BY NextTcp
  <1> QED
    BY <1>1, <1>2, PTL DEF TcpSpec, ImplementsLink, Link!LinkSpec

-----------------------------------------------------------------------------
(* The accept loops and the shutdown: their inductive invariant. *)

LoopPlaces == {"bind", "loop", "backoff", "drain", "abort", "done", "failed"}
TaskPlaces == Live \cup {"none", "finished", "aborted"}

ConnTypes ==
  /\ acc \in [Connectors -> LoopPlaces]
  /\ joinset \in [Connectors -> SUBSET Conns]
  /\ task \in [Conns -> TaskPlaces]

\* A task that still runs is in the set of a loop, unless its loop failed, which
\* has aborted it.
Awaited(c) == \E k \in Connectors : c \in joinset[k]
TasksOwned ==
  \A c \in Conns : task[c] \in Live =>
    \/ Awaited(c)
    \/ task[c] = "cancelling" /\ \E k \in Connectors : acc[k] = "failed"

\* A loop has no task before it begins and after it has ended.
EmptyAtEnds == \A k \in Connectors : acc[k] \in Ended \cup {"bind"} => joinset[k] = {}

\* The main task went on because every loop had ended.
DrainedAll ==
  how = "drained" => main \notin {"up", "drain"} /\ \A k \in Connectors : acc[k] \in Ended

ConnectorInv == ConnTypes /\ TasksOwned /\ EmptyAtEnds /\ DrainedAll

LEMMA ConnectorInitial == ConnInit => ConnectorInv
BY DEF ConnInit, ConnectorInv, ConnTypes, LoopPlaces, TaskPlaces, TasksOwned, Live, Running,
       EmptyAtEnds, Ended, DrainedAll

\* A step of one loop: it leaves the other loops and the main task alone, loses
\* no running task, and does not go on from its end.
LoopStep(k, place, set) ==
  /\ acc[k] \notin Ended /\ place \in LoopPlaces /\ set \in SUBSET Conns
  /\ acc' = [acc EXCEPT ![k] = place] /\ joinset' = [joinset EXCEPT ![k] = set]
  /\ task' \in [Conns -> TaskPlaces]
  /\ \A c \in Conns : task'[c] \in Live /\ c \notin set =>
       \/ task[c] \in Live /\ task'[c] = task[c] /\ c \notin joinset[k]
       \/ task'[c] = "cancelling" /\ place = "failed"
  /\ place \in Ended \cup {"bind"} => set = {}
  /\ UNCHANGED <<main, how>>

LEMMA LoopStepKept ==
  ASSUME ConnectorInv, NEW k \in Connectors, NEW place, NEW set, LoopStep(k, place, set)
  PROVE  ConnectorInv'
<1>1. ConnTypes'
  BY DEF LoopStep, ConnectorInv, ConnTypes
<1>2. acc'[k] = place /\ joinset'[k] = set
  BY DEF LoopStep, ConnectorInv, ConnTypes
<1>3. \A j \in Connectors : j # k => acc'[j] = acc[j] /\ joinset'[j] = joinset[j]
  BY DEF LoopStep, ConnectorInv, ConnTypes
<1>4. ASSUME NEW c \in Conns, task'[c] \in Live, ~\E j \in Connectors : c \in joinset'[j]
      PROVE  task'[c] = "cancelling" /\ \E j \in Connectors : acc'[j] = "failed"
  <2>1. c \notin set
    BY <1>2, <1>4
  <2>2. CASE task'[c] = "cancelling" /\ place = "failed"
    BY <1>2, <2>2
  <2>3. CASE task[c] \in Live /\ task'[c] = task[c] /\ c \notin joinset[k]
    <3>1. ~Awaited(c)
      BY <1>3, <1>4, <2>3 DEF Awaited
    <3>2. task[c] = "cancelling" /\ \E j \in Connectors : acc[j] = "failed"
      BY <2>3, <3>1 DEF ConnectorInv, TasksOwned
    <3>3. PICK j \in Connectors : acc[j] = "failed"
      BY <3>2
    <3>4. j # k
      BY <3>3 DEF LoopStep, Ended
    <3> QED BY <1>3, <2>3, <3>2, <3>3, <3>4
  <2> QED BY <1>4, <2>1, <2>2, <2>3 DEF LoopStep
<1>5. TasksOwned'
  BY <1>4 DEF TasksOwned, Awaited
<1>6. EmptyAtEnds'
  BY <1>2, <1>3 DEF LoopStep, ConnectorInv, EmptyAtEnds
<1>7. DrainedAll'
  BY DEF LoopStep, ConnectorInv, DrainedAll
<1> QED BY <1>1, <1>5, <1>6, <1>7 DEF ConnectorInv

\* A step of a connection's task, which the task takes unless it is aborted.
LEMMA TaskStepKept ==
  ASSUME ConnectorInv, NEW c \in Conns, NEW next \in TaskPlaces,
         task' = [task EXCEPT ![c] = next],
         next \in Live => task[c] \in Running,
         UNCHANGED <<acc, joinset, main, how>>
  PROVE  ConnectorInv'
<1>1. ConnTypes'
  BY DEF ConnectorInv, ConnTypes
<1>2. \A d \in Conns : d # c => task'[d] = task[d]
  BY DEF ConnectorInv, ConnTypes
<1>3. task'[c] = next
  BY DEF ConnectorInv, ConnTypes
<1>4. TasksOwned'
  <2> SUFFICES ASSUME NEW d \in Conns, task'[d] \in Live
               PROVE  Awaited(d) \/ (task'[d] = "cancelling" /\ \E k \in Connectors : acc[k] = "failed")
    BY DEF TasksOwned, Awaited
  <2>1. CASE d = c
    <3>1. task[c] \in Running
      BY <1>3, <2>1
    <3> QED BY <2>1, <3>1 DEF ConnectorInv, TasksOwned, Live, Running
  <2>2. CASE d # c
    BY <1>2, <2>2 DEF ConnectorInv, TasksOwned
  <2> QED BY <2>1, <2>2
<1> QED BY <1>1, <1>4 DEF ConnectorInv, EmptyAtEnds, DrainedAll

LEMMA ConnectorSteps == ConnectorInv /\ [ConnNext]_connVars => ConnectorInv'
<1> SUFFICES ASSUME ConnectorInv, [ConnNext]_connVars  PROVE ConnectorInv'
  OBVIOUS
<1>t. ConnTypes
  BY DEF ConnectorInv
<1>u. \A k \in Connectors : acc = [acc EXCEPT ![k] = acc[k]] /\ joinset = [joinset EXCEPT ![k] = joinset[k]]
  BY <1>t DEF ConnTypes
<1>v. \A k \in Connectors : acc[k] \in LoopPlaces /\ joinset[k] \in SUBSET Conns
  BY <1>t DEF ConnTypes
<1>1. ASSUME NEW k \in Connectors, Bind(k)  PROVE ConnectorInv'
  <2>1. PICK end \in {"done", "loop", "failed"} : acc' = [acc EXCEPT ![k] = end]
    BY <1>1 DEF Bind
  <2>2. acc[k] = "bind" /\ joinset[k] = {} /\ UNCHANGED <<joinset, task, main, how>>
    BY <1>1 DEF Bind, ConnectorInv, EmptyAtEnds
  <2>3. LoopStep(k, end, joinset[k])
    BY <1>t, <1>u, <1>v, <2>1, <2>2 DEF LoopStep, LoopPlaces, Ended, ConnTypes
  <2> QED BY <2>3, LoopStepKept
<1>2. ASSUME NEW k \in Connectors, Backoff(k) \/ SeeShutdown(k)  PROVE ConnectorInv'
  <2>1. PICK place \in {"loop", "done", "drain"} :
          acc' = [acc EXCEPT ![k] = place] /\ (place = "done" => joinset[k] = {})
    BY <1>2 DEF Backoff, SeeShutdown
  <2>2. acc[k] \in {"loop", "backoff"} /\ UNCHANGED <<joinset, task, main, how>>
    BY <1>2 DEF Backoff, SeeShutdown
  <2>3. LoopStep(k, place, joinset[k])
    BY <1>t, <1>u, <1>v, <2>1, <2>2 DEF LoopStep, LoopPlaces, Ended, ConnTypes
  <2> QED BY <2>3, LoopStepKept
<1>3. ASSUME NEW k \in Connectors, Reap(k) \/ DrainOne(k)  PROVE ConnectorInv'
  <2>1. PICK c \in joinset[k] : task[c] \notin Live /\ joinset' = [joinset EXCEPT ![k] = joinset[k] \ {c}]
          /\ acc' \in {acc, [acc EXCEPT ![k] = IF joinset[k] = {c} THEN "done" ELSE acc[k]]}
    BY <1>3 DEF Reap, DrainOne
  <2>2. acc[k] \in {"loop", "drain", "abort"} /\ UNCHANGED <<task, main, how>>
    BY <1>3 DEF Reap, DrainOne
  <2>3. PICK place \in {acc[k], "done"} :
          acc' = [acc EXCEPT ![k] = place] /\ (place = "done" => joinset[k] = {c})
    BY <1>u, <2>1, <2>2
  <2>4. LoopStep(k, place, joinset[k] \ {c})
    BY <1>t, <1>v, <2>1, <2>2, <2>3 DEF LoopStep, LoopPlaces, Ended, ConnTypes
  <2> QED BY <2>4, LoopStepKept
<1>4. ASSUME NEW k \in Connectors, DrainTimeout(k)  PROVE ConnectorInv'
  <2>1. /\ acc[k] = "drain" /\ acc' = [acc EXCEPT ![k] = "abort"] /\ task' = Cancelled(joinset[k])
        /\ UNCHANGED <<joinset, main, how>>
    BY <1>4 DEF DrainTimeout
  <2>2. task' \in [Conns -> TaskPlaces] /\ \A c \in Conns : c \notin joinset[k] => task'[c] = task[c]
    BY <1>t, <2>1 DEF Cancelled, ConnTypes, TaskPlaces, Live
  <2>3. LoopStep(k, "abort", joinset[k])
    BY <1>u, <1>v, <2>1, <2>2 DEF LoopStep, LoopPlaces, Ended
  <2> QED BY <2>3, LoopStepKept
<1>5. ASSUME NEW k \in Connectors, NEW c \in Conns, Accept(k, c)  PROVE ConnectorInv'
  <2>1. /\ acc[k] = "loop" /\ task[c] = "none" /\ task' = [task EXCEPT ![c] = "reading"]
        /\ joinset' = [joinset EXCEPT ![k] = joinset[k] \cup {c}] /\ UNCHANGED <<acc, main, how>>
    BY <1>5 DEF Accept
  <2>2. task' \in [Conns -> TaskPlaces] /\ \A d \in Conns : d # c => task'[d] = task[d]
    BY <1>t, <2>1 DEF ConnTypes, TaskPlaces, Live, Running
  <2>3. LoopStep(k, "loop", joinset[k] \cup {c})
    BY <1>u, <1>v, <2>1, <2>2 DEF LoopStep, LoopPlaces, Ended
  <2> QED BY <2>3, LoopStepKept
<1>6. ASSUME NEW k \in Connectors, NEW e, AcceptError(k, e)  PROVE ConnectorInv'
  <2>1. acc[k] = "loop" /\ UNCHANGED <<main, how>>
    BY <1>6 DEF AcceptError
  <2>2. CASE IsFatal(e)
    <3>1. /\ acc' = [acc EXCEPT ![k] = "failed"] /\ task' = Cancelled(joinset[k])
          /\ joinset' = [joinset EXCEPT ![k] = {}]
      BY <1>6, <2>2 DEF AcceptError
    <3>2. /\ task' \in [Conns -> TaskPlaces]
          /\ \A c \in Conns : IF c \in joinset[k] THEN task'[c] \in Live => task'[c] = "cancelling"
                              ELSE task'[c] = task[c]
      BY <1>t, <3>1 DEF Cancelled, ConnTypes, TaskPlaces, Live
    <3>3. LoopStep(k, "failed", {})
      BY <2>1, <3>1, <3>2 DEF LoopStep, LoopPlaces, Ended
    <3> QED BY <3>3, LoopStepKept
  <2>3. CASE ~IsFatal(e)
    <3>1. acc' = [acc EXCEPT ![k] = "backoff"] /\ UNCHANGED <<task, joinset>>
      BY <1>6, <2>3 DEF AcceptError
    <3>2. LoopStep(k, "backoff", joinset[k])
      BY <1>t, <1>u, <1>v, <2>1, <3>1 DEF LoopStep, LoopPlaces, Ended, ConnTypes
    <3> QED BY <3>2, LoopStepKept
  <2> QED BY <2>2, <2>3
<1>7. ASSUME NEW c \in Conns, ReadRequest(c) \/ Service(c) \/ WriteAnswer(c) \/ Cancel(c)
      PROVE  ConnectorInv'
  <2>1. PICK next \in Running \cup {"finished", "aborted"} :
          task' = [task EXCEPT ![c] = next] /\ (next \in Live => task[c] \in Running)
    BY <1>7 DEF ReadRequest, Service, WriteAnswer, Cancel, Move, Live, Running
  <2>2. UNCHANGED <<acc, joinset, main, how>>
    BY <1>7 DEF ReadRequest, Service, WriteAnswer, Cancel, Move
  <2>3. next \in TaskPlaces
    BY <2>1 DEF TaskPlaces, Live
  <2> QED BY <2>1, <2>2, <2>3, TaskStepKept
<1>8. CASE FirstSignal \/ SecondSignal \/ DrainAll \/ OuterBudget \/ StopServer
  <2>1. UNCHANGED <<acc, joinset, task>>
    BY <1>8 DEF FirstSignal, SecondSignal, DrainAll, OuterBudget, StopServer, WaitEnds
  <2>2. DrainedAll'
    BY <1>8 DEF FirstSignal, SecondSignal, DrainAll, OuterBudget, StopServer, WaitEnds, ConnectorInv, DrainedAll
  <2> QED BY <2>1, <2>2 DEF ConnectorInv, ConnTypes, TasksOwned, Awaited, EmptyAtEnds
<1>9. CASE Exit
  <2>1. task' \in [Conns -> TaskPlaces] /\ \A c \in Conns : task'[c] \notin Live
    BY <1>t, <1>9 DEF Exit, ConnTypes, TaskPlaces, Live, Running
  <2> QED BY <1>9, <2>1 DEF Exit, ConnectorInv, ConnTypes, TasksOwned, EmptyAtEnds, DrainedAll
<1>10. CASE UNCHANGED connVars
  BY <1>10 DEF connVars, ConnectorInv, ConnTypes, TasksOwned, Awaited, EmptyAtEnds, DrainedAll
<1> QED BY <1>1, <1>2, <1>3, <1>4, <1>5, <1>6, <1>7, <1>8, <1>9, <1>10 DEF ConnNext

\* Whatever the connectors, the connections and the operator do: a server that
\* stops because its connectors have drained stops when no connection task runs,
\* but for tasks that a failed loop has aborted (acceptor.rs run_accept_loop,
\* main.rs run).
THEOREM StopsAfterDrain == ConnSpec => []StopAfterDrain
<1>1. ConnInit => ConnectorInv
  BY ConnectorInitial
<1>2. ConnectorInv /\ [ConnNext]_connVars => ConnectorInv'
  BY ConnectorSteps
<1>3. ConnectorInv => StopAfterDrain
  <2> SUFFICES ASSUME ConnectorInv, how = "drained", NEW c \in Conns, task[c] \in Live
               PROVE  task[c] = "cancelling" /\ \E k \in Connectors : acc[k] = "failed"
    BY DEF StopAfterDrain, Live, Running
  <2>1. \A k \in Connectors : joinset[k] = {}
    BY DEF ConnectorInv, DrainedAll, EmptyAtEnds
  <2> QED BY <2>1 DEF ConnectorInv, TasksOwned, Awaited
<1> QED BY <1>1, <1>2, <1>3, PTL DEF ConnSpec

-----------------------------------------------------------------------------
(* The WebSocket connection: the inductive invariant of what it writes. *)

WsStates == {"Connecting", "Open", "Closing", "Closed"}
OutFrame == [op : {"Text", "Binary", "Continuation", "Close", "Ping", "Pong"},
             fin : BOOLEAN, len : Int]
PeerFrame == [op : STRING, fin : BOOLEAN, len : Nat, masked : BOOLEAN, valid : BOOLEAN,
              rsv : BOOLEAN]
ClosedOrClosing(conn) == conn.state \notin {"Connecting", "Open"}

\* What is written is well formed and ends with a whole message.
FrameFits(f) == f.len <= IF f.op \in Control THEN MaxControl ELSE MaxFrameSize
Follows(s, i) ==
  /\ s[i].op \in {"Text", "Binary"} => i = 1 \/ s[i - 1].fin
  /\ s[i].op = "Continuation" => i > 1 /\ ~s[i - 1].fin
WellWritten(s) ==
  /\ s \in Seq(OutFrame)
  /\ \A i \in DOMAIN s : (s[i].op = "Close" => i = Len(s)) /\ Follows(s, i) /\ FrameFits(s[i])
  /\ s # <<>> => s[Len(s)].fin
NoClose(s) == \A i \in DOMAIN s : s[i].op # "Close"

WritesInv ==
  /\ DOMAIN ws = {"state", "fragment", "pong", "closeSent", "closeReceived"}
  /\ ws.state \in WsStates /\ ws.closeSent \in BOOLEAN
  /\ wire \in Seq(PeerFrames)
  /\ WellWritten(out)
  /\ ~ws.closeSent => NoClose(out)
  /\ ws.closeSent => ClosedOrClosing(ws)

\* A sequence of frames that is well written is written behind another.
LEMMA WrittenOn ==
  ASSUME NEW s, NEW d, WellWritten(s), WellWritten(d), NoClose(s)
  PROVE  WellWritten(s \o d)
<1> DEFINE m == Len(s)
           n == Len(d)
           t == s \o d
<1>1. s \in Seq(OutFrame) /\ d \in Seq(OutFrame) /\ m \in Nat /\ n \in Nat /\ DOMAIN s = 1..m /\ DOMAIN d = 1..n
  BY DEF WellWritten
<1>2. /\ t \in Seq(OutFrame) /\ Len(t) = m + n /\ DOMAIN t = 1..m + n
      /\ \A i \in 1..m + n : t[i] = IF i <= m THEN s[i] ELSE d[i - m]
  BY <1>1, ConcatProperties
<1> HIDE DEF m, n, t
<1>3. ASSUME NEW i \in 1..m
      PROVE  t[i] = s[i] /\ t[i].op # "Close" /\ Follows(t, i) /\ FrameFits(t[i])
  <2>1. i \in 1..m + n /\ (i > 1 => i - 1 \in 1..m /\ i - 1 \in 1..m + n)
    BY <1>1
  <2>2. t[i] = s[i] /\ (i > 1 => t[i - 1] = s[i - 1])
    BY <1>1, <1>2, <2>1
  <2>3. s[i].op # "Close" /\ Follows(s, i) /\ FrameFits(s[i])
    BY <1>1 DEF WellWritten, NoClose
  <2>4. Follows(t, i)
    BY <1>1, <2>2, <2>3 DEF Follows
  <2> QED BY <2>2, <2>3, <2>4
<1>4. ASSUME NEW j \in 1..n
      PROVE  /\ t[m + j] = d[j] /\ (d[j].op = "Close" => j = n)
             /\ Follows(t, m + j) /\ FrameFits(t[m + j])
  <2>1. m + j \in 1..m + n /\ ~(m + j <= m) /\ (m + j) - m = j
    BY <1>1
  <2>2. t[m + j] = d[j]
    BY <1>2, <2>1
  <2>3. (d[j].op = "Close" => j = n) /\ Follows(d, j) /\ FrameFits(d[j])
    BY <1>1 DEF WellWritten, n
  <2>4. Follows(t, m + j)
    <3>1. CASE j > 1
      <4>1. /\ (m + j) - 1 \in 1..m + n /\ ~((m + j) - 1 <= m) /\ ((m + j) - 1) - m = j - 1
            /\ m + j > 1 /\ j # 1
        BY <1>1, <3>1
      <4>2. t[(m + j) - 1] = d[j - 1]
        BY <1>2, <4>1
      <4> QED BY <2>2, <2>3, <4>1, <4>2 DEF Follows
    <3>2. CASE j = 1
      <4>1. d[1].op # "Continuation"
        BY <2>3, <3>2 DEF Follows
      <4>2. CASE m = 0
        BY <1>1, <2>2, <3>2, <4>1, <4>2 DEF Follows
      <4>3. CASE m # 0
        <5>1. (m + j) - 1 = m /\ m \in 1..m /\ s # <<>>
          BY <1>1, <3>2, <4>3 DEF m
        <5>2. t[m] = s[m] /\ s[m].fin
          BY <1>3, <5>1 DEF WellWritten, m
        <5> QED BY <2>2, <3>2, <4>1, <5>1, <5>2 DEF Follows
      <4> QED BY <4>2, <4>3
    <3> QED BY <1>1, <3>1, <3>2
  <2> QED BY <2>2, <2>3, <2>4
<1>5. ASSUME NEW i \in 1..m + n
      PROVE  (t[i].op = "Close" => i = m + n) /\ Follows(t, i) /\ FrameFits(t[i])
  <2>1. CASE i <= m
    <3>1. i \in 1..m
      BY <2>1
    <3> QED BY <1>3, <3>1
  <2>2. CASE ~(i <= m)
    <3>1. PICK j \in 1..n : i = m + j
      <4>1. i - m \in 1..n /\ i = m + (i - m)
        BY <1>1, <2>2
      <4> QED BY <4>1
    <3>2. t[m + j] = d[j] /\ (d[j].op = "Close" => j = n) /\ Follows(t, m + j) /\ FrameFits(t[m + j])
      BY <1>4
    <3> QED BY <3>1, <3>2
  <2> QED BY <2>1, <2>2
<1>6. t # <<>> => t[Len(t)].fin
  <2> SUFFICES ASSUME t # <<>>  PROVE t[m + n].fin
    BY <1>2
  <2>1. CASE n = 0
    <3>1. m + n = m /\ m # 0
      BY <1>1, <1>2, <2>1
    <3>2. m \in 1..m /\ s # <<>>
      BY <1>1, <3>1 DEF m
    <3>3. s[m].fin /\ t[m] = s[m]
      BY <1>3, <3>2 DEF WellWritten, m
    <3> QED BY <3>1, <3>3
  <2>2. CASE n # 0
    <3>1. n \in 1..n /\ d # <<>>
      BY <1>1, <2>2 DEF n
    <3>2. d[n].fin /\ t[m + n] = d[n]
      BY <1>4, <3>1 DEF WellWritten, n
    <3> QED BY <3>2
  <2> QED BY <2>1, <2>2
<1> QED BY <1>2, <1>5, <1>6 DEF WellWritten, t

\* One frame that is a message of its own.
LEMMA WrittenAlone ==
  ASSUME NEW f \in OutFrame, f.fin, f.op # "Continuation", FrameFits(f)
  PROVE  WellWritten(<<f>>)
<1>1. <<f>> \in Seq(OutFrame) /\ Len(<<f>>) = 1 /\ <<f>>[1] = f /\ DOMAIN <<f>> = 1..1
  OBVIOUS
<1>2. \A i \in DOMAIN <<f>> : i = 1
  BY <1>1
<1> HIDE DEF WellWritten
<1> QED BY <1>1, <1>2 DEF WellWritten, Follows

\* What write_data_frames writes: the first frame says what the message is, the
\* last one that it ends.
LEMMA DataFramesWritten ==
  ASSUME NEW len \in {1, 2 * MaxFrameSize + 1}
  PROVE  WellWritten(DataFrames("Text", len)) /\ NoClose(DataFrames("Text", len))
<1> DEFINE M == MaxFrameSize
           count == IF len <= M THEN 1 ELSE (len + M - 1) \div M
           s == DataFrames("Text", len)
<1>1. M \in Nat /\ M >= 1 /\ len \in Nat /\ len >= 1
  BY WebSocketAssumption
<1>2. count \in Nat /\ count >= 1 /\ len - M * (count - 1) <= M
  <2>1. CASE len <= M
    BY <1>1, <2>1
  <2>2. CASE ~(len <= M)
    <3>1. len = 2 * M + 1
      BY <1>1, <2>2
    <3>2. (len + M - 1) = 3 * M
      BY <1>1, <3>1
    <3>3. (3 * M) \div M = 3
      BY <1>1
    <3>4. count = 3
      BY <2>2, <3>2, <3>3
    <3> QED BY <1>1, <3>1, <3>4
  <2> QED BY <2>1, <2>2
<1>3. s = [i \in 1..count |-> Written(IF i = 1 THEN "Text" ELSE "Continuation", i = count,
                                      IF i < count THEN M ELSE len - M * (count - 1))]
  BY DEF DataFrames
<1> DEFINE last == len - M * (count - 1)
<1>4. last \in Int /\ last <= M
  BY <1>1, <1>2
<1> HIDE DEF count, s, last
<1>5. /\ DOMAIN s = 1..count
      /\ \A i \in 1..count : s[i] = [op |-> IF i = 1 THEN "Text" ELSE "Continuation",
                                     fin |-> (i = count), len |-> IF i < count THEN M ELSE last]
  BY <1>3 DEF Written, last
<1>6. \A i \in 1..count :
        /\ s[i] \in OutFrame /\ s[i].fin = (i = count)
        /\ s[i].op = (IF i = 1 THEN "Text" ELSE "Continuation")
        /\ s[i].len = IF i < count THEN M ELSE last
  <2> TAKE i \in 1..count
  <2> DEFINE op == IF i = 1 THEN "Text" ELSE "Continuation"
             fin == i = count
             size == IF i < count THEN M ELSE last
  <2>1. op \in {"Text", "Continuation"} /\ size \in Int
    BY <1>1, <1>4
  <2>2. fin \in BOOLEAN
    OBVIOUS
  <2>3. s[i] = [op |-> op, fin |-> fin, len |-> size]
    BY <1>5, Zenon
  <2> HIDE DEF op, fin, size
  <2>4. s[i] \in OutFrame
    BY <2>1, <2>2, <2>3 DEF OutFrame
  <2>5. \A f : f = [op |-> op, fin |-> fin, len |-> size] => f.fin = fin /\ f.op = op /\ f.len = size
    OBVIOUS
  <2>6. s[i].fin = fin /\ s[i].op = op /\ s[i].len = size
    BY <2>3, <2>5
  <2> QED BY <2>4, <2>6 DEF op, fin, size
<1>7. s \in Seq(OutFrame) /\ Len(s) = count /\ s # <<>>
  <2>1. s = [i \in 1..count |-> s[i]]
    BY <1>3
  <2>2. s \in [1..count -> OutFrame]
    BY <1>6, <2>1
  <2>3. s \in Seq(OutFrame) /\ Len(s) = count
    BY <1>2, <2>2, SeqDef
  <2> QED BY <1>2, <2>3
<1>8. \A i \in 1..count : s[i].op # "Close" /\ FrameFits(s[i]) /\ Follows(s, i)
  <2> TAKE i \in 1..count
  <2>1. s[i].op # "Close" /\ FrameFits(s[i])
    BY <1>4, <1>6, <1>1 DEF FrameFits, Control
  <2>2. Follows(s, i)
    <3>1. CASE i = 1
      BY <1>6, <3>1 DEF Follows
    <3>2. CASE i # 1
      <4>1. i - 1 \in 1..count /\ i - 1 # count /\ i > 1
        BY <1>2, <3>2
      <4>2. ~s[i - 1].fin /\ s[i].op = "Continuation"
        BY <1>6, <3>2, <4>1
      <4> QED BY <3>2, <4>1, <4>2 DEF Follows
    <3> QED BY <3>1, <3>2
  <2> QED BY <2>1, <2>2
<1>9. s[count].fin
  <2>1. count \in 1..count
    BY <1>2
  <2> QED BY <1>6, <2>1
<1>10. WellWritten(s)
  BY <1>5, <1>7, <1>8, <1>9 DEF WellWritten
<1> QED BY <1>5, <1>8, <1>10 DEF NoClose, s

LEMMA NothingWritten == WellWritten(<<>>) /\ NoClose(<<>>)
BY EmptySeq DEF WellWritten, NoClose

\* What one step does to the connection conn and writes, s: nothing behind a
\* Close, and a Close only as the connection notes that it was sent.
Conn(conn) ==
  /\ DOMAIN conn = {"state", "fragment", "pong", "closeSent", "closeReceived"}
  /\ conn.state \in WsStates /\ conn.closeSent \in BOOLEAN
  /\ conn.closeSent => ClosedOrClosing(conn)
Writes(conn, s) ==
  /\ Conn(conn)
  /\ WellWritten(s)
  /\ s # <<>> => ~ws.closeSent
  /\ ~conn.closeSent => NoClose(s)
  /\ ws.closeSent => conn.closeSent

LEMMA WritesKept ==
  ASSUME WritesInv, NEW s, Writes(ws', s), out' = out \o s, wire' \in Seq(PeerFrames)
  PROVE  WritesInv'
<1>1. Conn(ws')
  BY DEF Writes
<1>2. out \in Seq(OutFrame) /\ s \in Seq(OutFrame)
  BY DEF Writes, WritesInv, WellWritten
<1>3. CASE s = <<>>
  <2>1. out' = out
    BY <1>2, <1>3, ConcatEmptySeq
  <2>2. ~ws'.closeSent => ~ws.closeSent
    BY DEF Writes
  <2> QED BY <1>1, <2>1, <2>2 DEF WritesInv, Conn, WellWritten, NoClose, Follows, FrameFits
<1>4. CASE s # <<>>
  <2>1. ~ws.closeSent /\ NoClose(out)
    BY <1>4 DEF Writes, WritesInv
  <2>2. WellWritten(out \o s)
    BY <2>1, WrittenOn DEF Writes, WritesInv
  <2>3. ASSUME NoClose(s)  PROVE NoClose(out \o s)
    <3>1. /\ \A i \in 1..Len(out) + Len(s) :
              (out \o s)[i] = IF i <= Len(out) THEN out[i] ELSE s[i - Len(out)]
          /\ DOMAIN (out \o s) = 1..Len(out) + Len(s)
      BY <1>2, ConcatProperties
    <3>2. DOMAIN out = 1..Len(out) /\ DOMAIN s = 1..Len(s) /\ Len(out) \in Nat /\ Len(s) \in Nat
      BY <1>2
    <3>3. ASSUME NEW i \in 1..Len(out) + Len(s)  PROVE (out \o s)[i].op # "Close"
      <4>1. CASE i <= Len(out)
        <5>1. i \in 1..Len(out)
          BY <3>2, <4>1
        <5>2. out[i].op # "Close"
          BY <2>1, <3>2, <5>1 DEF NoClose
        <5> QED BY <3>1, <4>1, <5>2
      <4>2. CASE ~(i <= Len(out))
        <5>1. i - Len(out) \in 1..Len(s)
          BY <3>2, <4>2
        <5>2. s[i - Len(out)].op # "Close"
          BY <2>3, <3>2, <5>1 DEF NoClose
        <5> QED BY <3>1, <4>2, <5>2
      <4> QED BY <4>1, <4>2
    <3> QED BY <3>1, <3>3 DEF NoClose
  <2>4. WellWritten(out)' /\ (~ws'.closeSent => NoClose(out)')
    <3>1. \A t : t = out' => WellWritten(t) /\ (~ws'.closeSent => NoClose(t))
      BY <2>2, <2>3 DEF Writes
    <3> QED BY <3>1 DEF WellWritten, NoClose, Follows, FrameFits
  <2> QED BY <1>1, <2>4 DEF WritesInv, Conn
<1> QED BY <1>3, <1>4

\* A step that writes nothing.
LEMMA SilentKept ==
  ASSUME WritesInv, Conn(ws'), ws'.closeSent = ws.closeSent, UNCHANGED out,
         wire' \in Seq(PeerFrames)
  PROVE  WritesInv'
BY DEF WritesInv, Conn, WellWritten, NoClose, Follows, FrameFits

LEMMA WritesInitial == WsInit => WritesInv
<1> SUFFICES ASSUME WsInit  PROVE WritesInv
  OBVIOUS
<1>1. WellWritten(out) /\ NoClose(out)
  BY NothingWritten DEF WsInit
<1>2. wire \in Seq(PeerFrames)
  BY DEF WsInit
<1> QED BY <1>1, <1>2 DEF WsInit, WritesInv, WsStates

\* A frame the parser lets through has the length its kind may have.
LEMMA ParsedFits ==
  ASSUME NEW frame \in PeerFrame, ParseError(frame) = "none", frame.op \in Control
  PROVE  frame.len <= MaxControl
<1>1. ASSUME NEW g \in PeerFrame, StrictError(g) = "none", g.op \in Control
      PROVE  g.len <= MaxControl
  <2> SUFFICES ASSUME ~(g.len <= MaxControl)  PROVE FALSE
    OBVIOUS
  <2>1. g.len > MaxControl
    BY WebSocketAssumption DEF PeerFrame
  <2>2. g.rsv \in BOOLEAN /\ g.fin \in BOOLEAN /\ g.masked \in BOOLEAN
    BY DEF PeerFrame
  <2>3. StrictError(g) \in {"rsv", "opcode", "fragmented control", "control length", "unmasked"}
    BY <1>1, <2>1, <2>2, Zenon DEF StrictError
  <2> QED BY <1>1, <2>3
<1>2. CASE StrictError(frame) = "none"
  BY <1>1, <1>2
<1>3. CASE StrictError(frame) # "none"
  <2> DEFINE g == [frame EXCEPT !.masked = TRUE]
  <2>1. g \in PeerFrame /\ g.op = frame.op /\ g.len = frame.len
    BY DEF PeerFrame
  <2>2. StrictError(g) = "none"
    BY <1>3 DEF ParseError, LenientError
  <2> HIDE DEF g
  <2> QED BY <1>1, <2>1, <2>2
<1> QED BY <1>2, <1>3

\* The answer to a frame: a Pong at most, and only while open.
LEMMA FrameHandled ==
  ASSUME WritesInv, NEW frame \in PeerFrame, ParseError(frame) = "none"
  PROVE  LET done == HandleFrame(ws, frame) IN Writes(done.conn, done.written)
<1> DEFINE done == HandleFrame(ws, frame)
<1>w. Conn(ws)
  BY DEF WritesInv, Conn
<1>n. ASSUME NEW conn, Conn(conn), conn.closeSent = ws.closeSent
      PROVE  Writes(conn, <<>>)
  BY <1>n, NothingWritten DEF Writes
<1>f. ASSUME NEW conn,
             \/ \E x : conn = [ws EXCEPT !.fragment = x]
             \/ \E x, y : conn = [ws EXCEPT !.fragment.len = x, !.fragment.valid = y]
      PROVE  Writes(conn, <<>>)
  <2>1. DOMAIN conn = DOMAIN ws /\ conn.state = ws.state /\ conn.closeSent = ws.closeSent
    BY <1>w, <1>f DEF Conn
  <2>2. Conn(conn)
    BY <1>w, <2>1 DEF Conn, ClosedOrClosing
  <2> QED BY <1>n, <2>1, <2>2
<1>k. Writes(ws, <<>>)
  BY <1>n, <1>w
<1>1. CASE frame.op \notin Control
  <2>1. done = HandleDataFrame(ws, frame)
    BY <1>1 DEF HandleFrame
  <2> DEFINE frag == ws.fragment
             len == frag.len + frame.len
             text == frame.op = "Text"
  <2>o. ASSUME NEW conn, NEW r
        PROVE  Outcome(conn, <<>>, r).conn = conn /\ Outcome(conn, <<>>, r).written = <<>>
    BY DEF Outcome
  <2>2. /\ done.written = <<>>
        /\ \/ done.conn = ws
           \/ \E x : done.conn = [ws EXCEPT !.fragment = x]
           \/ \E x, y : done.conn = [ws EXCEPT !.fragment.len = x, !.fragment.valid = y]
    <3>1. CASE frame.op # "Continuation"
      <4> DEFINE next == [open |-> TRUE, text |-> text, len |-> frame.len, valid |-> frame.valid]
      <4>1. \/ \E r : done = Outcome(ws, <<>>, r)
            \/ done = Outcome([ws EXCEPT !.fragment = next], <<>>, Nothing)
        <5>1. \/ done = Outcome(ws, <<>>, Error)
              \/ done = FinishDataMessage(ws, text, frame.len, frame.valid)
              \/ done = Outcome([ws EXCEPT !.fragment = next], <<>>, Nothing)
          BY <2>1, <3>1, Zenon DEF HandleDataFrame
        <5> HIDE DEF done, text, next
        <5>2. \E r : FinishDataMessage(ws, text, frame.len, frame.valid) = Outcome(ws, <<>>, r)
          BY Zenon DEF FinishDataMessage
        <5> QED BY <5>1, <5>2, Zenon
      <4> HIDE DEF done, text, next
      <4>2. CASE \E r : done = Outcome(ws, <<>>, r)
        <5>1. done.conn = ws /\ done.written = <<>>
          BY <2>o, <4>2
        <5> QED BY <5>1, Zenon
      <4>3. CASE done = Outcome([ws EXCEPT !.fragment = next], <<>>, Nothing)
        <5>1. done.conn = [ws EXCEPT !.fragment = next] /\ done.written = <<>>
          BY <2>o, <4>3
        <5> QED BY <5>1, Zenon
      <4> QED BY <4>1, <4>2, <4>3
    <3>2. CASE frame.op = "Continuation"
      <4> DEFINE gone == [ws EXCEPT !.fragment = NoFragment]
                 more == [ws EXCEPT !.fragment.len = len,
                                    !.fragment.valid = frag.valid /\ frame.valid]
      <4>1. \/ done = Outcome(ws, <<>>, Error)
            \/ \E r : done = Outcome(gone, <<>>, r)
            \/ done = Outcome(more, <<>>, Nothing)
        <5>1. \/ done = Outcome(ws, <<>>, Error)
              \/ done = FinishDataMessage(gone, frag.text, len, frag.valid /\ frame.valid)
              \/ done = Outcome(more, <<>>, Nothing)
          BY <2>1, <3>2, Zenon DEF HandleDataFrame
        <5>2. ASSUME NEW v  PROVE \E r : FinishDataMessage(gone, frag.text, len, v) = Outcome(gone, <<>>, r)
          <6> HIDE DEF gone, frag, len
          <6> QED BY Zenon DEF FinishDataMessage
        <5> HIDE DEF done, frag, len, text, gone, more
        <5> QED BY <5>1, <5>2, Zenon
      <4>2. CASE done = Outcome(ws, <<>>, Error)
        <5> HIDE DEF done
        <5> QED BY <2>o, <4>2
      <4>3. CASE \E r : done = Outcome(gone, <<>>, r)
        <5> HIDE DEF done, gone
        <5>1. done.conn = gone /\ done.written = <<>>
          BY <2>o, <4>3
        <5> QED BY <5>1 DEF gone
      <4>4. CASE done = Outcome(more, <<>>, Nothing)
        <5> HIDE DEF done, more
        <5>1. done.conn = more /\ done.written = <<>>
          BY <2>o, <4>4
        <5>2. \E x, y : more = [ws EXCEPT !.fragment.len = x, !.fragment.valid = y]
          BY Zenon DEF more
        <5> QED BY <5>1, <5>2, Zenon
      <4> QED BY <4>1, <4>2, <4>3, <4>4
    <3> QED BY <3>1, <3>2
  <2> HIDE DEF done
  <2>3. Writes(done.conn, done.written)
    BY <1>f, <1>k, <2>2
  <2> QED BY <2>3 DEF done
<1>2. CASE frame.op = "Ping"
  <2>1. done = Outcome(ws, IF ws.state = "Open" THEN <<Written("Pong", TRUE, frame.len)>> ELSE <<>>,
                       Message("Ping", frame.len))
    BY <1>2 DEF HandleFrame, HandleControlFrame, Control
  <2>2. CASE ws.state = "Open"
    <3> DEFINE f == Written("Pong", TRUE, frame.len)
    <3>1. f \in OutFrame /\ f.fin /\ f.op = "Pong" /\ f.len = frame.len
      BY DEF OutFrame, Written, PeerFrame
    <3>2. FrameFits(f)
      BY <1>2, <3>1, ParsedFits DEF FrameFits, Control
    <3> HIDE DEF f
    <3>3. WellWritten(<<f>>)
      BY <3>1, <3>2, WrittenAlone
    <3>4. ~ws.closeSent
      BY <1>w, <2>2 DEF Conn, ClosedOrClosing
    <3>5. NoClose(<<f>>)
      BY <3>1 DEF NoClose
    <3>6. Writes(ws, <<f>>)
      BY <1>w, <3>3, <3>4, <3>5 DEF Writes
    <3> HIDE DEF done
    <3>7. done = Outcome(ws, <<f>>, Message("Ping", frame.len))
      BY <2>1, <2>2 DEF f
    <3>8. done.conn = ws /\ done.written = <<f>>
      BY <3>7 DEF Outcome
    <3>9. Writes(done.conn, done.written)
      BY <3>6, <3>8
    <3> QED BY <3>9 DEF done
  <2>3. CASE ws.state # "Open"
    <3>1. done.conn = ws /\ done.written = <<>>
      BY <2>1, <2>3 DEF Outcome
    <3> QED BY <1>k, <3>1
  <2> QED BY <2>2, <2>3
<1>3. CASE frame.op = "Pong"
  <2>1. done.conn = [ws EXCEPT !.pong = frame.len] /\ done.written = <<>>
    BY <1>3 DEF HandleFrame, HandleControlFrame, Control, Outcome
  <2> DEFINE conn == [ws EXCEPT !.pong = frame.len]
  <2>2. DOMAIN conn = DOMAIN ws /\ conn.state = ws.state /\ conn.closeSent = ws.closeSent
    BY <1>w DEF Conn
  <2> HIDE DEF conn
  <2>3. Conn(conn)
    BY <1>w, <2>2 DEF Conn, ClosedOrClosing
  <2>4. Writes(conn, <<>>)
    BY <1>n, <2>2, <2>3
  <2> QED BY <2>1, <2>4 DEF conn
<1>4. CASE frame.op = "Close"
  <2> DEFINE conn == done.conn
  <2>1. done.written = <<>>
    BY <1>4 DEF HandleFrame, HandleControlFrame, Control, Outcome
  <2>2. \/ conn = [ws EXCEPT !.closeReceived = TRUE]
        \/ conn = [ws EXCEPT !.closeReceived = TRUE, !.state = IF @ = "Open" THEN "Closing" ELSE @]
    BY <1>4 DEF HandleFrame, HandleControlFrame, Control, Outcome
  <2>3. /\ DOMAIN conn = DOMAIN ws /\ conn.closeSent = ws.closeSent
        /\ conn.state = ws.state \/ conn.state = "Closing"
    <3> HIDE DEF conn
    <3> QED BY <1>w, <2>2 DEF Conn
  <2>4. Conn(conn)
    <3> HIDE DEF conn
    <3> QED BY <1>w, <2>3 DEF Conn, ClosedOrClosing, WsStates
  <2>5. Writes(conn, <<>>)
    <3> HIDE DEF conn
    <3> QED BY <1>n, <2>3, <2>4
  <2> QED BY <2>1, <2>5
<1> QED BY <1>1, <1>2, <1>3, <1>4 DEF Control

\* A Close is sent once.
LEMMA CloseSentOnce ==
  ASSUME WritesInv, ws.state \in {"Open", "Closing"}, NEW len \in {0, 2}, len <= MaxControl
  PROVE  LET sent == SentClose(ws, len)
         IN /\ Writes(sent.conn, sent.written)
            /\ sent.conn.closeSent
<1> DEFINE sent == SentClose(ws, len)
           conn == sent.conn
<1>w. Conn(ws)
  BY DEF WritesInv, Conn
<1>1. CASE ws.closeSent
  <2>1. conn = ws /\ sent.written = <<>>
    BY <1>1 DEF SentClose, Outcome
  <2> HIDE DEF conn, sent
  <2>2. Writes(conn, sent.written) /\ conn.closeSent
    BY <1>w, <1>1, <2>1, NothingWritten DEF Writes
  <2> QED BY <2>2 DEF conn, sent
<1>2. CASE ~ws.closeSent
  <2> DEFINE f == Written("Close", TRUE, len)
  <2>1. f \in OutFrame /\ f.fin /\ f.op = "Close" /\ f.len = len
    BY DEF OutFrame, Written
  <2>2. FrameFits(f)
    BY <2>1 DEF FrameFits, Control
  <2>3. /\ conn = [ws EXCEPT !.closeSent = TRUE, !.state = IF @ = "Open" THEN "Closing" ELSE @]
        /\ sent.written = <<f>>
    BY <1>2 DEF SentClose, Outcome
  <2> HIDE DEF f, conn, sent
  <2>4. WellWritten(<<f>>)
    BY <2>1, <2>2, WrittenAlone
  <2>5. DOMAIN conn = DOMAIN ws /\ conn.closeSent = TRUE /\ conn.state = "Closing"
    BY <1>w, <2>3 DEF Conn
  <2>6. Writes(conn, sent.written) /\ conn.closeSent
    BY <1>w, <1>2, <2>3, <2>4, <2>5 DEF Writes, Conn, ClosedOrClosing, WsStates
  <2> QED BY <2>6 DEF conn, sent
<1> QED BY <1>1, <1>2

LEMMA WritesSteps == WritesInv /\ [WsNext]_wsVars => WritesInv'
<1> SUFFICES ASSUME WritesInv, [WsNext]_wsVars  PROVE WritesInv'
  OBVIOUS
<1>c. Conn(ws) /\ wire \in Seq(PeerFrames)
  BY DEF WritesInv, Conn
<1>s. ASSUME NEW conn, DOMAIN conn = DOMAIN ws, conn.closeSent = ws.closeSent, conn.state = "Closed"
      PROVE  Conn(conn)
  BY <1>c, <1>s DEF Conn, ClosedOrClosing, WsStates
<1>r. ASSUME NEW frame, wire # <<>>
      PROVE  Rest(frame) \in Seq(PeerFrames)
  <2>1. Tail(wire) \in Seq(PeerFrames)
    BY <1>c, <1>r
  <2> QED BY <1>c, <2>1 DEF Rest
<1>1. ASSUME NEW f \in PeerFrames, PeerSend(f)  PROVE WritesInv'
  <2>1. wire' \in Seq(PeerFrames)
    BY <1>c, <1>1 DEF PeerSend
  <2> QED BY <1>c, <1>1, <2>1, SilentKept DEF PeerSend
<1>2. CASE PeerEof \/ StartRead
  BY <1>c, <1>2, SilentKept DEF PeerEof, StartRead
<1>3. ASSUME NEW up, NEW con, NEW v, NEW k, Handshake(up, con, v, k)  PROVE WritesInv'
  <2>1. ~ws.closeSent
    BY <1>3 DEF Handshake, WritesInv, ClosedOrClosing
  <2>2. DOMAIN ws' = DOMAIN ws /\ ws'.closeSent = ws.closeSent /\ ws'.state = "Open"
    BY <1>c, <1>3 DEF Handshake, Conn
  <2>3. Conn(ws')
    BY <1>c, <2>1, <2>2 DEF Conn, WsStates
  <2> QED BY <1>c, <1>3, <2>2, <2>3, SilentKept DEF Handshake
<1>4. CASE ReadFrame
  <2> DEFINE frame == Head(wire)
             fails == ParseError(frame) # "none"
             done == IF fails THEN Outcome(ws, <<>>, Error) ELSE HandleFrame(ws, frame)
  <2>1. frame \in PeerFrame
    BY <1>c, <1>4, WebSocketAssumption DEF ReadFrame, PeerFrame
  <2>2. Writes(done.conn, done.written)
    <3>1. CASE fails
      <4>1. done.conn = ws /\ done.written = <<>>
        BY <3>1 DEF Outcome
      <4>2. Writes(ws, <<>>)
        BY <1>c, NothingWritten DEF Writes
      <4> HIDE DEF done
      <4> QED BY <4>1, <4>2
    <3>2. CASE ~fails
      <4>1. done = HandleFrame(ws, frame)
        BY <3>2
      <4> HIDE DEF done
      <4> QED BY <2>1, <3>2, <4>1, FrameHandled
    <3> QED BY <3>1, <3>2
  <2>3. ws' = done.conn /\ out' = out \o done.written /\ wire' = Rest(frame)
    BY <1>4, Zenon DEF ReadFrame
  <2>4. wire' \in Seq(PeerFrames)
    <3>1. wire # <<>>
      BY <1>4 DEF ReadFrame
    <3> HIDE DEF frame, done
    <3> QED BY <1>r, <2>3, <3>1
  <2> HIDE DEF done
  <2>5. Writes(ws', done.written)
    BY <2>2, <2>3
  <2> QED BY <2>3, <2>4, <2>5, WritesKept
<1>5. CASE ReadEof
  <2>1. Conn(ws') /\ ws'.closeSent = ws.closeSent
    <3>1. CASE UNCHANGED ws
      BY <1>c, <3>1
    <3>2. CASE ws' = [ws EXCEPT !.state = "Closed"]
      BY <1>c, <1>s, <3>2 DEF Conn
    <3> QED BY <1>5, <3>1, <3>2 DEF ReadEof
  <2> QED BY <1>c, <1>5, <2>1, SilentKept DEF ReadEof
<1>6. ASSUME NEW op \in {"Text", "Ping"}, NEW len \in {1, 2 * MaxFrameSize + 1}, WriteMessage(op, len)
      PROVE  WritesInv'
  <2>1. ~ws.closeSent
    BY <1>6 DEF WriteMessage, WritesInv, ClosedOrClosing
  <2>2. CASE op = "Ping"
    <3> DEFINE f == Written(op, TRUE, len)
    <3>1. f \in OutFrame /\ f.fin /\ f.op = "Ping" /\ f.len = len
      BY <2>2, WebSocketAssumption DEF OutFrame, Written
    <3>2. len <= MaxControl /\ out' = Append(out, f)
      BY <1>6, <2>2 DEF WriteMessage, Control
    <3>3. FrameFits(f)
      BY <3>1, <3>2 DEF FrameFits, Control
    <3> HIDE DEF f
    <3>4. WellWritten(<<f>>)
      BY <3>1, <3>3, WrittenAlone
    <3>5. NoClose(<<f>>)
      BY <3>1 DEF NoClose
    <3>6. out' = out \o <<f>>
      BY <3>1, <3>2, AppendIsConcat DEF WritesInv, WellWritten
    <3>7. ws' = ws /\ wire' = wire
      BY <1>6 DEF WriteMessage
    <3>8. Writes(ws', <<f>>)
      BY <1>c, <2>1, <3>4, <3>5, <3>7 DEF Writes
    <3> QED BY <1>c, <3>6, <3>7, <3>8, WritesKept
  <2>3. CASE op = "Text"
    <3> DEFINE s == DataFrames("Text", len)
    <3>1. out' = out \o s /\ ws' = ws /\ wire' = wire
      BY <1>6, <2>3 DEF WriteMessage, Control
    <3>2. WellWritten(s) /\ NoClose(s)
      BY DataFramesWritten
    <3> HIDE DEF s
    <3>3. Writes(ws', s)
      BY <1>c, <2>1, <3>1, <3>2 DEF Writes
    <3> QED BY <1>c, <3>1, <3>3, WritesKept
  <2> QED BY <2>2, <2>3
<1>7. CASE WriteClose(0)
  <2> DEFINE sent == SentClose(ws, 0)
  <2>1. Writes(sent.conn, sent.written)
    BY <1>7, CloseSentOnce DEF WriteClose
  <2>2. ws' = sent.conn /\ out' = out \o sent.written /\ wire' = wire
    BY <1>7 DEF WriteClose
  <2> HIDE DEF sent
  <2>3. Writes(ws', sent.written)
    BY <2>1, <2>2
  <2> QED BY <1>c, <2>2, <2>3, WritesKept
<1>8. CASE StartClose(2)
  <2> DEFINE sent == SentClose(ws, 2)
  <2>1. Writes(sent.conn, sent.written) /\ sent.conn.closeSent
    BY <1>8, CloseSentOnce DEF StartClose
  <2>2. /\ out' = out \o sent.written /\ wire' = wire
        /\ ws' = sent.conn \/ ws' = [sent.conn EXCEPT !.state = "Closed"]
    BY <1>8, Zenon DEF StartClose
  <2> HIDE DEF sent
  <2>3. Writes(ws', sent.written)
    <3>1. CASE ws' = sent.conn
      BY <2>1, <3>1
    <3>2. CASE ws' = [sent.conn EXCEPT !.state = "Closed"]
      <4>1. DOMAIN ws' = DOMAIN sent.conn /\ ws'.closeSent = sent.conn.closeSent /\ ws'.state = "Closed"
        BY <2>1, <3>2 DEF Writes, Conn
      <4>2. Conn(ws')
        BY <2>1, <4>1 DEF Writes, Conn, ClosedOrClosing, WsStates
      <4> QED BY <2>1, <4>1, <4>2 DEF Writes
    <3> QED BY <2>2, <3>1, <3>2
  <2> QED BY <1>c, <2>2, <2>3, WritesKept
<1>9. CASE CloseFrameSeen
  <2> DEFINE ends == wire = <<>> \/ ParseError(Head(wire)) # "none"
             close == ~ends /\ Head(wire).op = "Close"
  <2>1. /\ ws' = [ws EXCEPT !.closeReceived = @ \/ close,
                            !.state = IF ends \/ close THEN "Closed" ELSE @]
        /\ wire' = (IF wire = <<>> THEN wire ELSE Rest(Head(wire)))
        /\ UNCHANGED out
    BY <1>9, Zenon DEF CloseFrameSeen
  <2>2. /\ DOMAIN ws' = DOMAIN ws /\ ws'.closeSent = ws.closeSent
        /\ ws'.state = ws.state \/ ws'.state = "Closed"
    <3> HIDE DEF ends, close
    <3> QED BY <1>c, <2>1 DEF Conn
  <2>3. Conn(ws')
    BY <1>c, <2>2 DEF Conn, ClosedOrClosing, WsStates
  <2>4. wire' \in Seq(PeerFrames)
    BY <1>c, <1>r, <2>1
  <2> QED BY <2>1, <2>2, <2>3, <2>4, SilentKept
<1>10. CASE CloseTimeout
  <2>1. Conn(ws') /\ ws'.closeSent = ws.closeSent
    BY <1>c, <1>s, <1>10 DEF CloseTimeout, Conn
  <2> QED BY <1>c, <1>10, <2>1, SilentKept DEF CloseTimeout
<1>11. CASE UNCHANGED wsVars
  BY <1>c, <1>11, SilentKept DEF wsVars
<1> QED BY <1>1, <1>2, <1>3, <1>4, <1>5, <1>6, <1>7, <1>8, <1>9, <1>10, <1>11 DEF WsNext

\* Whatever the peer sends and whoever writes, reader, writer or closer: one
\* Close at most is written and nothing behind it, every frame fits, and no data
\* frame comes between the fragments of a message (connection.rs).
THEOREM WritesWellFormed == WsSpec => []OutWellFormed
<1>1. WritesInv => OutWellFormed
  BY DEF WritesInv, WellWritten, Follows, FrameFits, OutWellFormed
<1> QED BY <1>1, WritesInitial, WritesSteps, PTL DEF WsSpec
=============================================================================
