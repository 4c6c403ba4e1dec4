------------------------ MODULE ClusterStoreProofs ------------------------
(***************************************************************************)
(* Theorems about ClusterStore, for every cluster, workload and bound.     *)
(***************************************************************************)
EXTENDS ClusterStore, SequenceTheorems, TLAPS

(***************************************************************************)
(* Type correctness.  An actor that is about to send or to apply a message *)
(* has one, and a load knows what it is after.                             *)
(***************************************************************************)
Busy == {"replicate", "apply", "reply"}
Fetching == {"ask", "wait", "apply", "reply"}

HandOK == \A a \in Actor : pc[a] \in Busy => hand[a] \in Msg
WantOK == \A t \in Task : pc[t] \in Fetching => want[t] \in Session
TypeInv == TypeOK /\ HandOK /\ WantOK

(* Every actor runs at a node. *)
LEMMA HomeType == \A a \in Actor : Home(a) \in Node
  BY NodeAssumption, TaskAssumption DEF Actor, Home

(* A message built from well-typed parts is one. *)
LEMMA MessageType ==
  ASSUME NEW type \in {"Save", "Delete", "FetchRequest", "FetchResponse"},
         NEW s \in Session, NEW v \in 0..MaxWrites, NEW n \in Node \cup {NoNode}
  PROVE  Message(type, s, v, n) \in Msg
  BY DEF Message, Msg

(* Sending appends to inboxes and nothing else. *)
LEMMA SentType ==
  ASSUME TypeOK, NEW To, NEW m \in Msg
  PROVE  Sent(To, m) \in [Node -> Seq(Msg)]
  BY DEF Sent, TypeOK

(* Cancelling a place in a queue leaves a queue. *)
LEMMA WithoutType ==
  ASSUME NEW S, NEW q \in Seq(S), NEW a
  PROVE  Without(q, a) \in Seq(S)
<1>1. CASE ~\E i \in 1..Len(q) : q[i] = a
  BY <1>1 DEF Without
<1>2. CASE \E i \in 1..Len(q) : q[i] = a
  <2> DEFINE k == CHOOSE i \in 1..Len(q) : q[i] = a
  <2>1. k \in 1..Len(q)
    BY <1>2
  <2> HIDE DEF k
  <2>2. /\ \A i \in 1..(k - 1) : q[i] \in S
        /\ \A i \in (k + 1)..Len(q) : q[i] \in S
        /\ k - 1 \in Int /\ k + 1 \in Int /\ Len(q) \in Int
    BY <2>1
  <2>3. SubSeq(q, 1, k - 1) \in Seq(S) /\ SubSeq(q, k + 1, Len(q)) \in Seq(S)
    BY <2>2, SubSeqProperties
  <2>4. SubSeq(q, 1, k - 1) \o SubSeq(q, k + 1, Len(q)) \in Seq(S)
    BY <2>3
  <2> QED
    BY <1>2, <2>4 DEF Without, k
<1> QED
  BY <1>1, <1>2

(* One write into a node's store keeps both functions well typed. *)
LEMMA PutType ==
  ASSUME TypeOK, NEW n \in Node, NEW s \in Session, NEW v \in 0..MaxWrites,
         NEW w \in 0..MaxWrites, Put(n, s, v, w)
  PROVE  /\ local' \in [Node -> [Session -> 0..MaxWrites]]
         /\ seen' \in [Node -> [Session -> 0..MaxWrites]]
  BY DEF Put, TypeOK

(* Going round the receive loop keeps an actor's state well typed. *)
LEMMA NextRoundType ==
  ASSUME TypeInv, NEW a \in Actor, pc[a] \in Fetching, NextRound(a)
  PROVE  /\ pc' \in [Actor -> {"off", "idle", "replicate", "ask", "wait",
                               "apply", "reply"}]
         /\ hand' \in [Actor -> Msg \cup {NoMsg}]
         /\ want' \in [Task -> Session \cup {NoSession}]
         /\ waiters' \in [Node -> Seq(Actor)]
         /\ HandOK' /\ WantOK'
<1> USE DEF TypeInv, TypeOK
<1>1. Home(a) \in Node
  BY HomeType
<1>2. hand' \in [Actor -> Msg \cup {NoMsg}]
  BY DEF NextRound
<1>3. CASE a \in Task /\ expired[a]
  <2>1. /\ pc' = [pc EXCEPT ![a] = "idle"]
        /\ hand' = [hand EXCEPT ![a] = NoMsg]
        /\ want' = [want EXCEPT ![a] = NoSession]
        /\ waiters' = waiters
    BY <1>3 DEF NextRound
  <2> QED
    BY <1>2, <1>3, <2>1 DEF HandOK, WantOK, Busy, Fetching
<1>4. CASE ~(a \in Task /\ expired[a])
  <2>1. /\ pc' = [pc EXCEPT ![a] = "wait"]
        /\ hand' = [hand EXCEPT ![a] = NoMsg]
        /\ want' = want
        /\ waiters' = [waiters EXCEPT ![Home(a)] = Append(@, a)]
    BY <1>4 DEF NextRound
  <2>2. waiters' \in [Node -> Seq(Actor)]
    BY <1>1, <2>1
  <2>3. HandOK' /\ WantOK'
    BY <2>1 DEF HandOK, WantOK, Busy, Fetching
  <2> QED
    BY <1>2, <2>1, <2>2, <2>3
<1> QED
  BY <1>3, <1>4

LEMMA InitType == Init => TypeInv
<1> SUFFICES ASSUME Init PROVE TypeInv
  OBVIOUS
<1> USE NodeAssumption, TaskAssumption, BoundAssumption DEF Init
<1>1. 0 \in 0..MaxWrites /\ 0 \in 0..MaxLoads
  OBVIOUS
<1>2. waiters \in [Node -> Seq(Actor)]
  <2> SUFFICES ASSUME NEW n \in Node
               PROVE  (IF n \in Receivers \cap Founders THEN <<n>> ELSE <<>>)
                         \in Seq(Actor)
    OBVIOUS
  <2>1. n \in Receivers => <<n>> \in Seq(Actor)
    BY DEF Actor
  <2>2. <<>> \in Seq(Actor)
    OBVIOUS
  <2> QED
    BY <2>1, <2>2
<1>3. /\ inbox \in [Node -> Seq(Msg)]
      /\ status \in [Node -> {"out", "up", "down"}]
      /\ hand \in [Actor -> Msg \cup {NoMsg}]
      /\ want \in [Task -> Session \cup {NoSession}]
      /\ expired \in [Task -> BOOLEAN]
  OBVIOUS
<1>4. /\ local \in [Node -> [Session -> 0..MaxWrites]]
      /\ seen \in [Node -> [Session -> 0..MaxWrites]]
      /\ owed \in [Node -> [Session -> 0..MaxWrites]]
      /\ stamp \in [Session -> 0..MaxWrites]
      /\ loads \in [Task -> 0..MaxLoads]
  BY <1>1
<1>5. /\ pc \in [Actor -> {"off", "idle", "replicate", "ask", "wait", "apply",
                           "reply"}]
      /\ \A a \in Actor : pc[a] \notin Busy
      /\ \A t \in Task : pc[t] \notin Fetching
  BY DEF Actor, Busy, Fetching
<1> QED
  BY <1>2, <1>3, <1>4, <1>5 DEF TypeInv, TypeOK, HandOK, WantOK

(* No step of any actor leaves the types. *)
LEMMA NextType == TypeInv /\ [Next]_vars => TypeInv'
<1> SUFFICES ASSUME TypeInv, [Next]_vars PROVE TypeInv'
  OBVIOUS
<1> USE NodeAssumption, TaskAssumption, BoundAssumption DEF TypeInv
<1>0. Task \subseteq Actor /\ \A t \in Task : Home(t) = At[t] /\ At[t] \in Node
  BY DEF Actor, Home
<1>1. ASSUME NEW t \in Task, NEW s \in Session, Save(t, s) \/ Delete(t, s)
      PROVE  TypeInv'
  <2>1. PICK type \in {"Save", "Delete"}, v \in {0, stamp[s] + 1} :
           WriteLocal(t, type, s, v)
    BY <1>1 DEF Save, Delete
  <2>2. stamp[s] + 1 \in 0..MaxWrites /\ v \in 0..MaxWrites
    BY <2>1 DEF WriteLocal, TypeOK
  <2>3. Message(type, s, stamp[s] + 1, NoNode) \in Msg
    BY <2>2, MessageType
  <2>4. /\ local' \in [Node -> [Session -> 0..MaxWrites]]
        /\ seen' \in [Node -> [Session -> 0..MaxWrites]]
    BY <1>0, <2>1, <2>2, PutType DEF WriteLocal
  <2> QED
    BY <1>0, <2>1, <2>2, <2>3, <2>4
       DEF WriteLocal, TypeOK, HandOK, WantOK, Busy, Fetching
<1>2. ASSUME NEW t \in Task, NEW s \in Session, Load(t, s)
      PROVE  TypeInv'
  <2>1. loads' \in [Task -> 0..MaxLoads]
    BY <1>2 DEF Load, TypeOK
  <2>2. CASE local[At[t]][s] # 0
    BY <1>0, <1>2, <2>1, <2>2 DEF Load, TypeOK, HandOK, WantOK, Busy, Fetching
  <2>3. CASE local[At[t]][s] = 0
    <3>1. /\ pc' = [pc EXCEPT ![t] = "ask"]
          /\ want' = [want EXCEPT ![t] = s]
          /\ expired' = [expired EXCEPT ![t] = FALSE]
          /\ UNCHANGED <<status, local, inbox, waiters, hand, stamp, seen, owed>>
      BY <1>2, <2>3 DEF Load
    <3> QED
      BY <1>0, <2>1, <3>1 DEF TypeOK, HandOK, WantOK, Busy, Fetching
  <2> QED
    BY <2>2, <2>3
<1>3. ASSUME NEW t \in Task, Replicate(t)
      PROVE  TypeInv'
  <2>1. hand[t] \in Msg /\ hand[t].id \in Session /\ hand[t].ver \in 0..MaxWrites
    BY <1>0, <1>3 DEF Replicate, HandOK, Busy, Msg
  <2>2. inbox' \in [Node -> Seq(Msg)]
    BY <1>3, <2>1, SentType DEF Replicate
  <2>3. owed' \in [Node -> [Session -> 0..MaxWrites]]
    BY <1>3, <2>1 DEF Replicate, TypeOK
  <2> QED
    BY <1>0, <1>3, <2>2, <2>3
       DEF Replicate, TypeOK, HandOK, WantOK, Busy, Fetching
<1>4. ASSUME NEW t \in Task, Ask(t)
      PROVE  TypeInv'
  <2>1. want[t] \in Session
    BY <1>4 DEF Ask, WantOK, Fetching
  <2>2. Message("FetchRequest", want[t], 0, At[t]) \in Msg
    BY <1>0, <2>1, MessageType
  <2>3. inbox' \in [Node -> Seq(Msg)]
    BY <1>4, <2>2, SentType DEF Ask
  <2>4. waiters' \in [Node -> Seq(Actor)]
    BY <1>0, <1>4 DEF Ask, TypeOK
  <2> QED
    BY <1>0, <1>4, <2>1, <2>3, <2>4
       DEF Ask, TypeOK, HandOK, WantOK, Busy, Fetching
<1>5. ASSUME NEW t \in Task, Deadline(t)
      PROVE  TypeInv'
  BY <1>5 DEF Deadline, TypeOK, HandOK, WantOK
<1>6. ASSUME NEW t \in Task, Timeout(t)
      PROVE  TypeInv'
  <2>1. waiters' \in [Node -> Seq(Actor)]
    BY <1>0, <1>6, WithoutType DEF Timeout, TypeOK
  <2> QED
    BY <1>0, <1>6, <2>1 DEF Timeout, TypeOK, HandOK, WantOK, Busy, Fetching
<1>7. ASSUME NEW a \in Actor, Receive(a)
      PROVE  TypeInv'
  <2>1. Home(a) \in Node
    BY HomeType
  <2>2. Head(inbox[Home(a)]) \in Msg /\ Tail(inbox[Home(a)]) \in Seq(Msg)
    BY <1>7, <2>1 DEF Receive, TypeOK
  <2>3. Tail(waiters[Home(a)]) \in Seq(Actor)
    BY <1>7, <2>1 DEF Receive, TypeOK
  <2> QED
    BY <1>0, <1>7, <2>1, <2>2, <2>3
       DEF Receive, TypeOK, HandOK, WantOK, Busy, Fetching
<1>8. ASSUME NEW a \in Actor, ApplyWrite(a)
      PROVE  TypeInv'
  <2>1. /\ hand[a].id \in Session
        /\ hand[a].ver \in 0..MaxWrites
        /\ Stored(hand[a]) \in 0..MaxWrites
    BY <1>8 DEF ApplyWrite, HandOK, Busy, Msg, Stored
  <2>2. /\ local' \in [Node -> [Session -> 0..MaxWrites]]
        /\ seen' \in [Node -> [Session -> 0..MaxWrites]]
    BY <1>8, <2>1, HomeType, PutType DEF ApplyWrite
  <2>3. pc[a] \in Fetching /\ NextRound(a)
    BY <1>8 DEF ApplyWrite, Fetching
  <2> QED
    BY <1>8, <2>2, <2>3, NextRoundType DEF ApplyWrite, TypeOK
<1>9. ASSUME NEW a \in Actor, LookUp(a)
      PROVE  TypeInv'
  <2>1. /\ hand[a].id \in Session
        /\ hand[a].reply_to \in Node \cup {NoNode}
        /\ local[Home(a)][hand[a].id] \in 0..MaxWrites
    BY <1>9, HomeType DEF LookUp, HandOK, Busy, Msg, TypeOK
  <2>2. Message("FetchResponse", hand[a].id, local[Home(a)][hand[a].id],
                hand[a].reply_to) \in Msg
    BY <2>1, MessageType
  <2> QED
    BY <1>9, <2>2 DEF LookUp, TypeOK, HandOK, WantOK, Busy, Fetching
<1>10. ASSUME NEW a \in Actor, Reply(a)
       PROVE  TypeInv'
  <2>1. hand[a] \in Msg /\ pc[a] \in Fetching
    BY <1>10 DEF Reply, HandOK, Busy, Fetching
  <2>2. inbox' \in [Node -> Seq(Msg)]
    BY <1>10, <2>1, SentType DEF Reply
  <2>3. CASE a \in Task /\ hand[a].reply_to \notin Up
    <3>1. /\ hand' = [hand EXCEPT ![a] = NoMsg]
          /\ pc' = [pc EXCEPT ![a] = "idle"]
          /\ want' = [want EXCEPT ![a] = NoSession]
          /\ UNCHANGED <<waiters, status, local, expired, loads, stamp, seen,
                         owed>>
      BY <1>10, <2>3 DEF Reply
    <3> QED
      BY <2>2, <2>3, <3>1 DEF TypeOK, HandOK, WantOK, Busy, Fetching
  <2>4. CASE NextRound(a)
    BY <1>10, <2>1, <2>2, <2>4, NextRoundType DEF Reply, TypeOK
  <2> QED
    BY <1>10, <2>3, <2>4 DEF Reply
<1>11. ASSUME NEW a \in Actor, Cache(a)
       PROVE  TypeInv'
  <2>1. a \in Task /\ hand[a].id \in Session /\ hand[a].ver \in 0..MaxWrites
    BY <1>11 DEF Cache, Answered, HandOK, Busy, Msg
  <2>2. /\ local' \in [Node -> [Session -> 0..MaxWrites]]
        /\ seen' \in [Node -> [Session -> 0..MaxWrites]]
    <3>1. CASE hand[a].ver # 0
      BY <1>0, <1>11, <2>1, <3>1, PutType DEF Cache
    <3>2. CASE hand[a].ver = 0
      BY <1>11, <3>2 DEF Cache, TypeOK
    <3> QED
      BY <3>1, <3>2
  <2>3. /\ pc' = [pc EXCEPT ![a] = "idle"]
        /\ hand' = [hand EXCEPT ![a] = NoMsg]
        /\ want' = [want EXCEPT ![a] = NoSession]
        /\ UNCHANGED <<status, inbox, waiters, expired, loads, stamp, owed>>
    BY <1>11 DEF Cache
  <2>4. TypeOK'
    BY <2>2, <2>3 DEF TypeOK
  <2>5. HandOK' /\ WantOK'
    BY <2>3 DEF TypeOK, HandOK, WantOK, Busy, Fetching
  <2> QED
    BY <2>4, <2>5
<1>12. ASSUME NEW a \in Actor, Drop(a)
       PROVE  TypeInv'
  <2>1. pc[a] \in Fetching /\ NextRound(a)
    BY <1>12 DEF Drop, Fetching
  <2> QED
    BY <1>12, <2>1, NextRoundType DEF Drop, TypeOK
<1>13. ASSUME NEW n \in Node, Join(n)
       PROVE  TypeInv'
  <2>1. waiters' \in [Node -> Seq(Actor)]
    <3>1. CASE n \in Receivers
      <4>1. <<n>> \in Seq(Actor)
        BY <3>1 DEF Actor
      <4> QED
        BY <1>13, <3>1, <4>1 DEF Join, TypeOK
    <3>2. CASE n \notin Receivers
      BY <1>13, <3>2 DEF Join, TypeOK
    <3> QED
      BY <3>1, <3>2
  <2>2. status' \in [Node -> {"out", "up", "down"}]
    BY <1>13 DEF Join, TypeOK
  <2>3. \A a \in Actor : pc'[a] = pc[a] \/ (pc'[a] = "idle" /\ a \in Task)
                                        \/ (pc'[a] = "wait" /\ a \notin Task)
    BY <1>13 DEF Join
  <2>4. pc' \in [Actor -> {"off", "idle", "replicate", "ask", "wait", "apply",
                           "reply"}]
    BY <1>13 DEF Join, TypeOK
  <2> QED
    BY <1>0, <1>13, <2>1, <2>2, <2>3, <2>4
       DEF Join, TypeOK, HandOK, WantOK, Busy, Fetching
<1>14. ASSUME NEW n \in Node, Leave(n)
       PROVE  TypeInv'
  <2>1. waiters' \in [Node -> Seq(Actor)] /\ inbox' \in [Node -> Seq(Msg)]
    BY <1>14 DEF Leave, TypeOK
  <2>2. status' \in [Node -> {"out", "up", "down"}]
    BY <1>14 DEF Leave, TypeOK
  <2> QED
    BY <1>0, <1>14, <2>1, <2>2
       DEF Leave, TypeOK, HandOK, WantOK, Busy, Fetching
<1>15. CASE UNCHANGED vars
  BY <1>15 DEF vars, TypeOK, HandOK, WantOK
<1> QED
  BY <1>1, <1>2, <1>3, <1>4, <1>5, <1>6, <1>7, <1>8, <1>9, <1>10, <1>11, <1>12,
     <1>13, <1>14, <1>15 DEF Next, Consume

(* Every state of the store, its inboxes and its tasks is well typed. *)
THEOREM TypeCorrect == Spec => []TypeOK
<1>1. TypeInv => TypeOK
  BY DEF TypeInv
<1> QED
  BY <1>1, InitType, NextType, PTL DEF Spec

-----------------------------------------------------------------------------
(***************************************************************************)
(* Ordered delivery.  When each session has one writer and nothing but the *)
(* receivers takes from the inboxes, what is queued for a node, what its   *)
(* receiver holds and what its store has seen of a session are in the      *)
(* order of the writes.                                                    *)
(***************************************************************************)
Unsent(t, s) == pc[t] = "replicate" /\ hand[t].id = s

(* Tasks only write; receivers only receive and apply writes. *)
Roles ==
    /\ \A t \in Task : pc[t] \in {"off", "idle", "replicate"}
    /\ \A a \in Receivers : pc[a] \in {"off", "wait", "apply"}
    /\ \A t \in Task : pc[t] = "replicate" =>
          /\ IsWrite(hand[t])
          /\ Writes(t, hand[t].id)
          /\ hand[t].ver = stamp[hand[t].id]

(* m may still be applied at n: n has seen nothing as new, m is not newer  *)
(* than the last write or than a write still to be sent, and it was not    *)
(* written at n.                                                           *)
Due(m, n) ==
    /\ IsWrite(m)
    /\ seen[n][m.id] < m.ver
    /\ m.ver <= stamp[m.id]
    /\ \A t \in Task : Unsent(t, m.id) => m.ver < hand[t].ver
    /\ \A t \in Task : Writes(t, m.id) => At[t] # n

Later(m, k) == m.id = k.id => m.ver < k.ver

InboxOrdered ==
    \A n \in Node : \A i \in 1..Len(inbox[n]) :
        /\ Due(inbox[n][i], n)
        /\ \A j \in 1..Len(inbox[n]) : i < j => Later(inbox[n][i], inbox[n][j])

HandOrdered ==
    \A n \in Receivers : pc[n] = "apply" =>
        /\ Due(hand[n], n)
        /\ \A i \in 1..Len(inbox[n]) : Later(hand[n], inbox[n][i])

SeenBounded ==
    \A n \in Node, s \in Session :
        /\ seen[n][s] <= stamp[s]
        /\ \A t \in Task : (Unsent(t, s) /\ At[t] # n) => seen[n][s] < hand[t].ver

OwedMembers == \A n \in Node, s \in Session : status[n] = "out" => owed[n][s] = 0

OrderInv ==
    /\ TypeInv
    /\ Roles
    /\ InboxOrdered
    /\ HandOrdered
    /\ SeenBounded
    /\ OwedMembers
    /\ AckedReplicated

StepUp == \A n \in Node, s \in Session : seen'[n][s] >= seen[n][s]

(* A queued or held message is a message. *)
LEMMA QueuedType ==
  ASSUME TypeInv
  PROVE  /\ \A n \in Node : \A i \in 1..Len(inbox[n]) : inbox[n][i] \in Msg
         /\ \A n \in Receivers : pc[n] = "apply" => hand[n] \in Msg
         /\ \A m \in Msg : m.id \in Session /\ m.ver \in Nat
         /\ \A s \in Session : stamp[s] \in Nat
         /\ \A n \in Node, s \in Session : seen[n][s] \in Nat /\ owed[n][s] \in Nat
<1>1. \A n \in Node : \A i \in 1..Len(inbox[n]) : inbox[n][i] \in Msg
  BY DEF TypeInv, TypeOK
<1>2. \A n \in Receivers : pc[n] = "apply" => hand[n] \in Msg
  BY DEF TypeInv, HandOK, Busy, Actor
<1>3. \A m \in Msg : m.id \in Session /\ m.ver \in Nat
  BY BoundAssumption DEF Msg
<1> QED
  BY <1>1, <1>2, <1>3, BoundAssumption DEF TypeInv, TypeOK

(* save and delete number their write above every one on its way. *)
LEMMA WriteOrder ==
  ASSUME SingleWriter, OrderInv, TypeInv', NEW t \in Task, NEW s \in Session,
         NEW type \in {"Save", "Delete"}, NEW v, Writes(t, s),
         WriteLocal(t, type, s, v)
  PROVE  OrderInv' /\ StepUp
<1> USE DEF OrderInv
<1>0. /\ t \in Actor /\ At[t] \in Node /\ t \notin Receivers
      /\ \A n \in Receivers : n # t /\ n \in Actor
  BY NodeAssumption, TaskAssumption DEF Actor
<1>1. /\ pc[t] = "idle"
      /\ stamp' = [stamp EXCEPT ![s] = @ + 1]
      /\ seen' = [seen EXCEPT ![At[t]][s] = stamp[s] + 1]
      /\ hand' = [hand EXCEPT ![t] = Message(type, s, stamp[s] + 1, NoNode)]
      /\ pc' = [pc EXCEPT ![t] = "replicate"]
      /\ UNCHANGED <<status, inbox, owed>>
  BY DEF WriteLocal, Put
<1>2. /\ hand'[t].id = s /\ hand'[t].ver = stamp[s] + 1 /\ hand'[t].type = type
      /\ pc'[t] = "replicate"
      /\ \A a \in Actor : a # t => hand'[a] = hand[a] /\ pc'[a] = pc[a]
  BY <1>0, <1>1 DEF TypeInv, TypeOK, Message
<1>3. \A r \in Session : stamp'[r] = IF r = s THEN stamp[s] + 1 ELSE stamp[r]
  BY <1>1 DEF TypeInv, TypeOK
<1>4. \A n \in Node, r \in Session :
         seen'[n][r] = IF n = At[t] /\ r = s THEN stamp[s] + 1 ELSE seen[n][r]
  <2>1. seen \in [Node -> [Session -> 0..MaxWrites]]
    BY DEF TypeInv, TypeOK
  <2>2. seen' = [seen EXCEPT ![At[t]][s] = stamp[s] + 1]
    BY <1>1
  <2> QED
    BY <1>0, <2>1, <2>2
<1>5. \A u \in Task : u # t => ~Unsent(u, s)
  BY DEF Roles, Unsent, SingleWriter
<1>6. \A u \in Task, r \in Session :
         Unsent(u, r)' => (u = t /\ r = s) \/ (u # t /\ r # s /\ Unsent(u, r))
  BY <1>0, <1>2, <1>5 DEF Unsent, Actor
<1>7. \A m \in Msg, n \in Node : Due(m, n) => Due(m, n)'
  <2> SUFFICES ASSUME NEW m \in Msg, NEW n \in Node, Due(m, n)
               PROVE  Due(m, n)'
    OBVIOUS
  <2>1. m.id \in Session /\ m.ver \in Nat /\ stamp[m.id] \in Nat
    BY QueuedType
  <2>2. ~(n = At[t] /\ m.id = s)
    BY DEF Due
  <2>3. seen'[n][m.id] < m.ver /\ m.ver <= stamp'[m.id]
    BY <1>3, <1>4, <2>1, <2>2 DEF Due
  <2>4. \A u \in Task : Unsent(u, m.id)' => m.ver < hand'[u].ver
    BY <1>2, <1>6, <2>1 DEF Due, Actor
  <2> QED
    BY <2>3, <2>4 DEF Due
<1>8. Roles'
  <2>1. \A u \in Task : pc'[u] = "replicate" =>
           IsWrite(hand'[u]) /\ Writes(u, hand'[u].id)
           /\ hand'[u].ver = stamp'[hand'[u].id]
    <3> SUFFICES ASSUME NEW u \in Task, pc'[u] = "replicate"
                 PROVE  /\ IsWrite(hand'[u]) /\ Writes(u, hand'[u].id)
                        /\ hand'[u].ver = stamp'[hand'[u].id]
      OBVIOUS
    <3>1. CASE u = t
      BY <1>2, <1>3, <3>1 DEF IsWrite
    <3>2. CASE u # t
      <4>1. hand'[u] = hand[u] /\ pc[u] = "replicate" /\ hand[u] \in Msg
        BY <1>2, <3>2 DEF Actor, TypeInv, HandOK, Busy
      <4>2. hand[u].id \in Session /\ hand[u].id # s
        BY <1>5, <3>2, <4>1, QueuedType DEF Unsent
      <4> QED
        BY <1>3, <4>1, <4>2 DEF Roles
    <3> QED
      BY <3>1, <3>2
  <2>2. /\ \A u \in Task : pc'[u] \in {"off", "idle", "replicate"}
        /\ \A a \in Receivers : pc'[a] \in {"off", "wait", "apply"}
    BY <1>0, <1>2 DEF Roles, Actor
  <2> QED
    BY <2>1, <2>2 DEF Roles
<1>9. InboxOrdered'
  BY <1>1, <1>7, QueuedType DEF InboxOrdered, Later
<1>10. HandOrdered'
  <2> SUFFICES ASSUME NEW n \in Receivers, pc'[n] = "apply"
               PROVE  /\ Due(hand[n], n)'
                      /\ \A i \in 1..Len(inbox[n]) : Later(hand[n], inbox[n][i])
    BY <1>0, <1>1, <1>2 DEF HandOrdered, Later
  <2>1. pc[n] = "apply" /\ hand[n] \in Msg /\ n \in Node /\ hand'[n] = hand[n]
    BY <1>0, <1>2, QueuedType, NodeAssumption
  <2> QED
    BY <1>7, <2>1 DEF HandOrdered, Due
<1>11. SeenBounded'
  <2> SUFFICES ASSUME NEW n \in Node, NEW r \in Session
               PROVE  /\ seen'[n][r] <= stamp'[r]
                      /\ \A u \in Task : (Unsent(u, r)' /\ At[u] # n)
                                            => seen'[n][r] < hand'[u].ver
    BY DEF SeenBounded
  <2>1. stamp[r] \in Nat /\ stamp[s] \in Nat /\ seen[n][r] \in Nat
    BY QueuedType
  <2> QED
    BY <1>2, <1>3, <1>4, <1>6, <2>1 DEF SeenBounded, Actor
<1>12. OwedMembers'
  BY <1>1 DEF OwedMembers
<1>13. StepUp
  <2>1. \A n \in Node, r \in Session :
           seen[n][r] \in Nat /\ stamp[r] \in Nat /\ seen[n][r] <= stamp[r]
    BY QueuedType DEF SeenBounded
  <2> QED
    BY <1>4, <2>1 DEF StepUp
<1>14. AckedReplicated'
  <2> SUFFICES ASSUME NEW n \in Up', NEW r \in Session, seen'[n][r] < owed'[n][r]
               PROVE  Coming(n, r, owed[n][r])'
    BY <1>1 DEF AckedReplicated
  <2>1. n \in Up /\ n \in Node
    BY <1>1 DEF Up
  <2>2. seen[n][r] < owed[n][r]
    <3>1. seen'[n][r] \in Nat
      BY <2>1, BoundAssumption DEF TypeInv, TypeOK
    <3> QED
      BY <1>1, <1>13, <2>1, <3>1, QueuedType DEF StepUp
  <2>3. Coming(n, r, owed[n][r])
    BY <2>1, <2>2 DEF AckedReplicated
  <2>4. \A a \in Actor : pc[a] = "apply" => pc'[a] = "apply" /\ hand'[a] = hand[a]
    BY <1>1, <1>2
  <2> QED
    BY <1>1, <2>3, <2>4 DEF Coming
<1> QED
  BY <1>8, <1>9, <1>10, <1>11, <1>12, <1>13, <1>14

(* replicate appends, to inboxes elsewhere, the newest write of its session. *)
LEMMA ReplicateOrder ==
  ASSUME SingleWriter, OrderInv, TypeInv', NEW t \in Task, Replicate(t)
  PROVE  OrderInv' /\ StepUp
<1> USE DEF OrderInv
<1> DEFINE To == Peers(At[t]) \cap Up
<1>0. /\ t \in Actor /\ At[t] \in Node /\ t \notin Receivers
      /\ \A n \in Receivers : n # t /\ n \in Actor
  BY NodeAssumption, TaskAssumption DEF Actor
<1>m. PICK m \in Msg : m = hand[t]
  BY <1>0 DEF TypeInv, HandOK, Busy, Replicate
<1>1. /\ pc[t] = "replicate"
      /\ inbox' = Sent(Peers(At[t]), m)
      /\ owed' = [n \in Node |-> IF n \in To
                    THEN [owed[n] EXCEPT ![m.id] = m.ver] ELSE owed[n]]
      /\ pc' = [pc EXCEPT ![t] = "idle"]
      /\ hand' = [hand EXCEPT ![t] = NoMsg]
      /\ UNCHANGED <<status, stamp, seen>>
  BY <1>m DEF Replicate
<1>2. /\ m \in Msg /\ m.id \in Session /\ m.ver \in Nat
      /\ IsWrite(m) /\ Writes(t, m.id) /\ m.ver = stamp[m.id]
  BY <1>m, <1>1, QueuedType DEF Roles
<1>3. /\ pc'[t] = "idle"
      /\ \A a \in Actor : a # t => hand'[a] = hand[a] /\ pc'[a] = pc[a]
  BY <1>0, <1>1 DEF TypeInv, TypeOK
<1>4. At[t] \notin To
  BY <1>0, ModeAssumption DEF Peers
<1>5. \A u \in Task, r \in Session :
         Unsent(u, r)' => u # t /\ r # m.id /\ Unsent(u, r)
  BY <1>m, <1>1, <1>2, <1>3 DEF Unsent, Actor, Roles, SingleWriter
<1>6. \A k \in Msg, n \in Node : Due(k, n) => Due(k, n)'
  BY <1>1, <1>3, <1>5, QueuedType DEF Due, Actor
<1>7. \A n \in Node : n \in To => Due(m, n)'
  <2> SUFFICES ASSUME NEW n \in Node, n \in To PROVE Due(m, n)'
    OBVIOUS
  <2>1. seen'[n][m.id] < m.ver
    BY <1>m, <1>1, <1>2, <1>4 DEF SeenBounded, Unsent
  <2>2. \A u \in Task : ~Unsent(u, m.id)'
    BY <1>2, <1>5
  <2>3. \A u \in Task : Writes(u, m.id) => At[u] # n
    BY <1>2, <1>4 DEF SingleWriter
  <2>4. m.ver <= stamp'[m.id]
    BY <1>1, <1>2
  <2> QED
    BY <1>2, <2>1, <2>2, <2>3, <2>4 DEF Due
<1>8. \A n \in Node :
         /\ inbox[n] \in Seq(Msg)
         /\ inbox'[n] = IF n \in To THEN Append(inbox[n], m) ELSE inbox[n]
  BY <1>1 DEF Sent, TypeInv, TypeOK
<1>17. \A n \in Node : n \in To =>
         /\ Len(inbox[n]) \in Nat
         /\ Len(inbox'[n]) = Len(inbox[n]) + 1
         /\ inbox'[n][Len(inbox[n]) + 1] = m
         /\ \A j \in 1..Len(inbox[n]) : inbox'[n][j] = inbox[n][j]
  <2> SUFFICES ASSUME NEW n \in Node, n \in To
               PROVE  /\ Len(inbox[n]) \in Nat
                      /\ Len(inbox'[n]) = Len(inbox[n]) + 1
                      /\ inbox'[n][Len(inbox[n]) + 1] = m
                      /\ \A j \in 1..Len(inbox[n]) : inbox'[n][j] = inbox[n][j]
    OBVIOUS
  <2>1. inbox[n] \in Seq(Msg) /\ inbox'[n] = Append(inbox[n], m)
    BY <1>8
  <2> QED
    BY <2>1, AppendProperties
<1>18. \A n \in Node : n \notin To => inbox'[n] = inbox[n]
  BY <1>8
<1> HIDE DEF To
<1>9. \A n \in Node, k \in Msg : n \in To /\ Due(k, n) => Later(k, m)
  BY <1>m, <1>1, <1>2 DEF Due, Later, Unsent
<1>10. Roles'
  <2> SUFFICES ASSUME NEW u \in Task, pc'[u] = "replicate"
               PROVE  /\ IsWrite(hand'[u]) /\ Writes(u, hand'[u].id)
                      /\ hand'[u].ver = stamp'[hand'[u].id]
    BY <1>0, <1>3 DEF Roles, Actor
  <2>1. u # t /\ hand'[u] = hand[u] /\ pc[u] = "replicate"
    BY <1>3 DEF Actor
  <2> QED
    BY <1>1, <2>1 DEF Roles
<1>11. InboxOrdered'
  <2>1. ASSUME NEW n \in Node, NEW i \in 1..Len(inbox'[n])
        PROVE  /\ \A k \in Msg : k = inbox'[n][i] => Due(k, n)'
               /\ inbox'[n][i] \in Msg
               /\ \A j \in 1..Len(inbox'[n]) :
                     i < j => Later(inbox'[n][i], inbox'[n][j])
    <3>1. \A j \in 1..Len(inbox[n]) :
             /\ inbox[n][j] \in Msg
             /\ \A k \in Msg : k = inbox[n][j] => Due(k, n) /\ Due(k, n)'
      BY <1>6, QueuedType DEF InboxOrdered
    <3>2. CASE n \notin To
      <4>1. inbox'[n] = inbox[n]
        BY <1>8, <3>2
      <4> QED
        BY <3>1, <4>1 DEF InboxOrdered
    <3>3. CASE n \in To
      <4>1. /\ Len(inbox[n]) \in Nat
            /\ Len(inbox'[n]) = Len(inbox[n]) + 1
            /\ inbox'[n][Len(inbox[n]) + 1] = m
            /\ \A j \in 1..Len(inbox[n]) : inbox'[n][j] = inbox[n][j]
        BY <1>17, <3>3
      <4>2. CASE i = Len(inbox[n]) + 1
        <5>1. inbox'[n][i] = m /\ ~\E j \in 1..Len(inbox'[n]) : i < j
          BY <4>1, <4>2
        <5> QED
          BY <1>2, <1>7, <3>3, <5>1
      <4>3. CASE i \in 1..Len(inbox[n])
        <5>1. inbox'[n][i] = inbox[n][i]
          BY <4>1, <4>3
        <5>2. ASSUME NEW j \in 1..Len(inbox'[n]), i < j
              PROVE  Later(inbox[n][i], inbox'[n][j])
          <6>1. CASE j = Len(inbox[n]) + 1
            BY <1>9, <3>1, <3>3, <4>1, <4>3, <6>1
          <6>2. CASE j \in 1..Len(inbox[n])
            BY <4>1, <4>3, <5>2, <6>2 DEF InboxOrdered
          <6> QED
            BY <4>1, <6>1, <6>2
        <5> QED
          BY <3>1, <4>3, <5>1, <5>2
      <4> QED
        BY <4>1, <4>2, <4>3
    <3> QED
      BY <3>2, <3>3
  <2> QED
    BY <2>1 DEF InboxOrdered, Due, Later, Unsent
<1>12. HandOrdered'
  <2>1. ASSUME NEW n \in Receivers, pc'[n] = "apply"
        PROVE  /\ \A k \in Msg : k = hand'[n] => Due(k, n)'
               /\ hand'[n] \in Msg
               /\ \A i \in 1..Len(inbox'[n]) : Later(hand'[n], inbox'[n][i])
    <3>1. pc[n] = "apply" /\ hand[n] \in Msg /\ n \in Node /\ hand'[n] = hand[n]
      BY <1>0, <1>3, <2>1, QueuedType, NodeAssumption
    <3>2. \A k \in Msg : k = hand[n] => Due(k, n) /\ Due(k, n)'
      BY <1>6, <3>1 DEF HandOrdered
    <3>3. \A i \in 1..Len(inbox[n]) : Later(hand[n], inbox[n][i])
      BY <3>1 DEF HandOrdered
    <3>4. CASE n \notin To
      <4>1. inbox'[n] = inbox[n]
        BY <1>8, <3>1, <3>4
      <4> QED
        BY <3>1, <3>2, <3>3, <4>1
    <3>5. CASE n \in To
      <4>1. /\ Len(inbox[n]) \in Nat
            /\ Len(inbox'[n]) = Len(inbox[n]) + 1
            /\ inbox'[n][Len(inbox[n]) + 1] = m
            /\ \A j \in 1..Len(inbox[n]) : inbox'[n][j] = inbox[n][j]
        BY <1>17, <3>1, <3>5
      <4>2. Later(hand[n], m)
        BY <1>9, <3>1, <3>2, <3>5
      <4>3. \A i \in 1..Len(inbox'[n]) : Later(hand[n], inbox'[n][i])
        BY <3>3, <4>1, <4>2
      <4> QED
        BY <3>1, <3>2, <4>3
    <3> QED
      BY <3>4, <3>5
  <2> QED
    BY <2>1 DEF HandOrdered, Due, Later, Unsent
<1>13. SeenBounded'
  BY <1>1, <1>3, <1>5 DEF SeenBounded, Actor
<1>14. OwedMembers'
  BY <1>1 DEF OwedMembers, Up, To
<1>15. StepUp
  BY <1>1, QueuedType DEF StepUp
<1>16. AckedReplicated'
  <2> SUFFICES ASSUME NEW n \in Up', NEW r \in Session, seen'[n][r] < owed'[n][r]
               PROVE  Coming(n, r, owed[n][r])'
    BY DEF AckedReplicated
  <2>1. n \in Up /\ n \in Node
    BY <1>1 DEF Up
  <2>2. CASE n \in To /\ r = m.id
    <3>1. owed'[n][r] = m.ver
      BY <1>1, <1>2, <2>1, <2>2 DEF TypeInv, TypeOK
    <3>2. /\ Len(inbox'[n]) = Len(inbox[n]) + 1
          /\ inbox'[n][Len(inbox[n]) + 1] = m
          /\ Len(inbox[n]) \in Nat
      BY <1>17, <2>1, <2>2
    <3>3. Carries(inbox'[n][Len(inbox[n]) + 1], r, owed'[n][r])
      BY <1>2, <2>2, <3>1, <3>2 DEF Carries
    <3> QED
      BY <3>2, <3>3 DEF Coming
  <2>3. CASE ~(n \in To /\ r = m.id)
    <3>1. owed'[n][r] = owed[n][r]
      BY <1>1, <1>2, <2>1, <2>3 DEF TypeInv, TypeOK
    <3>2. Coming(n, r, owed[n][r])
      BY <1>1, <2>1, <3>1 DEF AckedReplicated
    <3>3. /\ \A i \in 1..Len(inbox[n]) :
                i \in 1..Len(inbox'[n]) /\ inbox'[n][i] = inbox[n][i]
          /\ \A a \in Actor : pc[a] = "apply" =>
                pc'[a] = "apply" /\ hand'[a] = hand[a]
      <4>1. \A i \in 1..Len(inbox[n]) :
               i \in 1..Len(inbox'[n]) /\ inbox'[n][i] = inbox[n][i]
        BY <1>17, <1>18, <2>1
      <4>2. \A a \in Actor : pc[a] = "apply" =>
               pc'[a] = "apply" /\ hand'[a] = hand[a]
        BY <1>1, <1>3
      <4> QED
        BY <4>1, <4>2
    <3> QED
      BY <3>1, <3>2, <3>3 DEF Coming
  <2> QED
    BY <2>2, <2>3
<1> QED
  BY <1>10, <1>11, <1>12, <1>13, <1>14, <1>15, <1>16

(* receive moves the oldest message from the inbox to the receiver's hand. *)
LEMMA ReceiveOrder ==
  ASSUME OrderInv, TypeInv', NEW n \in Receivers, Receive(n)
  PROVE  OrderInv' /\ StepUp
<1> USE DEF OrderInv
<1>0. /\ n \in Actor /\ n \in Node /\ Home(n) = n /\ n \notin Task
      /\ \A t \in Task : t \in Actor /\ t # n
  BY NodeAssumption, TaskAssumption DEF Actor, Home
<1>1. /\ inbox[n] # <<>> /\ inbox[n] \in Seq(Msg)
      /\ hand' = [hand EXCEPT ![n] = Head(inbox[n])]
      /\ inbox' = [inbox EXCEPT ![n] = Tail(@)]
      /\ pc' = [pc EXCEPT ![n] = "apply"]
      /\ UNCHANGED <<status, stamp, seen, owed>>
  BY <1>0 DEF Receive, TypeInv, TypeOK
<1>2. /\ hand'[n] = inbox[n][1] /\ pc'[n] = "apply"
      /\ \A a \in Actor : a # n => hand'[a] = hand[a] /\ pc'[a] = pc[a]
  BY <1>0, <1>1 DEF TypeInv, TypeOK
<1>3. /\ Len(inbox[n]) \in Nat /\ Len(inbox[n]) >= 1
      /\ Len(inbox'[n]) = Len(inbox[n]) - 1
      /\ \A i \in 1..Len(inbox'[n]) : inbox'[n][i] = inbox[n][i + 1]
      /\ \A k \in Node : k # n => inbox'[k] = inbox[k]
  <2>1. inbox'[n] = Tail(inbox[n]) /\ \A k \in Node : k # n => inbox'[k] = inbox[k]
    BY <1>0, <1>1 DEF TypeInv, TypeOK
  <2>2. /\ Len(Tail(inbox[n])) = Len(inbox[n]) - 1
        /\ \A i \in 1..Len(Tail(inbox[n])) : Tail(inbox[n])[i] = inbox[n][i + 1]
    BY <1>1, HeadTailProperties
  <2>3. Len(inbox[n]) \in Nat /\ Len(inbox[n]) >= 1
    BY <1>1
  <2> QED
    BY <2>1, <2>2, <2>3
<1>4. \A t \in Task : hand'[t] = hand[t] /\ pc'[t] = pc[t]
  BY <1>0, <1>2
<1>5. \A m \in Msg, k \in Node : Due(m, k) => Due(m, k)'
  BY <1>1, <1>4 DEF Due, Unsent
<1>6. Roles'
  BY <1>0, <1>1, <1>2, <1>4 DEF Roles, Actor
<1>7. \A i \in 1..Len(inbox[n]) :
         /\ inbox[n][i] \in Msg
         /\ \A m \in Msg : m = inbox[n][i] => Due(m, n)'
  BY <1>0, <1>5, QueuedType DEF InboxOrdered
<1>8. InboxOrdered'
  <2>1. ASSUME NEW k \in Node, NEW i \in 1..Len(inbox'[k])
        PROVE  /\ \A m \in Msg : m = inbox'[k][i] => Due(m, k)'
               /\ inbox'[k][i] \in Msg
               /\ \A j \in 1..Len(inbox'[k]) :
                     i < j => Later(inbox'[k][i], inbox'[k][j])
    <3>1. CASE k # n
      <4>1. inbox'[k] = inbox[k]
        BY <1>3, <3>1
      <4> QED
        BY <1>5, <4>1, QueuedType DEF InboxOrdered
    <3>2. CASE k = n
      <4>1. i + 1 \in 1..Len(inbox[n]) /\ inbox'[n][i] = inbox[n][i + 1]
        BY <1>3, <3>2
      <4>2. ASSUME NEW j \in 1..Len(inbox'[n]), i < j
            PROVE  Later(inbox[n][i + 1], inbox'[n][j])
        <5>1. /\ j + 1 \in 1..Len(inbox[n]) /\ inbox'[n][j] = inbox[n][j + 1]
              /\ i + 1 < j + 1
          BY <1>3, <3>2, <4>2
        <5> QED
          BY <1>0, <4>1, <5>1 DEF InboxOrdered
      <4> QED
        BY <1>7, <3>2, <4>1, <4>2
    <3> QED
      BY <3>1, <3>2
  <2> QED
    BY <2>1 DEF InboxOrdered, Due, Later, Unsent
<1>9. HandOrdered'
  <2>1. ASSUME NEW k \in Receivers, pc'[k] = "apply"
        PROVE  /\ \A m \in Msg : m = hand'[k] => Due(m, k)'
               /\ hand'[k] \in Msg
               /\ \A i \in 1..Len(inbox'[k]) : Later(hand'[k], inbox'[k][i])
    <3>1. CASE k # n
      <4>1. /\ pc[k] = "apply" /\ hand'[k] = hand[k] /\ k \in Node
            /\ inbox'[k] = inbox[k] /\ hand[k] \in Msg
        BY <1>2, <1>3, <2>1, <3>1, NodeAssumption, QueuedType DEF Actor
      <4> QED
        BY <1>5, <4>1 DEF HandOrdered
    <3>2. CASE k = n
      <4>1. 1 \in 1..Len(inbox[n]) /\ hand'[n] = inbox[n][1]
        BY <1>2, <1>3
      <4>2. ASSUME NEW i \in 1..Len(inbox'[n])
            PROVE  Later(inbox[n][1], inbox'[n][i])
        <5>1. /\ i + 1 \in 1..Len(inbox[n]) /\ inbox'[n][i] = inbox[n][i + 1]
              /\ 1 < i + 1
          BY <1>3
        <5> QED
          BY <1>0, <4>1, <5>1 DEF InboxOrdered
      <4> QED
        BY <1>7, <3>2, <4>1, <4>2
    <3> QED
      BY <3>1, <3>2
  <2> QED
    BY <2>1 DEF HandOrdered, Due, Later, Unsent
<1>10. SeenBounded' /\ OwedMembers' /\ StepUp
  BY <1>1, <1>4, QueuedType DEF SeenBounded, OwedMembers, StepUp, Unsent
<1>11. AckedReplicated'
  <2> SUFFICES ASSUME NEW k \in Up', NEW r \in Session, seen'[k][r] < owed'[k][r]
               PROVE  Coming(k, r, owed[k][r])'
    BY DEF AckedReplicated
  <2>1. k \in Up /\ k \in Node /\ owed'[k][r] = owed[k][r]
    BY <1>1 DEF Up
  <2>2. Coming(k, r, owed[k][r])
    BY <1>1, <2>1 DEF AckedReplicated
  <2>3. CASE \E i \in 1..Len(inbox[k]) : Carries(inbox[k][i], r, owed[k][r])
    <3>1. PICK i \in 1..Len(inbox[k]) : Carries(inbox[k][i], r, owed[k][r])
      BY <2>3
    <3>2. CASE k # n
      BY <1>3, <2>1, <3>1, <3>2 DEF Coming
    <3>3. CASE k = n /\ i = 1
      BY <1>0, <1>2, <2>1, <3>1, <3>3 DEF Coming
    <3>4. CASE k = n /\ i # 1
      <4>1. /\ i - 1 \in 1..Len(inbox'[k])
            /\ inbox'[k][i - 1] = inbox[k][i]
        BY <1>3, <3>1, <3>4
      <4> QED
        BY <2>1, <3>1, <4>1 DEF Coming
    <3> QED
      BY <3>2, <3>3, <3>4
  <2>4. CASE \E a \in Actor : Home(a) = k /\ pc[a] = "apply"
                              /\ Carries(hand[a], r, owed[k][r])
    <3>1. PICK a \in Actor : Home(a) = k /\ pc[a] = "apply"
                             /\ Carries(hand[a], r, owed[k][r])
      BY <2>4
    <3>2. a # n
      BY <3>1 DEF Receive
    <3>3. pc'[a] = "apply" /\ hand'[a] = hand[a]
      BY <1>2, <3>1, <3>2
    <3> QED
      BY <2>1, <3>1, <3>3 DEF Coming
  <2> QED
    BY <2>2, <2>3, <2>4 DEF Coming
<1> QED
  BY <1>6, <1>8, <1>9, <1>10, <1>11

(* apply_incoming stores a write newer than what the node has seen. *)
LEMMA ApplyOrder ==
  ASSUME OrderInv, TypeInv', NEW n \in Receivers, ApplyWrite(n)
  PROVE  OrderInv' /\ StepUp
<1> USE DEF OrderInv
<1>0. /\ n \in Actor /\ n \in Node /\ Home(n) = n /\ n \notin Task
      /\ \A t \in Task : t \in Actor /\ t # n
  BY NodeAssumption, TaskAssumption DEF Actor, Home
<1>m. PICK m \in Msg : m = hand[n]
  BY QueuedType DEF ApplyWrite
<1>1. /\ pc[n] = "apply"
      /\ seen' = [seen EXCEPT ![n][m.id] = m.ver]
      /\ hand' = [hand EXCEPT ![n] = NoMsg]
      /\ pc' = [pc EXCEPT ![n] = "wait"]
      /\ UNCHANGED <<status, inbox, stamp, owed>>
  BY <1>0, <1>m DEF ApplyWrite, NextRound, Put
<1>2. /\ pc'[n] = "wait"
      /\ \A a \in Actor : a # n => hand'[a] = hand[a] /\ pc'[a] = pc[a]
  BY <1>0, <1>1 DEF TypeInv, TypeOK
<1>3. m.id \in Session /\ m.ver \in Nat /\ Due(m, n)
  BY <1>m, <1>1, QueuedType DEF HandOrdered
<1>4. \A k \in Node, r \in Session :
         seen'[k][r] = IF k = n /\ r = m.id THEN m.ver ELSE seen[k][r]
  <2>1. seen \in [Node -> [Session -> 0..MaxWrites]]
    BY DEF TypeInv, TypeOK
  <2>2. seen' = [seen EXCEPT ![n][m.id] = m.ver]
    BY <1>1
  <2> QED
    BY <1>0, <1>3, <2>1, <2>2
<1>5. \A t \in Task : hand'[t] = hand[t] /\ pc'[t] = pc[t]
  BY <1>0, <1>2
<1>6. \A k \in Msg, d \in Node :
         Due(k, d) /\ (d = n => Later(m, k)) => Due(k, d)'
  <2> SUFFICES ASSUME NEW k \in Msg, NEW d \in Node, Due(k, d),
                      d = n => Later(m, k)
               PROVE  Due(k, d)'
    OBVIOUS
  <2>1. k.id \in Session /\ k.ver \in Nat
    BY QueuedType
  <2>2. seen'[d][k.id] < k.ver
    BY <1>4, <2>1 DEF Due, Later
  <2> QED
    BY <1>1, <1>5, <2>2 DEF Due, Unsent
<1>7. \A i \in 1..Len(inbox[n]) : Later(m, inbox[n][i])
  BY <1>m, <1>1 DEF HandOrdered
<1>8. Roles'
  BY <1>0, <1>1, <1>2, <1>5 DEF Roles, Actor
<1>9. InboxOrdered'
  <2>1. ASSUME NEW k \in Node, NEW i \in 1..Len(inbox[k])
        PROVE  inbox[k][i] \in Msg
               /\ \A j \in Msg : j = inbox[k][i] => Due(j, k)'
    BY <1>6, <1>7, QueuedType DEF InboxOrdered
  <2> QED
    BY <1>1, <2>1 DEF InboxOrdered, Due, Later, Unsent
<1>10. HandOrdered'
  <2>1. ASSUME NEW k \in Receivers, pc'[k] = "apply"
        PROVE  /\ \A j \in Msg : j = hand'[k] => Due(j, k)'
               /\ hand'[k] \in Msg
               /\ \A i \in 1..Len(inbox'[k]) : Later(hand'[k], inbox'[k][i])
    <3>1. k # n
      BY <1>2, <2>1
    <3>2. /\ pc[k] = "apply" /\ hand'[k] = hand[k] /\ k \in Node
          /\ hand[k] \in Msg
      BY <1>2, <2>1, <3>1, NodeAssumption, QueuedType DEF Actor
    <3> QED
      BY <1>1, <1>6, <3>1, <3>2 DEF HandOrdered
  <2> QED
    BY <2>1 DEF HandOrdered, Due, Later, Unsent
<1>11. SeenBounded'
  BY <1>1, <1>3, <1>4, <1>5 DEF SeenBounded, Due, Unsent
<1>12. OwedMembers'
  BY <1>1 DEF OwedMembers
<1>13. StepUp
  <2>1. seen[n][m.id] < m.ver
    BY <1>3 DEF Due
  <2> QED
    BY <1>3, <1>4, <2>1, QueuedType DEF StepUp
<1>14. AckedReplicated'
  <2> SUFFICES ASSUME NEW k \in Up', NEW r \in Session, seen'[k][r] < owed'[k][r]
               PROVE  Coming(k, r, owed[k][r])'
    BY DEF AckedReplicated
  <2>1. k \in Up /\ k \in Node /\ owed'[k][r] = owed[k][r]
    BY <1>1 DEF Up
  <2>2. seen[k][r] < owed[k][r]
    <3>1. seen'[k][r] \in Nat
      BY <2>1, BoundAssumption DEF TypeInv, TypeOK
    <3> QED
      BY <1>13, <2>1, <3>1, QueuedType DEF StepUp
  <2>3. Coming(k, r, owed[k][r])
    BY <2>1, <2>2 DEF AckedReplicated
  <2>4. CASE \E i \in 1..Len(inbox[k]) : Carries(inbox[k][i], r, owed[k][r])
    BY <1>1, <2>1, <2>4 DEF Coming
  <2>5. CASE \E a \in Actor : Home(a) = k /\ pc[a] = "apply"
                              /\ Carries(hand[a], r, owed[k][r])
    <3>1. PICK a \in Actor : Home(a) = k /\ pc[a] = "apply"
                             /\ Carries(hand[a], r, owed[k][r])
      BY <2>5
    <3>2. a # n
      <4> SUFFICES ASSUME a = n PROVE FALSE
        OBVIOUS
      <4>1. k = n /\ r = m.id /\ m.ver >= owed[k][r]
        BY <1>0, <1>m, <3>1 DEF Carries
      <4>2. seen'[k][r] = m.ver
        BY <1>4, <2>1, <4>1
      <4> QED
        BY <1>3, <2>1, <4>1, <4>2, QueuedType
    <3>3. pc'[a] = "apply" /\ hand'[a] = hand[a]
      BY <1>2, <3>1, <3>2
    <3> QED
      BY <2>1, <3>1, <3>3 DEF Coming
  <2> QED
    BY <2>3, <2>4, <2>5 DEF Coming
<1> QED
  BY <1>8, <1>9, <1>10, <1>11, <1>12, <1>13, <1>14

(* Nodes that join start empty; what leaves with a node is not owed to it. *)
LEMMA MembershipOrder ==
  ASSUME OrderInv, TypeInv', NEW n \in Node, Join(n) \/ Leave(n)
  PROVE  OrderInv' /\ StepUp
<1> USE DEF OrderInv
<1>0. /\ \A t \in Task : t \in Actor
      /\ \A r \in Receivers : r \in Actor /\ r \in Node /\ r \notin Task
                              /\ Home(r) = r
  BY NodeAssumption, TaskAssumption DEF Actor, Home
<1>1. /\ UNCHANGED <<stamp, seen, owed>>
      /\ \A a \in Actor : /\ pc'[a] = "apply" => pc[a] = "apply" /\ hand'[a] = hand[a]
                          /\ pc'[a] = "replicate" =>
                                pc[a] = "replicate" /\ hand'[a] = hand[a]
      /\ \A k \in Node : inbox'[k] = inbox[k] \/ inbox'[k] = <<>>
  <2>1. inbox \in [Node -> Seq(Msg)]
    BY DEF TypeInv, TypeOK
  <2>2. CASE Join(n)
    BY <2>2 DEF Join
  <2>3. CASE Leave(n)
    BY <2>1, <2>3 DEF Leave
  <2> QED
    BY <2>2, <2>3
<1>2. \A t \in Task, s \in Session : Unsent(t, s)' => Unsent(t, s) /\ hand'[t] = hand[t]
  BY <1>0, <1>1 DEF Unsent
<1>3. \A m \in Msg, k \in Node : Due(m, k) => Due(m, k)'
  BY <1>1, <1>2, QueuedType DEF Due
<1>4. Roles'
  <2>1. /\ \A t \in Task : pc'[t] \in {"off", "idle", "replicate"}
        /\ \A a \in Receivers : pc'[a] \in {"off", "wait", "apply"}
    BY <1>0 DEF Join, Leave, Roles
  <2> QED
    BY <1>0, <1>1, <2>1 DEF Roles
<1>5. InboxOrdered'
  <2>1. ASSUME NEW k \in Node, NEW i \in 1..Len(inbox'[k])
        PROVE  /\ \A m \in Msg : m = inbox'[k][i] => Due(m, k)'
               /\ inbox'[k][i] \in Msg
               /\ \A j \in 1..Len(inbox'[k]) :
                     i < j => Later(inbox'[k][i], inbox'[k][j])
    <3>1. inbox'[k] = inbox[k]
      BY <1>1, <2>1
    <3> QED
      BY <1>3, <3>1, QueuedType DEF InboxOrdered
  <2> QED
    BY <2>1 DEF InboxOrdered, Due, Later, Unsent
<1>6. HandOrdered'
  <2>1. ASSUME NEW k \in Receivers, pc'[k] = "apply"
        PROVE  /\ \A j \in Msg : j = hand'[k] => Due(j, k)'
               /\ hand'[k] \in Msg
               /\ \A i \in 1..Len(inbox'[k]) : Later(hand'[k], inbox'[k][i])
    <3>1. pc[k] = "apply" /\ hand'[k] = hand[k] /\ k \in Node /\ hand[k] \in Msg
      BY <1>0, <1>1, <2>1, QueuedType
    <3>2. CASE inbox'[k] = inbox[k]
      BY <1>3, <3>1, <3>2 DEF HandOrdered
    <3>3. CASE inbox'[k] = <<>>
      BY <1>3, <3>1, <3>3 DEF HandOrdered
    <3> QED
      BY <1>1, <3>1, <3>2, <3>3
  <2> QED
    BY <2>1 DEF HandOrdered, Due, Later, Unsent
<1>7. SeenBounded' /\ StepUp
  BY <1>1, <1>2, QueuedType DEF SeenBounded, StepUp
<1>8. OwedMembers'
  BY <1>1 DEF OwedMembers, Join, Leave, TypeInv, TypeOK
<1>9. AckedReplicated'
  <2> SUFFICES ASSUME NEW k \in Up', NEW r \in Session, seen'[k][r] < owed'[k][r]
               PROVE  Coming(k, r, owed[k][r])'
    BY DEF AckedReplicated
  <2>1. k \in Node /\ status'[k] = "up"
    BY DEF Up
  <2>2. status[k] # "out"
    BY <1>1, <2>1, QueuedType DEF OwedMembers
  <2>3. status[k] = "up"
    BY <2>1, <2>2 DEF Join, Leave, TypeInv, TypeOK
  <2>4. Coming(k, r, owed[k][r])
    BY <1>1, <2>1, <2>3 DEF AckedReplicated, Up
  <2>5. /\ inbox'[k] = inbox[k]
        /\ \A a \in Actor : Home(a) = k /\ pc[a] = "apply" =>
                               pc'[a] = "apply" /\ hand'[a] = hand[a]
    <3>1. inbox \in [Node -> Seq(Msg)] /\ status \in [Node -> {"out", "up", "down"}]
      BY DEF TypeInv, TypeOK
    <3>2. CASE Join(n)
      <4>1. k # n
        BY <2>3, <3>2 DEF Join
      <4> QED
        BY <3>2, <4>1 DEF Join
    <3>3. CASE Leave(n)
      <4>1. k # n
        BY <2>1, <3>1, <3>3 DEF Leave
      <4> QED
        BY <2>1, <3>1, <3>3, <4>1 DEF Leave
    <3> QED
      BY <3>2, <3>3
  <2> QED
    BY <1>1, <2>4, <2>5 DEF Coming
<1> QED
  BY <1>4, <1>5, <1>6, <1>7, <1>8, <1>9

LEMMA InitOrder == Init => OrderInv
<1> SUFFICES ASSUME Init PROVE OrderInv
  OBVIOUS
<1>1. TypeInv
  BY InitType
<1>2. Roles
  BY NodeAssumption, TaskAssumption DEF Init, Roles, Actor
<1>3. InboxOrdered
  <2>1. \A n \in Node : Len(inbox[n]) = 0
    BY DEF Init
  <2> QED
    BY <2>1 DEF InboxOrdered
<1>4. HandOrdered
  BY NodeAssumption, TaskAssumption DEF Init, HandOrdered, Actor
<1>5. SeenBounded
  BY TaskAssumption DEF Init, SeenBounded, Unsent, Actor
<1>6. OwedMembers /\ AckedReplicated
  BY DEF Init, OwedMembers, AckedReplicated, Up
<1> QED
  BY <1>1, <1>2, <1>3, <1>4, <1>5, <1>6 DEF OrderInv

(* Under Roles and HandOrdered, only receivers take from the inboxes, and  *)
(* only writes.                                                            *)
LEMMA OnlyReceivers ==
  ASSUME OrderInv, NEW a \in Actor, Consume(a)
  PROVE  a \in Receivers /\ (Receive(a) \/ ApplyWrite(a))
<1>1. pc[a] \in {"wait", "apply", "reply"}
  BY DEF Consume, Receive, ApplyWrite, LookUp, Reply, Cache, Drop
<1>2. a \in Receivers
  BY <1>1 DEF OrderInv, Roles, Actor
<1>3. pc[a] # "reply" /\ (pc[a] = "apply" => IsWrite(hand[a]))
  BY <1>2 DEF OrderInv, Roles, HandOrdered, Due
<1> QED
  BY <1>2, <1>3 DEF Consume, LookUp, Reply, Cache, Drop, IsWrite

(* Every step keeps the order, and moves no node's view of a session back. *)
LEMMA NextOrder ==
  ASSUME SingleWriter, NoLoads
  PROVE  OrderInv /\ [Next]_vars => OrderInv' /\ StepUp
<1> SUFFICES ASSUME OrderInv, [Next]_vars PROVE OrderInv' /\ StepUp
  OBVIOUS
<1>1. TypeInv'
  BY NextType DEF OrderInv
<1>2. ASSUME NEW t \in Task, NEW s \in Session, Save(t, s)
      PROVE  OrderInv' /\ StepUp
  BY <1>1, <1>2, WriteOrder DEF Save, Writes
<1>3. ASSUME NEW t \in Task, NEW s \in Session, Delete(t, s)
      PROVE  OrderInv' /\ StepUp
  BY <1>1, <1>3, WriteOrder DEF Delete, Writes
<1>4. ASSUME NEW t \in Task, Replicate(t)
      PROVE  OrderInv' /\ StepUp
  BY <1>1, <1>4, ReplicateOrder
<1>5. ASSUME NEW a \in Actor, Consume(a)
      PROVE  OrderInv' /\ StepUp
  BY <1>1, <1>5, OnlyReceivers, ReceiveOrder, ApplyOrder
<1>6. ASSUME NEW n \in Node, Join(n) \/ Leave(n)
      PROVE  OrderInv' /\ StepUp
  BY <1>1, <1>6, MembershipOrder
<1>7. ASSUME NEW t \in Task, NEW s \in Session, Load(t, s)
      PROVE  FALSE
  BY <1>7 DEF Load, NoLoads
<1>8. ASSUME NEW t \in Task, Ask(t) \/ Deadline(t) \/ Timeout(t)
      PROVE  FALSE
  BY <1>8 DEF Ask, Deadline, Timeout, OrderInv, Roles
<1>9. CASE UNCHANGED vars
  <2>0. /\ status' = status /\ inbox' = inbox /\ pc' = pc /\ hand' = hand
        /\ stamp' = stamp /\ seen' = seen /\ owed' = owed
    BY <1>9 DEF vars
  <2>a. Roles' /\ SeenBounded' /\ OwedMembers'
    BY <2>0 DEF OrderInv, Roles, SeenBounded, OwedMembers, Unsent
  <2>b. InboxOrdered' /\ HandOrdered'
    BY <2>0 DEF OrderInv, InboxOrdered, HandOrdered, Due, Unsent, Later
  <2>c. AckedReplicated'
    BY <2>0 DEF OrderInv, AckedReplicated, Coming, Up
  <2>1. OrderInv'
    BY <1>1, <2>a, <2>b, <2>c DEF OrderInv
  <2>2. StepUp
    BY <1>9, QueuedType DEF OrderInv, vars, StepUp
  <2> QED
    BY <2>1, <2>2
<1> QED
  BY <1>2, <1>3, <1>4, <1>5, <1>6, <1>7, <1>8, <1>9 DEF Next

(* With one writer per session and no fetches under way, a save or delete  *)
(* that returned Ok is applied at, or still on its way to, every live peer *)
(* it was due to: broadcast, send_to, receive and apply_incoming lose      *)
(* nothing, through joins and shutdowns, for any cluster and workload.     *)
THEOREM AckedWritesReplicated ==
  ASSUME SingleWriter, NoLoads
  PROVE  Spec => []AckedReplicated
<1>1. OrderInv => AckedReplicated
  BY DEF OrderInv
<1>2. OrderInv /\ [Next]_vars => OrderInv'
  BY NextOrder
<1> QED
  BY <1>1, <1>2, InitOrder, PTL DEF Spec

(* Under the same conditions no node's copy of a session ever goes back to *)
(* an earlier write: run_receiver applies writes in the order they were    *)
(* made.                                                                   *)
THEOREM ReplicasNeverRegress ==
  ASSUME SingleWriter, NoLoads
  PROVE  Spec => NoRegress
<1>1. OrderInv /\ [Next]_vars => OrderInv' /\ [StepUp]_vars
  BY NextOrder
<1> QED
  BY <1>1, InitOrder, PTL DEF Spec, NoRegress, StepUp

-----------------------------------------------------------------------------
(***************************************************************************)
(* Convergence.  Under the conditions of ordered delivery, whoever has     *)
(* seen the last write of a session, and whatever still carries it, holds  *)
(* what the writer's own node holds.                                       *)
(***************************************************************************)
Current(m) ==
    \A t \in Task : (IsWrite(m) /\ Writes(t, m.id) /\ m.ver = stamp[m.id])
                        => Stored(m) = local[At[t]][m.id]

SourceLatest ==
    \A t \in Task, s \in Session : Writes(t, s) => seen[At[t]][s] = stamp[s]
SeenCopies ==
    \A n \in Node, s \in Session, t \in Task :
        (Writes(t, s) /\ seen[n][s] = stamp[s]) => local[n][s] = local[At[t]][s]
InboxCurrent == \A n \in Node : \A i \in 1..Len(inbox[n]) : Current(inbox[n][i])
HandCurrent ==
    /\ \A n \in Receivers : pc[n] = "apply" => Current(hand[n])
    /\ \A t \in Task : pc[t] = "replicate" => Current(hand[t])

CopyInv == SourceLatest /\ SeenCopies /\ InboxCurrent /\ HandCurrent

LEMMA InitCopies == Init => CopyInv
<1> SUFFICES ASSUME Init PROVE CopyInv
  OBVIOUS
<1>1. SourceLatest /\ SeenCopies
  BY TaskAssumption DEF Init, SourceLatest, SeenCopies
<1>2. InboxCurrent
  <2>1. \A n \in Node : Len(inbox[n]) = 0
    BY DEF Init
  <2> QED
    BY <2>1 DEF InboxCurrent
<1>3. HandCurrent
  BY NodeAssumption, TaskAssumption DEF Init, HandCurrent, Actor
<1> QED
  BY <1>1, <1>2, <1>3 DEF CopyInv

(* save and delete change what the session's own node holds: everything on *)
(* its way is older from now on, and the new message carries the change.   *)
LEMMA WriteCopies ==
  ASSUME SingleWriter, OrderInv, CopyInv, NEW t \in Task, NEW s \in Session,
         NEW type \in {"Save", "Delete"},
         NEW v, v = IF type = "Save" THEN stamp[s] + 1 ELSE 0,
         Writes(t, s), WriteLocal(t, type, s, v)
  PROVE  CopyInv'
<1> USE DEF CopyInv
<1>0. /\ t \in Actor /\ At[t] \in Node /\ t \notin Receivers
      /\ \A n \in Receivers : n # t /\ n \in Actor
      /\ \A u \in Task : u \in Actor /\ At[u] \in Node
  BY NodeAssumption, TaskAssumption DEF Actor
<1>1. TypeInv /\ SeenBounded /\ InboxOrdered /\ HandOrdered /\ Roles
  BY DEF OrderInv
<1>2. PICK m \in Msg : /\ m = Message(type, s, stamp[s] + 1, NoNode)
                       /\ m.type = type /\ m.id = s /\ m.ver = stamp[s] + 1
  <2>1. stamp[s] + 1 \in 0..MaxWrites
    BY <1>1, BoundAssumption DEF WriteLocal, TypeInv, TypeOK
  <2>2. Message(type, s, stamp[s] + 1, NoNode) \in Msg
    BY <2>1, MessageType
  <2>3. /\ Message(type, s, stamp[s] + 1, NoNode).type = type
        /\ Message(type, s, stamp[s] + 1, NoNode).id = s
        /\ Message(type, s, stamp[s] + 1, NoNode).ver = stamp[s] + 1
    BY DEF Message
  <2> QED
    BY <2>2, <2>3
<1>3. /\ inbox' = inbox
      /\ hand'[t] = m /\ pc'[t] = "replicate"
      /\ \A a \in Actor : a # t => hand'[a] = hand[a] /\ pc'[a] = pc[a]
  BY <1>0, <1>1, <1>2 DEF WriteLocal, TypeInv, TypeOK
<1>4. \A r \in Session : stamp'[r] = IF r = s THEN stamp[s] + 1 ELSE stamp[r]
  BY <1>1 DEF WriteLocal, TypeInv, TypeOK
<1>5. \A n \in Node, r \in Session :
         /\ local'[n][r] = IF n = At[t] /\ r = s THEN v ELSE local[n][r]
         /\ seen'[n][r] = IF n = At[t] /\ r = s THEN stamp[s] + 1 ELSE seen[n][r]
  <2>1. /\ local' = [local EXCEPT ![At[t]][s] = v]
        /\ seen' = [seen EXCEPT ![At[t]][s] = stamp[s] + 1]
    BY DEF WriteLocal, Put
  <2>2. /\ local \in [Node -> [Session -> 0..MaxWrites]]
        /\ seen \in [Node -> [Session -> 0..MaxWrites]]
    BY <1>1 DEF TypeInv, TypeOK
  <2> QED
    BY <1>0, <2>1, <2>2
<1>6. \A u \in Task : Writes(u, s) => u = t
  BY DEF SingleWriter
<1>7. \A r \in Session : stamp[r] \in Nat
  BY <1>1, QueuedType
<1>8. \A k \in Msg : Current(k) /\ (IsWrite(k) => k.ver <= stamp[k.id])
                        => Current(k)'
  <2> SUFFICES ASSUME NEW k \in Msg, Current(k), IsWrite(k), k.ver <= stamp[k.id],
                      NEW u \in Task, Writes(u, k.id), k.ver = stamp'[k.id]
               PROVE  Stored(k) = local'[At[u]][k.id]
    BY DEF Current, IsWrite, Stored
  <2>1. k.id \in Session /\ k.ver \in Nat
    BY <1>1, QueuedType
  <2>2. k.id # s
    BY <1>4, <1>7, <2>1
  <2> QED
    BY <1>0, <1>4, <1>5, <2>1, <2>2 DEF Current
<1>9. Current(m)'
  <2>1. Stored(m) = v
    BY <1>2 DEF Stored
  <2>2. local'[At[t]][s] = v
    BY <1>0, <1>5
  <2> QED
    BY <1>2, <1>6, <2>1, <2>2 DEF Current, Stored
<1>10. SourceLatest'
  BY <1>0, <1>4, <1>5, <1>6 DEF SourceLatest
<1>11. SeenCopies'
  <2> SUFFICES ASSUME NEW n \in Node, NEW r \in Session, NEW u \in Task,
                      Writes(u, r), seen'[n][r] = stamp'[r]
               PROVE  local'[n][r] = local'[At[u]][r]
    BY DEF SeenCopies
  <2>1. CASE r = s
    <3>1. u = t
      BY <1>6, <2>1
    <3>2. n = At[t]
      <4>1. seen[n][s] \in Nat /\ seen[n][s] <= stamp[s]
        BY <1>1, QueuedType DEF SeenBounded
      <4> QED
        BY <1>4, <1>5, <1>7, <2>1, <4>1
    <3> QED
      BY <3>1, <3>2
  <2>2. CASE r # s
    BY <1>0, <1>4, <1>5, <2>2 DEF SeenCopies
  <2> QED
    BY <2>1, <2>2
<1>12. InboxCurrent'
  <2> SUFFICES ASSUME NEW n \in Node, NEW i \in 1..Len(inbox[n])
               PROVE  Current(inbox[n][i])'
    BY <1>3 DEF InboxCurrent
  <2>1. PICK k \in Msg : k = inbox[n][i]
    BY <1>1, QueuedType
  <2>2. Current(k) /\ k.ver <= stamp[k.id]
    BY <1>1, <2>1 DEF InboxCurrent, InboxOrdered, Due
  <2>3. Current(k)'
    BY <1>8, <2>2
  <2> QED
    BY <1>3, <2>1, <2>3
<1>13. HandCurrent'
  <2>1. ASSUME NEW n \in Receivers, pc'[n] = "apply"
        PROVE  Current(hand[n])'
    <3>1. pc[n] = "apply" /\ hand'[n] = hand[n]
      BY <1>0, <1>3, <2>1
    <3>2. PICK k \in Msg : k = hand[n]
      BY <1>1, <3>1, QueuedType
    <3>3. Current(k) /\ k.ver <= stamp[k.id]
      BY <1>1, <3>1, <3>2 DEF HandCurrent, HandOrdered, Due
    <3>4. Current(k)'
      BY <1>8, <3>3
    <3> QED
      BY <3>1, <3>2, <3>4
  <2>2. ASSUME NEW u \in Task, pc'[u] = "replicate"
        PROVE  Current(hand[u])'
    <3>1. CASE u = t
      BY <1>3, <1>9, <3>1
    <3>2. CASE u # t
      <4>1. pc[u] = "replicate" /\ hand'[u] = hand[u]
        BY <1>0, <1>3, <2>2, <3>2
      <4>2. PICK k \in Msg : k = hand[u]
        BY <1>0, <1>1, <4>1 DEF TypeInv, HandOK, Busy
      <4>3. k.ver = stamp[k.id] /\ k.id \in Session
        BY <1>1, <4>1, <4>2, QueuedType DEF Roles
      <4>4. Current(k)'
        BY <1>7, <1>8, <4>1, <4>2, <4>3 DEF HandCurrent
      <4> QED
        BY <4>1, <4>2, <4>4
    <3> QED
      BY <3>1, <3>2
  <2> QED
    BY <2>1, <2>2 DEF HandCurrent
<1> QED
  BY <1>10, <1>11, <1>12, <1>13

(* replicate sends what it holds. *)
LEMMA ReplicateCopies ==
  ASSUME OrderInv, CopyInv, NEW t \in Task, Replicate(t)
  PROVE  CopyInv'
<1> USE DEF CopyInv
<1>0. t \in Actor /\ \A u \in Task : u \in Actor
  BY DEF Actor
<1>1. TypeInv
  BY DEF OrderInv
<1>2. /\ pc[t] = "replicate" /\ pc'[t] = "idle"
      /\ local' = local /\ seen' = seen /\ stamp' = stamp
      /\ \A a \in Actor : a # t => hand'[a] = hand[a] /\ pc'[a] = pc[a]
  BY <1>0, <1>1 DEF Replicate, TypeInv, TypeOK
<1>3. Current(hand[t])
  BY <1>2 DEF HandCurrent
<1>4. SourceLatest' /\ SeenCopies'
  BY <1>2 DEF SourceLatest, SeenCopies
<1>5. InboxCurrent'
  <2> SUFFICES ASSUME NEW n \in Node, NEW i \in 1..Len(inbox'[n])
               PROVE  Current(inbox[n][i])'
    BY DEF InboxCurrent
  <2>1. inbox[n] \in Seq(Msg) /\ hand[t] \in Msg
    BY <1>0, <1>1, <1>2 DEF TypeInv, TypeOK, HandOK, Busy
  <2>2. \/ inbox'[n] = inbox[n]
        \/ inbox'[n] = Append(inbox[n], hand[t])
    BY DEF Replicate, Sent
  <2>3. inbox'[n][i] = hand[t]
          \/ (i \in 1..Len(inbox[n]) /\ inbox'[n][i] = inbox[n][i])
    BY <2>1, <2>2, AppendProperties
  <2> QED
    BY <1>2, <1>3, <2>3 DEF InboxCurrent, Current
<1>6. HandCurrent'
  BY <1>0, <1>2, NodeAssumption, TaskAssumption DEF HandCurrent, Current, Actor
<1> QED
  BY <1>4, <1>5, <1>6

(* receive takes what was sent. *)
LEMMA ReceiveCopies ==
  ASSUME OrderInv, CopyInv, NEW n \in Receivers, Receive(n)
  PROVE  CopyInv'
<1> USE DEF CopyInv
<1>0. n \in Actor /\ n \in Node /\ Home(n) = n /\ n \notin Task
      /\ \A a \in Task \cup Receivers : a \in Actor
  BY NodeAssumption, TaskAssumption DEF Actor, Home
<1>1. TypeInv
  BY DEF OrderInv
<1>2. /\ inbox[n] # <<>> /\ inbox[n] \in Seq(Msg)
      /\ hand'[n] = inbox[n][1] /\ inbox'[n] = Tail(inbox[n])
      /\ pc'[n] = "apply"
      /\ local' = local /\ seen' = seen /\ stamp' = stamp
      /\ \A k \in Node : k # n => inbox'[k] = inbox[k]
      /\ \A a \in Actor : a # n => hand'[a] = hand[a] /\ pc'[a] = pc[a]
  BY <1>0, <1>1 DEF Receive, TypeInv, TypeOK
<1>3. /\ 1 \in 1..Len(inbox[n])
      /\ \A i \in 1..Len(inbox'[n]) : /\ i + 1 \in 1..Len(inbox[n])
                                      /\ inbox'[n][i] = inbox[n][i + 1]
  BY <1>2, HeadTailProperties, EmptySeq
<1>4. SourceLatest' /\ SeenCopies'
  BY <1>2 DEF SourceLatest, SeenCopies
<1>5. InboxCurrent'
  <2> SUFFICES ASSUME NEW k \in Node, NEW i \in 1..Len(inbox'[k])
               PROVE  Current(inbox[k][i])'
    BY DEF InboxCurrent
  <2>1. PICK j \in 1..Len(inbox[k]) : inbox'[k][i] = inbox[k][j]
    <3>1. CASE k = n
      BY <1>3, <3>1
    <3>2. CASE k # n
      <4>1. inbox'[k] = inbox[k]
        BY <1>2, <3>2
      <4> QED
        BY <4>1
    <3> QED
      BY <3>1, <3>2
  <2> QED
    BY <1>2, <2>1 DEF InboxCurrent, Current
<1>6. HandCurrent'
  <2>1. Current(inbox[n][1])
    BY <1>0, <1>3 DEF InboxCurrent
  <2> QED
    BY <1>0, <1>2, <2>1 DEF HandCurrent, Current
<1> QED
  BY <1>4, <1>5, <1>6

(* apply_incoming stores what was sent, never at the writer's own node. *)
LEMMA ApplyCopies ==
  ASSUME OrderInv, CopyInv, NEW n \in Receivers, ApplyWrite(n)
  PROVE  CopyInv'
<1> USE DEF CopyInv
<1>0. /\ n \in Actor /\ n \in Node /\ Home(n) = n /\ n \notin Task
      /\ \A a \in Task \cup Receivers : a \in Actor
      /\ \A u \in Task : At[u] \in Node
  BY NodeAssumption, TaskAssumption DEF Actor, Home
<1>1. TypeInv
  BY DEF OrderInv
<1>m. PICK m \in Msg : m = hand[n]
  BY <1>1, QueuedType DEF ApplyWrite
<1>2. m.id \in Session /\ m.ver \in Nat /\ Due(m, n) /\ Current(m) /\ IsWrite(m)
  BY <1>1, <1>m, QueuedType DEF ApplyWrite, OrderInv, HandOrdered, HandCurrent
<1>3. \A u \in Task : Writes(u, m.id) => At[u] # n
  BY <1>2 DEF Due
<1>4. /\ pc'[n] = "wait" /\ inbox' = inbox /\ stamp' = stamp
      /\ \A a \in Actor : a # n => hand'[a] = hand[a] /\ pc'[a] = pc[a]
  BY <1>0, <1>1 DEF ApplyWrite, NextRound, TypeInv, TypeOK
<1>5. \A k \in Node, r \in Session :
         /\ local'[k][r] = IF k = n /\ r = m.id THEN Stored(m) ELSE local[k][r]
         /\ seen'[k][r] = IF k = n /\ r = m.id THEN m.ver ELSE seen[k][r]
  <2>1. /\ local' = [local EXCEPT ![n][m.id] = Stored(m)]
        /\ seen' = [seen EXCEPT ![n][m.id] = m.ver]
    BY <1>0, <1>m DEF ApplyWrite, Put
  <2>2. /\ local \in [Node -> [Session -> 0..MaxWrites]]
        /\ seen \in [Node -> [Session -> 0..MaxWrites]]
    BY <1>1 DEF TypeInv, TypeOK
  <2> QED
    BY <1>0, <1>2, <2>1, <2>2
<1>6. \A u \in Task, r \in Session : Writes(u, r) =>
         /\ local'[At[u]][r] = local[At[u]][r]
         /\ seen'[At[u]][r] = seen[At[u]][r]
  BY <1>0, <1>3, <1>5
<1>7. SourceLatest'
  BY <1>4, <1>6 DEF SourceLatest
<1>8. SeenCopies'
  <2> SUFFICES ASSUME NEW k \in Node, NEW r \in Session, NEW u \in Task,
                      Writes(u, r), seen'[k][r] = stamp[r]
               PROVE  local'[k][r] = local[At[u]][r]
    BY <1>4, <1>6 DEF SeenCopies
  <2>1. CASE k = n /\ r = m.id
    <3>1. m.ver = stamp[m.id] /\ local'[k][r] = Stored(m)
      BY <1>2, <1>5, <2>1
    <3> QED
      BY <1>2, <2>1, <3>1 DEF Current
  <2>2. CASE ~(k = n /\ r = m.id)
    BY <1>5, <2>2 DEF SeenCopies
  <2> QED
    BY <2>1, <2>2
<1>9. \A k \in Msg : Current(k) => Current(k)'
  <2> SUFFICES ASSUME NEW k \in Msg, Current(k), IsWrite(k), NEW u \in Task,
                      Writes(u, k.id), k.ver = stamp[k.id]
               PROVE  Stored(k) = local'[At[u]][k.id]
    BY <1>4 DEF Current, IsWrite, Stored
  <2>1. k.id \in Session
    BY <1>1, QueuedType
  <2> QED
    BY <1>6, <2>1 DEF Current
<1>10. InboxCurrent'
  <2> SUFFICES ASSUME NEW k \in Node, NEW i \in 1..Len(inbox[k])
               PROVE  Current(inbox[k][i])'
    BY <1>4 DEF InboxCurrent
  <2>1. PICK x \in Msg : x = inbox[k][i]
    BY <1>1, QueuedType
  <2>2. Current(x)'
    BY <1>9, <2>1 DEF InboxCurrent
  <2> QED
    BY <1>4, <2>1, <2>2
<1>11. HandCurrent'
  <2> SUFFICES ASSUME NEW a \in Actor, a # n, Current(hand[a]), hand[a] \in Msg
               PROVE  Current(hand[a])'
    <3>1. \A u \in Task : pc[u] = "replicate" => hand[u] \in Msg
      BY <1>0, <1>1 DEF TypeInv, HandOK, Busy
    <3>2. \A k \in Receivers : pc[k] = "apply" => hand[k] \in Msg
      BY <1>1, QueuedType
    <3> QED
      BY <1>0, <1>4, <3>1, <3>2 DEF HandCurrent
  <2>1. PICK x \in Msg : x = hand[a]
    OBVIOUS
  <2>2. Current(x)'
    BY <1>9, <2>1
  <2> QED
    BY <1>4, <2>1, <2>2
<1> QED
  BY <1>7, <1>8, <1>10, <1>11

(* Joins and shutdowns write to no store. *)
LEMMA MembershipCopies ==
  ASSUME OrderInv, CopyInv, NEW n \in Node, Join(n) \/ Leave(n)
  PROVE  CopyInv'
<1> USE DEF CopyInv
<1>0. \A a \in Task \cup Receivers : a \in Actor
  BY DEF Actor
<1>1. /\ local' = local /\ seen' = seen /\ stamp' = stamp
      /\ \A k \in Node : inbox'[k] = inbox[k] \/ inbox'[k] = <<>>
      /\ \A a \in Actor : pc'[a] \in {"apply", "replicate"} =>
                             pc'[a] = pc[a] /\ hand'[a] = hand[a]
  <2>1. inbox \in [Node -> Seq(Msg)]
    BY DEF OrderInv, TypeInv, TypeOK
  <2>2. CASE Join(n)
    BY <2>2 DEF Join
  <2>3. CASE Leave(n)
    BY <2>1, <2>3 DEF Leave
  <2> QED
    BY <2>2, <2>3
<1>2. SourceLatest' /\ SeenCopies'
  BY <1>1 DEF SourceLatest, SeenCopies
<1>3. InboxCurrent'
  BY <1>1 DEF InboxCurrent, Current
<1>4. HandCurrent'
  BY <1>0, <1>1 DEF HandCurrent, Current
<1> QED
  BY <1>2, <1>3, <1>4

LEMMA NextCopies ==
  ASSUME SingleWriter, NoLoads
  PROVE  OrderInv /\ CopyInv /\ [Next]_vars => CopyInv'
<1> SUFFICES ASSUME OrderInv, CopyInv, [Next]_vars PROVE CopyInv'
  OBVIOUS
<1>1. ASSUME NEW t \in Task, NEW s \in Session, Save(t, s)
      PROVE  CopyInv'
  BY <1>1, WriteCopies DEF Save, Writes
<1>2. ASSUME NEW t \in Task, NEW s \in Session, Delete(t, s)
      PROVE  CopyInv'
  BY <1>2, WriteCopies DEF Delete, Writes
<1>3. ASSUME NEW t \in Task, Replicate(t)
      PROVE  CopyInv'
  BY <1>3, ReplicateCopies
<1>4. ASSUME NEW a \in Actor, Consume(a)
      PROVE  CopyInv'
  BY <1>4, OnlyReceivers, ReceiveCopies, ApplyCopies
<1>5. ASSUME NEW n \in Node, Join(n) \/ Leave(n)
      PROVE  CopyInv'
  BY <1>5, MembershipCopies
<1>6. ASSUME NEW t \in Task, NEW s \in Session, Load(t, s)
      PROVE  FALSE
  BY <1>6 DEF Load, NoLoads
<1>7. ASSUME NEW t \in Task, Ask(t) \/ Deadline(t) \/ Timeout(t)
      PROVE  FALSE
  BY <1>7 DEF Ask, Deadline, Timeout, OrderInv, Roles
<1>8. CASE UNCHANGED vars
  BY <1>8 DEF vars, CopyInv, SourceLatest, SeenCopies, InboxCurrent, HandCurrent,
              Current
<1> QED
  BY <1>1, <1>2, <1>3, <1>4, <1>5, <1>6, <1>7, <1>8 DEF Next

LEMMA CopiesConverge ==
  ASSUME OrderInv, CopyInv
  PROVE  Converged
<1> SUFFICES ASSUME Quiescent, NEW o \in Ops, NEW n \in Peers(At[o[1]]) \cap Up,
                    o[2] # "load", owed[n][o[3]] = stamp[o[3]]
             PROVE  local[n][o[3]] = local[At[o[1]]][o[3]]
  BY DEF Converged
<1>1. PICK t \in Task, s \in Session : t = o[1] /\ s = o[3]
  BY TaskAssumption
<1>2. Writes(t, s)
  <2>1. o = <<o[1], o[2], o[3]>> /\ o[2] \in {"save", "delete"}
    BY TaskAssumption
  <2> QED
    BY <1>1, <2>1 DEF Writes
<1>3. n \in Node /\ n \in Up
  BY DEF Up
<1>4. ~Coming(n, s, owed[n][s])
  BY <1>3 DEF Quiescent, Coming, Carries
<1>5. ~(seen[n][s] < owed[n][s])
  BY <1>3, <1>4 DEF OrderInv, AckedReplicated
<1>6. seen[n][s] <= stamp[s]
  BY <1>3 DEF OrderInv, SeenBounded
<1>7. seen[n][s] \in Nat /\ stamp[s] \in Nat
  BY <1>3, QueuedType DEF OrderInv
<1>8. seen[n][s] = stamp[s]
  BY <1>1, <1>5, <1>6, <1>7
<1> QED
  BY <1>1, <1>2, <1>3, <1>8 DEF CopyInv, SeenCopies

(* "Each node converges to holding every session": with one writer per     *)
(* session and no fetches, once everything sent has been handled every     *)
(* live peer that was due a session's last write holds exactly what the    *)
(* writer's node holds, a deletion included, for any cluster and workload, *)
(* through joins and shutdowns.                                            *)
THEOREM ReplicasConverge ==
  ASSUME SingleWriter, NoLoads
  PROVE  Spec => []Converged
<1>1. Init => OrderInv /\ CopyInv
  BY InitOrder, InitCopies
<1>2. OrderInv /\ CopyInv /\ [Next]_vars => (OrderInv /\ CopyInv)'
  BY NextOrder, NextCopies
<1>3. OrderInv /\ CopyInv => Converged
  BY CopiesConverge
<1> QED
  BY <1>1, <1>2, <1>3, PTL DEF Spec

-----------------------------------------------------------------------------
(***************************************************************************)
(* The inbox mutex.  A queue of actors stands for a set of them: everyone  *)
(* in the set has one place, and nobody else has any.                      *)
(***************************************************************************)
Queues(q, S) ==
    /\ \A i, j \in 1..Len(q) : q[i] = q[j] => i = j
    /\ \A i \in 1..Len(q) : q[i] \in S
    /\ \A a \in S : \E i \in 1..Len(q) : q[i] = a

Waiting(n) == {a \in Actor : Home(a) = n /\ pc[a] = "wait"}

QueuesKept == \A n \in Node : Queues(waiters[n], Waiting(n))

(* An empty queue is nobody's, a queue of one is his. *)
LEMMA FirstQueues ==
  /\ Queues(<<>>, {})
  /\ \A a : Queues(<<a>>, {a})
<1>1. Queues(<<>>, {})
  BY DEF Queues
<1>2. ASSUME NEW a PROVE Queues(<<a>>, {a})
  BY DEF Queues
<1> QED
  BY <1>1, <1>2

(* A newcomer joins the end of the queue. *)
LEMMA JoinQueues ==
  ASSUME NEW q \in Seq(Actor), NEW S, NEW a \in Actor, Queues(q, S), a \notin S
  PROVE  Queues(Append(q, a), S \cup {a})
<1> DEFINE r == Append(q, a)
<1>1. /\ Len(q) \in Nat /\ Len(r) = Len(q) + 1 /\ r[Len(q) + 1] = a
      /\ \A i \in 1..Len(q) : r[i] = q[i]
  BY AppendProperties
<1> HIDE DEF r
<1>2. ASSUME NEW i \in 1..Len(r), NEW j \in 1..Len(r), r[i] = r[j]
      PROVE  i = j
  <2>1. i \in 1..Len(q) \/ i = Len(q) + 1
    BY <1>1
  <2>2. j \in 1..Len(q) \/ j = Len(q) + 1
    BY <1>1
  <2> QED
    BY <1>1, <1>2, <2>1, <2>2 DEF Queues
<1>3. ASSUME NEW i \in 1..Len(r)
      PROVE  r[i] \in S \cup {a}
  <2>1. i \in 1..Len(q) \/ i = Len(q) + 1
    BY <1>1
  <2> QED
    BY <1>1, <2>1 DEF Queues
<1>4. ASSUME NEW b \in S \cup {a}
      PROVE  \E i \in 1..Len(r) : r[i] = b
  <2>1. CASE b = a
    <3>1. Len(q) + 1 \in 1..Len(r)
      BY <1>1
    <3> QED
      BY <1>1, <2>1, <3>1
  <2>2. CASE b \in S
    <3>1. PICK i \in 1..Len(q) : q[i] = b
      BY <2>2 DEF Queues
    <3>2. i \in 1..Len(r)
      BY <1>1
    <3> QED
      BY <1>1, <3>1, <3>2
  <2> QED
    BY <2>1, <2>2
<1>5. Queues(r, S \cup {a})
  BY <1>2, <1>3, <1>4 DEF Queues
<1> QED
  BY <1>5 DEF r

(* The first in the queue leaves it. *)
LEMMA ServeQueues ==
  ASSUME NEW q \in Seq(Actor), NEW S, Queues(q, S), q # <<>>
  PROVE  Queues(Tail(q), S \ {Head(q)})
<1> DEFINE r == Tail(q)
<1>1. /\ Len(q) \in Nat /\ Len(q) >= 1 /\ Len(r) = Len(q) - 1
      /\ Head(q) = q[1]
      /\ \A i \in 1..Len(r) : r[i] = q[i + 1]
  BY HeadTailProperties, EmptySeq
<1> HIDE DEF r
<1>2. \A i \in 1..Len(r) : i + 1 \in 1..Len(q) /\ i + 1 # 1
  BY <1>1
<1>3. ASSUME NEW i \in 1..Len(r), NEW j \in 1..Len(r), r[i] = r[j]
      PROVE  i = j
  <2>1. i + 1 = j + 1
    BY <1>1, <1>2, <1>3 DEF Queues
  <2> QED
    BY <2>1
<1>4. ASSUME NEW i \in 1..Len(r)
      PROVE  r[i] \in S \ {q[1]}
  <2>1. 1 \in 1..Len(q)
    BY <1>1
  <2> QED
    BY <1>1, <1>2, <2>1 DEF Queues
<1>5. ASSUME NEW b \in S \ {q[1]}
      PROVE  \E i \in 1..Len(r) : r[i] = b
  <2>1. PICK i \in 1..Len(q) : q[i] = b
    BY DEF Queues
  <2>2. i - 1 \in 1..Len(r) /\ (i - 1) + 1 = i
    BY <1>1, <2>1
  <2>3. r[i - 1] = b
    BY <1>1, <2>1, <2>2
  <2> QED
    BY <2>2, <2>3
<1>6. Queues(r, S \ {q[1]})
  BY <1>3, <1>4, <1>5 DEF Queues
<1> QED
  BY <1>1, <1>6 DEF r

(* A cancelled lock() leaves the queue, wherever it was. *)
LEMMA CancelQueues ==
  ASSUME NEW q \in Seq(Actor), NEW S, NEW a \in S, Queues(q, S)
  PROVE  Queues(Without(q, a), S \ {a})
<1> DEFINE r == Without(q, a)
<1>0. Len(q) \in Nat
  OBVIOUS
<1>1. PICK k \in 1..Len(q) : k = CHOOSE i \in 1..Len(q) : q[i] = a
  BY DEF Queues
<1>2. q[k] = a
  BY <1>1 DEF Queues
<1>3. \A i \in 1..Len(q) : q[i] = a => i = k
  BY <1>2 DEF Queues
<1>4. r = SubSeq(q, 1, k - 1) \o SubSeq(q, k + 1, Len(q))
  BY <1>1, <1>2 DEF Without
<1>5. /\ Len(r) = Len(q) - 1
      /\ \A i \in 1..Len(r) : r[i] = IF i < k THEN q[i] ELSE q[i + 1]
  <2> DEFINE x == SubSeq(q, 1, k - 1)
             y == SubSeq(q, k + 1, Len(q))
  <2>1. x \in Seq(Actor) /\ Len(x) = k - 1 /\ \A i \in 1..(k - 1) : x[i] = q[i]
    <3>1. /\ k - 1 \in Int
          /\ \A i \in 1..(k - 1) : q[i] \in Actor
      BY <1>0
    <3>2. x \in Seq(Actor)
      BY <3>1, SubSeqProperties
    <3>3. Len(x) = k - 1 /\ \A i \in 1..(k - 1) : x[i] = q[i]
      BY <1>0
    <3> QED
      BY <3>2, <3>3
  <2>2. /\ y \in Seq(Actor) /\ Len(y) = Len(q) - k
        /\ \A i \in 1..(Len(q) - k) : y[i] = q[k + i]
    <3>1. /\ k + 1 \in Int /\ Len(q) \in Int
          /\ \A i \in (k + 1)..Len(q) : q[i] \in Actor
      BY <1>0
    <3>2. y \in Seq(Actor)
      BY <3>1, SubSeqProperties
    <3>3. Len(y) = Len(q) - k /\ \A i \in 1..(Len(q) - k) : y[i] = q[k + i]
      BY <1>0
    <3> QED
      BY <3>2, <3>3
  <2>3. r = x \o y
    BY <1>4
  <2> HIDE DEF x, y, r
  <2>4. /\ Len(r) = Len(x) + Len(y)
        /\ \A i \in 1..(Len(x) + Len(y)) :
              r[i] = IF i <= Len(x) THEN x[i] ELSE y[i - Len(x)]
    BY <2>1, <2>2, <2>3, ConcatProperties
  <2>5. Len(r) = Len(q) - 1
    BY <1>0, <2>1, <2>2, <2>4
  <2>6. ASSUME NEW i \in 1..Len(r)
        PROVE  r[i] = IF i < k THEN q[i] ELSE q[i + 1]
    <3>1. CASE i < k
      <4>1. i \in 1..(k - 1) /\ i <= Len(x)
        BY <1>0, <2>1, <3>1
      <4> QED
        BY <2>1, <2>4, <3>1, <4>1
    <3>2. CASE ~(i < k)
      <4>1. /\ i - Len(x) \in 1..(Len(q) - k)
            /\ k + (i - Len(x)) = i + 1
            /\ ~(i <= Len(x))
        BY <1>0, <2>1, <2>5, <3>2
      <4> QED
        BY <2>2, <2>4, <3>2, <4>1
    <3> QED
      BY <3>1, <3>2
  <2> QED
    BY <2>5, <2>6
<1> HIDE DEF r
<1>6. \A i \in 1..Len(r) : i \in 1..Len(q) /\ i + 1 \in 1..Len(q)
  BY <1>0, <1>5
<1>7. ASSUME NEW i \in 1..Len(r), NEW j \in 1..Len(r), r[i] = r[j]
      PROVE  i = j
  <2> DEFINE Place(x) == IF x < k THEN x ELSE x + 1
  <2>1. r[i] = q[Place(i)] /\ r[j] = q[Place(j)]
    BY <1>5
  <2>2. Place(i) \in 1..Len(q) /\ Place(j) \in 1..Len(q)
    BY <1>6
  <2>3. Place(i) = Place(j)
    BY <1>7, <2>1, <2>2 DEF Queues
  <2> QED
    BY <2>3
<1>8. ASSUME NEW i \in 1..Len(r)
      PROVE  r[i] \in S \ {a}
  <2>1. CASE i < k
    <3>1. i # k /\ i \in 1..Len(q)
      BY <1>6, <2>1
    <3>2. r[i] = q[i]
      BY <1>5, <2>1
    <3>3. q[i] \in S /\ q[i] # a
      BY <1>3, <3>1 DEF Queues
    <3> QED
      BY <3>2, <3>3
  <2>2. CASE ~(i < k)
    <3>1. i + 1 # k /\ i + 1 \in 1..Len(q)
      BY <1>6, <2>2
    <3>2. r[i] = q[i + 1]
      BY <1>5, <2>2
    <3>3. q[i + 1] \in S /\ q[i + 1] # a
      BY <1>3, <3>1 DEF Queues
    <3> QED
      BY <3>2, <3>3
  <2> QED
    BY <2>1, <2>2
<1>9. ASSUME NEW b \in S \ {a}
      PROVE  \E i \in 1..Len(r) : r[i] = b
  <2>1. PICK i \in 1..Len(q) : q[i] = b
    BY DEF Queues
  <2>2. i # k
    BY <1>2, <2>1
  <2>3. CASE i < k
    <3>1. i \in 1..Len(r)
      BY <1>0, <1>5, <2>3
    <3> QED
      BY <1>5, <2>1, <2>3, <3>1
  <2>4. CASE i > k
    <3>1. i - 1 \in 1..Len(r) /\ ~(i - 1 < k) /\ (i - 1) + 1 = i
      BY <1>0, <1>5, <2>4
    <3>2. r[i - 1] = b
      BY <1>5, <2>1, <3>1
    <3> QED
      BY <3>1, <3>2
  <2> QED
    BY <2>2, <2>3, <2>4
<1>10. Queues(r, S \ {a})
  BY <1>7, <1>8, <1>9 DEF Queues
<1> QED
  BY <1>10 DEF r

(* Actor a alone changes what it is doing: the queues keep to those that   *)
(* wait if its own node's queue does.                                      *)
LEMMA OneMoves ==
  ASSUME TypeInv, QueuesKept, NEW a \in Actor,
         \A b \in Actor : b # a => pc'[b] = pc[b],
         \A n \in Node : n # Home(a) => waiters'[n] = waiters[n],
         Queues(waiters'[Home(a)],
                (Waiting(Home(a)) \ {a})
                  \cup (IF pc'[a] = "wait" THEN {a} ELSE {}))
  PROVE  QueuesKept'
<1> SUFFICES ASSUME NEW n \in Node PROVE Queues(waiters[n], Waiting(n))'
  BY DEF QueuesKept
<1>1. CASE n = Home(a)
  <2>1. Waiting(n)' = (Waiting(n) \ {a})
                         \cup (IF pc'[a] = "wait" THEN {a} ELSE {})
    BY <1>1 DEF Waiting
  <2> QED
    BY <1>1, <2>1 DEF Queues
<1>2. CASE n # Home(a)
  <2>1. Waiting(n)' = Waiting(n)
    BY <1>2 DEF Waiting
  <2>2. waiters'[n] = waiters[n]
    BY <1>2
  <2> QED
    BY <2>1, <2>2 DEF QueuesKept, Queues
<1> QED
  BY <1>1, <1>2

(* A step that leaves the actor where it was, outside receive(), leaves    *)
(* the queues alone.                                                       *)
LEMMA NoneMoves ==
  ASSUME TypeInv, QueuesKept, NEW a \in Actor,
         \A b \in Actor : b # a => pc'[b] = pc[b],
         pc[a] # "wait", pc'[a] # "wait", waiters' = waiters
  PROVE  QueuesKept'
<1>1. Home(a) \in Node /\ a \notin Waiting(Home(a))
  BY HomeType DEF Waiting
<1>2. Waiting(Home(a)) = (Waiting(Home(a)) \ {a})
                           \cup (IF pc'[a] = "wait" THEN {a} ELSE {})
  BY <1>1
<1>3. Queues(waiters'[Home(a)], Waiting(Home(a)))
  BY <1>1 DEF QueuesKept
<1> QED
  BY <1>2, <1>3, OneMoves

(* An actor outside receive() that queues for the inbox gets its place. *)
LEMMA QueuesUp ==
  ASSUME TypeInv, QueuesKept, NEW a \in Actor, pc[a] # "wait",
         pc' = [pc EXCEPT ![a] = "wait"],
         waiters' = [waiters EXCEPT ![Home(a)] = Append(@, a)]
  PROVE  QueuesKept'
<1> DEFINE n == Home(a)
<1>1. n \in Node /\ a \notin Waiting(n) /\ waiters[n] \in Seq(Actor)
  BY HomeType DEF Waiting, TypeInv, TypeOK
<1>2. /\ waiters'[n] = Append(waiters[n], a) /\ pc'[a] = "wait"
      /\ \A b \in Actor : b # a => pc'[b] = pc[b]
      /\ \A k \in Node : k # n => waiters'[k] = waiters[k]
  BY <1>1 DEF TypeInv, TypeOK
<1>3. Queues(waiters[n], Waiting(n))
  BY <1>1 DEF QueuesKept
<1> HIDE DEF n
<1>4. Queues(waiters'[n], Waiting(n) \cup {a})
  BY <1>1, <1>2, <1>3, JoinQueues
<1>5. (Waiting(n) \ {a}) \cup {a} = Waiting(n) \cup {a}
  BY <1>1
<1>6. Queues(waiters'[n], (Waiting(n) \ {a})
                            \cup (IF pc'[a] = "wait" THEN {a} ELSE {}))
  BY <1>2, <1>4, <1>5
<1> QED
  BY <1>2, <1>6, OneMoves DEF n

(* Going round the receive loop, or out of it, keeps the queues. *)
LEMMA NextRoundQueues ==
  ASSUME TypeInv, QueuesKept, NEW a \in Actor, pc[a] # "wait", NextRound(a)
  PROVE  QueuesKept'
<1>1. CASE a \in Task /\ expired[a]
  <2>1. pc' = [pc EXCEPT ![a] = "idle"] /\ waiters' = waiters
    BY <1>1 DEF NextRound
  <2>2. pc'[a] # "wait" /\ \A b \in Actor : b # a => pc'[b] = pc[b]
    BY <2>1 DEF TypeInv, TypeOK
  <2> QED
    BY <2>1, <2>2, NoneMoves
<1>2. CASE ~(a \in Task /\ expired[a])
  <2>1. /\ pc' = [pc EXCEPT ![a] = "wait"]
        /\ waiters' = [waiters EXCEPT ![Home(a)] = Append(@, a)]
    BY <1>2 DEF NextRound
  <2> QED
    BY <2>1, QueuesUp
<1> QED
  BY <1>1, <1>2

(* A queue left by its holder a, or by a cancelled a. *)
LEMMA LeavesQueue ==
  ASSUME TypeInv, QueuesKept, NEW a \in Actor, pc[a] = "wait",
         pc'[a] # "wait", \A b \in Actor : b # a => pc'[b] = pc[b],
         \/ /\ waiters[Home(a)] # <<>> /\ Head(waiters[Home(a)]) = a
            /\ waiters' = [waiters EXCEPT ![Home(a)] = Tail(@)]
         \/ waiters' = [waiters EXCEPT ![Home(a)] = Without(@, a)]
  PROVE  QueuesKept'
<1> DEFINE n == Home(a)
<1>1. /\ n \in Node /\ a \in Waiting(n) /\ waiters[n] \in Seq(Actor)
      /\ \A k \in Node : k # n => waiters'[k] = waiters[k]
  BY HomeType DEF Waiting, TypeInv, TypeOK
<1>2. Queues(waiters[n], Waiting(n))
  BY <1>1 DEF QueuesKept
<1>3. \/ waiters[n] # <<>> /\ Head(waiters[n]) = a /\ waiters'[n] = Tail(waiters[n])
      \/ waiters'[n] = Without(waiters[n], a)
  BY <1>1 DEF TypeInv, TypeOK
<1> HIDE DEF n
<1>4. Queues(waiters'[n], Waiting(n) \ {a})
  <2>1. CASE waiters[n] # <<>> /\ Head(waiters[n]) = a
             /\ waiters'[n] = Tail(waiters[n])
    BY <1>1, <1>2, <2>1, ServeQueues
  <2>2. CASE waiters'[n] = Without(waiters[n], a)
    BY <1>1, <1>2, <2>2, CancelQueues
  <2> QED
    BY <1>3, <2>1, <2>2
<1>5. Waiting(n) \ {a} = (Waiting(n) \ {a})
                           \cup (IF pc'[a] = "wait" THEN {a} ELSE {})
  OBVIOUS
<1>6. Queues(waiters'[n], (Waiting(n) \ {a})
                            \cup (IF pc'[a] = "wait" THEN {a} ELSE {}))
  BY <1>4, <1>5
<1> QED
  BY <1>1, <1>6, OneMoves DEF n

LEMMA InitQueues == Init => QueuesKept
<1> SUFFICES ASSUME Init, NEW n \in Node PROVE Queues(waiters[n], Waiting(n))
  BY DEF QueuesKept
<1>1. Waiting(n) = IF n \in Receivers \cap Founders THEN {n} ELSE {}
  BY NodeAssumption, TaskAssumption DEF Init, Waiting, Actor, Home
<1>2. waiters[n] = IF n \in Receivers \cap Founders THEN <<n>> ELSE <<>>
  BY DEF Init
<1> QED
  BY <1>1, <1>2, FirstQueues

LEMMA NextQueues == TypeInv /\ QueuesKept /\ [Next]_vars => QueuesKept'
<1> SUFFICES ASSUME TypeInv, QueuesKept, [Next]_vars PROVE QueuesKept'
  OBVIOUS
<1>0. \A t \in Task : t \in Actor /\ Home(t) = At[t]
  BY DEF Actor, Home
<1>1. ASSUME NEW t \in Task, NEW s \in Session,
             Save(t, s) \/ Delete(t, s) \/ Load(t, s)
      PROVE  QueuesKept'
  <2>1. pc[t] = "idle" /\ waiters' = waiters
    BY <1>1 DEF Save, Delete, Load, WriteLocal
  <2>2. pc'[t] # "wait" /\ \A b \in Actor : b # t => pc'[b] = pc[b]
    BY <1>0, <1>1 DEF Save, Delete, Load, WriteLocal, TypeInv, TypeOK
  <2> QED
    BY <1>0, <2>1, <2>2, NoneMoves
<1>2. ASSUME NEW t \in Task, Replicate(t)
      PROVE  QueuesKept'
  <2>1. pc[t] = "replicate" /\ waiters' = waiters
    BY <1>2 DEF Replicate
  <2>2. pc'[t] # "wait" /\ \A b \in Actor : b # t => pc'[b] = pc[b]
    BY <1>0, <1>2 DEF Replicate, TypeInv, TypeOK
  <2> QED
    BY <1>0, <2>1, <2>2, NoneMoves
<1>3. ASSUME NEW t \in Task, Ask(t)
      PROVE  QueuesKept'
  <2>1. /\ pc[t] # "wait" /\ pc' = [pc EXCEPT ![t] = "wait"]
        /\ waiters' = [waiters EXCEPT ![Home(t)] = Append(@, t)]
    BY <1>0, <1>3 DEF Ask
  <2> QED
    BY <1>0, <2>1, QueuesUp
<1>4. ASSUME NEW t \in Task, Deadline(t)
      PROVE  QueuesKept'
  <2>1. pc' = pc /\ waiters' = waiters
    BY <1>4 DEF Deadline
  <2> QED
    BY <2>1 DEF QueuesKept, Queues, Waiting
<1>5. ASSUME NEW t \in Task, Timeout(t)
      PROVE  QueuesKept'
  <2>1. /\ pc[t] = "wait" /\ pc' = [pc EXCEPT ![t] = "idle"]
        /\ waiters' = [waiters EXCEPT ![Home(t)] = Without(@, t)]
    BY <1>0, <1>5 DEF Timeout
  <2>2. pc'[t] # "wait" /\ \A b \in Actor : b # t => pc'[b] = pc[b]
    BY <1>0, <2>1 DEF TypeInv, TypeOK
  <2> QED
    BY <1>0, <2>1, <2>2, LeavesQueue
<1>6. ASSUME NEW a \in Actor, Receive(a)
      PROVE  QueuesKept'
  <2>1. /\ pc[a] = "wait" /\ pc' = [pc EXCEPT ![a] = "apply"]
        /\ waiters[Home(a)] # <<>> /\ Head(waiters[Home(a)]) = a
        /\ waiters' = [waiters EXCEPT ![Home(a)] = Tail(@)]
    BY <1>6 DEF Receive
  <2>2. pc'[a] # "wait" /\ \A b \in Actor : b # a => pc'[b] = pc[b]
    BY <2>1 DEF TypeInv, TypeOK
  <2> QED
    BY <2>1, <2>2, LeavesQueue
<1>7. ASSUME NEW a \in Actor, ApplyWrite(a) \/ Drop(a)
      PROVE  QueuesKept'
  <2>1. pc[a] # "wait" /\ NextRound(a)
    BY <1>7 DEF ApplyWrite, Drop
  <2> QED
    BY <2>1, NextRoundQueues
<1>8. ASSUME NEW a \in Actor, LookUp(a) \/ Cache(a)
      PROVE  QueuesKept'
  <2>1. pc[a] = "apply" /\ waiters' = waiters
    BY <1>8 DEF LookUp, Cache
  <2>2. pc'[a] # "wait" /\ \A b \in Actor : b # a => pc'[b] = pc[b]
    BY <1>8 DEF LookUp, Cache, TypeInv, TypeOK
  <2> QED
    BY <2>1, <2>2, NoneMoves
<1>9. ASSUME NEW a \in Actor, Reply(a)
      PROVE  QueuesKept'
  <2>1. CASE a \in Task /\ hand[a].reply_to \notin Up
    <3>1. /\ pc[a] = "reply" /\ waiters' = waiters
          /\ pc' = [pc EXCEPT ![a] = "idle"]
      BY <1>9, <2>1 DEF Reply
    <3>2. pc'[a] # "wait" /\ \A b \in Actor : b # a => pc'[b] = pc[b]
      BY <3>1 DEF TypeInv, TypeOK
    <3> QED
      BY <3>1, <3>2, NoneMoves
  <2>2. CASE ~(a \in Task /\ hand[a].reply_to \notin Up)
    <3>1. pc[a] # "wait" /\ NextRound(a)
      BY <1>9, <2>2 DEF Reply
    <3> QED
      BY <3>1, NextRoundQueues
  <2> QED
    BY <2>1, <2>2
<1>10. ASSUME NEW n \in Node, Join(n)
       PROVE  QueuesKept'
  <2> SUFFICES ASSUME NEW k \in Node PROVE Queues(waiters[k], Waiting(k))'
    BY DEF QueuesKept
  <2>1. /\ waiters' = [waiters EXCEPT
                         ![n] = IF n \in Receivers THEN <<n>> ELSE <<>>]
        /\ pc' = [a \in Actor |-> IF Home(a) # n THEN pc[a]
                                  ELSE IF a \in Task THEN "idle" ELSE "wait"]
    BY <1>10 DEF Join
  <2>2. CASE k = n
    <3>1. waiters'[n] = IF n \in Receivers THEN <<n>> ELSE <<>>
      BY <2>1 DEF TypeInv, TypeOK
    <3>2. Waiting(n)' = IF n \in Receivers THEN {n} ELSE {}
      BY <2>1, NodeAssumption, TaskAssumption DEF Waiting, Actor, Home
    <3> QED
      BY <2>2, <3>1, <3>2, FirstQueues DEF Queues
  <2>3. CASE k # n
    <3>1. waiters'[k] = waiters[k]
      BY <2>1, <2>3 DEF TypeInv, TypeOK
    <3>2. Waiting(k)' = Waiting(k)
      BY <2>1, <2>3 DEF Waiting
    <3> QED
      BY <3>1, <3>2 DEF QueuesKept, Queues
  <2> QED
    BY <2>2, <2>3
<1>11. ASSUME NEW n \in Node, Leave(n)
       PROVE  QueuesKept'
  <2> SUFFICES ASSUME NEW k \in Node PROVE Queues(waiters[k], Waiting(k))'
    BY DEF QueuesKept
  <2>1. /\ waiters' = [waiters EXCEPT ![n] = <<>>]
        /\ pc' = [a \in Actor |-> IF Home(a) = n THEN "off" ELSE pc[a]]
    BY <1>11 DEF Leave
  <2>2. CASE k = n
    <3>1. waiters'[n] = <<>>
      BY <2>1 DEF TypeInv, TypeOK
    <3>2. Waiting(n)' = {}
      BY <2>1 DEF Waiting
    <3> QED
      BY <2>2, <3>1, <3>2, FirstQueues DEF Queues
  <2>3. CASE k # n
    <3>1. waiters'[k] = waiters[k]
      BY <2>1, <2>3 DEF TypeInv, TypeOK
    <3>2. Waiting(k)' = Waiting(k)
      BY <2>1, <2>3 DEF Waiting
    <3> QED
      BY <3>1, <3>2 DEF QueuesKept, Queues
  <2> QED
    BY <2>2, <2>3
<1>12. CASE UNCHANGED vars
  <2>1. pc' = pc /\ waiters' = waiters
    BY <1>12 DEF vars
  <2> QED
    BY <2>1 DEF QueuesKept, Queues, Waiting
<1> QED
  BY <1>1, <1>2, <1>3, <1>4, <1>5, <1>6, <1>7, <1>8, <1>9, <1>10, <1>11, <1>12
     DEF Next, Consume

(* Every actor inside receive() has its one place in its node's queue for  *)
(* the inbox mutex, and nobody else has any: a load that timed out holds   *)
(* nothing, whatever the loads, deadlines, joins and shutdowns.            *)
THEOREM InboxQueuesSound == Spec => []InboxQueueSound
<1>1. QueuesKept => InboxQueueSound
  BY DEF QueuesKept, Queues, Waiting, InboxQueueSound
<1>2. Init => TypeInv /\ QueuesKept
  BY InitType, InitQueues
<1>3. TypeInv /\ QueuesKept /\ [Next]_vars => (TypeInv /\ QueuesKept)'
  BY NextType, NextQueues
<1> QED
  BY <1>1, <1>2, <1>3, PTL DEF Spec
=============================================================================
