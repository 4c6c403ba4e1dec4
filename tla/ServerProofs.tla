---------------------------- MODULE ServerProofs ----------------------------
(***************************************************************************)
(* What stands around the servlet is sound for all its parameters: the     *)
(* HttpSession bridge, the authenticators, the valve pipeline, the remote  *)
(* session stores, the static files and the background thread, each under  *)
(* its own inductive invariant.                                            *)
(*                                                                         *)
(* The six share no state. Three of the invariants say who may be between  *)
(* a read and the write it is for: of several requests (HttpSession), of   *)
(* several logins (Auth), of several statements (RemoteStores). Two say    *)
(* what an answer under way is still true of: the filters that were        *)
(* installed when it began (Pipeline), the version of the file that was    *)
(* there when its metadata was read (StaticFiles). The last says that what *)
(* the reload tracker remembers under a path is the past of the context    *)
(* that has the path to itself (Background).                               *)
(***************************************************************************)
EXTENDS HttpSession, Auth, Pipeline, RemoteStores, StaticFiles, Background,
        FiniteSetTheorems, SequenceTheorems, TLAPS

-----------------------------------------------------------------------------
(* The HttpSession bridge: its inductive invariant. *)

Working(r) == pc[r] \in {"touch", "save"}
Bound(r) == handle[r] # NoHandle
Creator(r, s) == handle[r] = [id |-> s, new |-> TRUE]

(* A request that works on a session has a handle of it and a copy; it has *)
(* a change of its own only while it saves it.                             *)
HandleFacts ==
  \A r \in Req :
    /\ Bound(r) => handle[r].id \in minted
    /\ Working(r) => Bound(r) /\ buf[r] \in Attrs
    /\ pc[r] # "save" => op[r] = NoOp

(* An id is handed out to one request, and before that there is nothing    *)
(* under it.                                                               *)
IdFacts ==
  /\ gone \subseteq minted
  /\ \A s \in Sid \ minted : store[s] = Absent /\ want[s] = Fresh
  /\ \A s \in minted : \E r \in Req : Creator(r, s)
  /\ \A r, q \in Req : (handle[r].new /\ handle[r] = handle[q]) => r = q

(* The values a request has loaded are of its session.                     *)
OwnCopies ==
  \A r \in Req, n \in Name :
    (Working(r) /\ buf[r][n] # Null) => handle[buf[r][n]].id = handle[r].id

(* With one worker, one request is served at a time, and what it will save *)
(* is the session as it is, with its own change.                           *)
OneLive == \A r, q \in Req : (Live(r) /\ Live(q)) => r = q
CopyCurrent ==
  \A r \in Req : Working(r) =>
    /\ Present(handle[r].id)
    /\ buf[r] = Apply(r, store[handle[r].id])
Serial == workers = 1 => OneLive /\ CopyCurrent

SessionInv ==
  /\ TypeOK /\ HandleFacts /\ IdFacts /\ OwnCopies /\ OwnValues
  /\ Serial /\ SerialWritesKept /\ SerialGone

-----------------------------------------------------------------------------
(* A session is never the mark of one that is not there.                   *)
LEMMA AbsentIsNoSession ==
  /\ Absent \notin Attrs /\ Fresh \in Attrs
  /\ \A f \in Attrs \cup {Absent} : f # Absent => f \in Attrs
<1>1. DOMAIN Absent = {}
  BY DEF Absent
<1>2. \A f \in Attrs : DOMAIN f = Name
  BY DEF Attrs
<1>3. Name # {}
  BY SessionAssumption
<1>4. Fresh \in Attrs
  BY DEF Fresh, Attrs
<1> QED
  BY <1>1, <1>2, <1>3, <1>4

(* A change made to a session is one, and no change changes nothing.       *)
LEMMA ApplyType ==
  ASSUME TypeOK, NEW r \in Req, NEW a \in Attrs
  PROVE  /\ Apply(r, a) \in Attrs
         /\ op[r] = NoOp => Apply(r, a) = a
<1>1. op[r] \in [name : Name \cup {Null}, value : Val \cup {Null}]
  BY DEF TypeOK
<1>2. Apply(r, a) \in [Name -> Val \cup {Null}]
  BY <1>1 DEF Apply, Attrs
<1>3. ASSUME op[r] = NoOp  PROVE Apply(r, a) = a
  <2>1. \A n \in Name : Apply(r, a)[n] = a[n]
    BY <1>3, SessionAssumption DEF Apply, NoOp
  <2>2. a \in [Name -> Val \cup {Null}]
    BY DEF Attrs
  <2> QED BY <2>1, <2>2, <1>2
<1> QED BY <1>2, <1>3 DEF Attrs

(* One and no other, counted.                                              *)
LEMMA AloneAtWork ==
  ASSUME TypeOK, workers = 1, NEW r \in Req, Begin(r)
  PROVE  \A q \in Req : ~Live(q)
<1> DEFINE L == {q \in Req : Live(q)}
<1>1. IsFiniteSet(L)
  BY SessionAssumption, FS_Subset
<1>2. Cardinality(L) < 1
  BY DEF Begin
<1>3. Cardinality(L) = 0
  BY <1>1, <1>2, FS_CardinalityType
<1>4. L = {}
  BY <1>1, <1>3, FS_EmptySet
<1> QED BY <1>4

-----------------------------------------------------------------------------
LEMMA SessionInitial == Init => SessionInv
<1> SUFFICES ASSUME Init PROVE SessionInv
  OBVIOUS
<1> USE DEF Init
<1>1. TypeOK
  BY AbsentIsNoSession DEF TypeOK, Handles, NoHandle, NoOp
<1>2. HandleFacts
  BY DEF HandleFacts, Bound, Working
<1>3. IdFacts
  BY DEF IdFacts, NoHandle
<1>4. OwnCopies /\ OwnValues
  BY DEF OwnCopies, OwnValues, Working, Present
<1>5. Serial /\ SerialWritesKept /\ SerialGone
  BY DEF Serial, SerialWritesKept, SerialGone, OneLive, CopyCurrent, Working, Live, WritesKept, Present
<1> QED BY <1>1, <1>2, <1>3, <1>4, <1>5 DEF SessionInv

(* The steps, each with what it does: a session is created, loaded to be   *)
(* refreshed, or loaded to be changed.                                     *)
Create(r, s) ==
  /\ pc[r] = "servlet" /\ ~Bound(r) /\ CreateBound(r, s)
  /\ UNCHANGED <<workers, gone, op>>

Refresh(r, c) ==
  /\ pc[r] = "servlet" /\ ~Bound(r) /\ c \in minted /\ Present(c)
  /\ buf' = [buf EXCEPT ![r] = store[c]]
  /\ handle' = [handle EXCEPT ![r] = [id |-> c, new |-> FALSE]]
  /\ Goto(r, "touch")
  /\ UNCHANGED <<workers, store, minted, want, gone, op>>

Changes(r) == {NoOp} \cup [name : Name, value : {r, Null}]
Changed(change, attrs) == [n \in Name |-> IF n = change.name THEN change.value ELSE attrs[n]]
Change(r, change) == Load(r, Changed(change, store[handle[r].id]), change)

LEMMA SessionSteps ==
  ASSUME SessionInv, Next
  PROVE  \/ UNCHANGED vars
         \/ \E r \in Req :
              \/ Begin(r) \/ Save(r) \/ Invalidate(r) \/ Finish(r)
              \/ \E s \in Sid : Create(r, s) \/ Refresh(r, s)
              \/ \E change \in Changes(r) : Change(r, change)
<1>1. ASSUME NEW r \in Req, NEW create \in BOOLEAN, ResolveNone(r, create)
      PROVE  UNCHANGED vars \/ \E s \in Sid : Create(r, s)
  <2>1. CASE create
    BY <1>1, <2>1 DEF ResolveNone, Create, Bound
  <2>2. CASE ~create
    BY <1>1, <2>2 DEF ResolveNone, vars
  <2> QED BY <2>1, <2>2
<1>2. ASSUME NEW r \in Req, NEW c \in Sid, ResolveCookie(r, c)
      PROVE  \E s \in Sid : Create(r, s) \/ Refresh(r, s)
  <2>1. CASE Present(c)
    BY <1>2, <2>1 DEF ResolveCookie, Refresh, Bound
  <2>2. CASE ~Present(c)
    BY <1>2, <2>2 DEF ResolveCookie, Create, Bound
  <2> QED BY <2>1, <2>2
<1>3. ASSUME NEW r \in Req, Bound(r), Present(handle[r].id)
      PROVE  store[handle[r].id] \in Attrs
  <2>1. handle[r].id \in Sid
    BY <1>3 DEF SessionInv, HandleFacts, TypeOK
  <2>2. store[handle[r].id] \in Attrs \cup {Absent}
    BY <2>1 DEF SessionInv, TypeOK
  <2> QED BY <2>2, <1>3 DEF Present
<1>4. ASSUME NEW r \in Req, NEW n \in Name, NEW v \in {r, Null}, SetAttribute(r, n, v)
      PROVE  \E change \in Changes(r) : Change(r, change)
  <2> DEFINE change == [name |-> n, value |-> v]
             old == store[handle[r].id]
  <2>1. old \in [Name -> Val \cup {Null}]
    BY <1>3, <1>4 DEF SetAttribute, Load, Bound, Attrs
  <2>2. [old EXCEPT ![n] = v] = Changed(change, old)
    BY <2>1 DEF Changed
  <2>3. Change(r, change)
    BY <1>4, <2>2 DEF SetAttribute, Change
  <2>4. change \in Changes(r)
    BY DEF Changes
  <2> QED BY <2>3, <2>4
<1>5. ASSUME NEW r \in Req, SetMaxInactiveInterval(r)
      PROVE  \E change \in Changes(r) : Change(r, change)
  <2> DEFINE old == store[handle[r].id]
  <2>1. old \in [Name -> Val \cup {Null}]
    BY <1>3, <1>5 DEF SetMaxInactiveInterval, Load, Bound, Attrs
  <2>2. \A n \in Name : n # NoOp.name
    BY SessionAssumption DEF NoOp
  <2>3. old = Changed(NoOp, old)
    BY <2>1, <2>2 DEF Changed
  <2>4. Change(r, NoOp)
    BY <1>5, <2>3 DEF SetMaxInactiveInterval, Change
  <2> QED BY <2>4 DEF Changes
<1> QED BY <1>1, <1>2, <1>4, <1>5 DEF Next

-----------------------------------------------------------------------------
(* Every step keeps every part of the invariant. *)

AnyStep(r) ==
  \/ Begin(r) \/ Save(r) \/ Invalidate(r) \/ Finish(r)
  \/ \E s \in Sid : Create(r, s) \/ Refresh(r, s)
  \/ \E change \in Changes(r) : Change(r, change)

LEMMA TypesKept ==
  ASSUME SessionInv, NEW r \in Req, AnyStep(r)
  PROVE  TypeOK'
<1> USE DEF SessionInv, TypeOK
<1>1. CASE Begin(r)
  BY <1>1 DEF Begin, Goto
<1>2. CASE Save(r)
  <2>1. handle[r].id \in Sid /\ buf[r] \in Attrs
    BY <1>2 DEF Save, HandleFacts, Working
  <2>2. Apply(r, want[handle[r].id]) \in Attrs
    BY <2>1, ApplyType
  <2>3. op' \in [Req -> [name : Name \cup {Null}, value : Val \cup {Null}]]
    BY <1>2 DEF Save, NoOp
  <2>4. want' \in [Sid -> Attrs]
    BY <1>2, <2>1, <2>2 DEF Save
  <2> QED BY <1>2, <2>1, <2>3, <2>4 DEF Save, Goto
<1>3. CASE Invalidate(r)
  <2>1. handle[r].id \in Sid
    BY <1>3 DEF Invalidate, HandleFacts, Bound
  <2> QED BY <1>3, <2>1 DEF Invalidate
<1>4. CASE Finish(r)
  BY <1>4 DEF Finish, Goto
<1>5. ASSUME NEW s \in Sid, Create(r, s)  PROVE TypeOK'
  BY <1>5, AbsentIsNoSession DEF Create, CreateBound, Handles
<1>6. ASSUME NEW c \in Sid, Refresh(r, c)  PROVE TypeOK'
  BY <1>6 DEF Refresh, Goto, Handles
<1>7. ASSUME NEW change \in Changes(r), Change(r, change)  PROVE TypeOK'
  <2>1. handle[r].id \in Sid /\ store[handle[r].id] \in Attrs
    BY <1>7 DEF Change, Load, HandleFacts, Bound, Present
  <2>2. change \in [name : Name \cup {Null}, value : Val \cup {Null}]
    BY DEF Changes, NoOp, Val
  <2>3. Changed(change, store[handle[r].id]) \in Attrs
    BY <2>1, <2>2 DEF Changed, Attrs
  <2> QED BY <1>7, <2>2, <2>3 DEF Change, Load, Goto
<1> QED BY <1>1, <1>2, <1>3, <1>4, <1>5, <1>6, <1>7 DEF AnyStep

LEMMA HandlesKept ==
  ASSUME SessionInv, NEW r \in Req, AnyStep(r)
  PROVE  HandleFacts'
<1> USE DEF SessionInv, TypeOK, HandleFacts, Bound, Working
<1>1. CASE Begin(r)
  BY <1>1 DEF Begin, Goto
<1>2. CASE Save(r)
  BY <1>2 DEF Save, Goto
<1>3. CASE Invalidate(r)
  BY <1>3 DEF Invalidate
<1>4. CASE Finish(r)
  BY <1>4 DEF Finish, Goto
<1>5. ASSUME NEW s \in Sid, Create(r, s)  PROVE HandleFacts'
  BY <1>5 DEF Create, CreateBound
<1>6. ASSUME NEW c \in Sid, Refresh(r, c)  PROVE HandleFacts'
  <2>1. store[c] \in Attrs
    BY <1>6 DEF Refresh, Present
  <2> QED BY <1>6, <2>1, SessionAssumption DEF Refresh, Goto, NoHandle
<1>7. ASSUME NEW change \in Changes(r), Change(r, change)  PROVE HandleFacts'
  <2>1. store[handle[r].id] \in Attrs
    BY <1>7 DEF Change, Load, Present
  <2>2. Changed(change, store[handle[r].id]) \in Attrs
    BY <2>1 DEF Changed, Attrs, Changes, NoOp, Val
  <2> QED BY <1>7, <2>2 DEF Change, Load, Goto
<1> QED BY <1>1, <1>2, <1>3, <1>4, <1>5, <1>6, <1>7 DEF AnyStep

LEMMA IdsKept ==
  ASSUME SessionInv, NEW r \in Req, AnyStep(r)
  PROVE  IdFacts'
<1> USE DEF SessionInv, TypeOK, IdFacts, HandleFacts, Bound, Creator
<1>1. CASE Begin(r)
  BY <1>1 DEF Begin
<1>2. CASE Save(r)
  <2>1. handle[r].id \in minted
    BY <1>2 DEF Save, Working
  <2> QED BY <1>2, <2>1 DEF Save
<1>3. CASE Invalidate(r)
  BY <1>3 DEF Invalidate
<1>4. CASE Finish(r)
  BY <1>4 DEF Finish
<1>5. ASSUME NEW s \in Sid, Create(r, s)  PROVE IdFacts'
  <2>1. s \notin minted /\ ~handle[r].new
    BY <1>5 DEF Create, CreateBound, NoHandle
  <2>2. handle' = [handle EXCEPT ![r] = [id |-> s, new |-> TRUE]] /\ minted' = minted \cup {s}
    BY <1>5 DEF Create, CreateBound
  <2>3. \A t \in minted' : \E q \in Req : Creator(q, t)'
    <3>1. Creator(r, s)'
      BY <2>2
    <3>2. \A t \in minted : \E q \in Req \ {r} : Creator(q, t)
      BY <2>1
    <3>3. \A q \in Req \ {r} : handle'[q] = handle[q]
      BY <2>2
    <3> QED BY <2>2, <3>1, <3>2, <3>3
  <2>4. \A q \in Req : handle[q].new => handle[q].id # s
    BY <2>1 DEF NoHandle
  <2>5. \A q, t \in Req : (handle'[q].new /\ handle'[q] = handle'[t]) => q = t
    <3>1. \A q \in Req \ {r} : handle'[q] = handle[q]
      BY <2>2
    <3>2. \A q \in Req \ {r} : handle[q] # handle'[r]
      BY <2>2, <2>4
    <3> QED BY <3>1, <3>2
  <2> QED BY <1>5, <2>3, <2>5 DEF Create, CreateBound
<1>6. ASSUME NEW c \in Sid, Refresh(r, c)  PROVE IdFacts'
  <2>1. ~handle[r].new /\ handle' = [handle EXCEPT ![r] = [id |-> c, new |-> FALSE]]
    BY <1>6 DEF Refresh, NoHandle
  <2>2. \A q \in Req \ {r} : handle'[q] = handle[q]
    BY <2>1
  <2>3. \A t \in minted : \E q \in Req : Creator(q, t)'
    BY <2>1, <2>2
  <2>4. \A q, t \in Req : (handle'[q].new /\ handle'[q] = handle'[t]) => q = t
    BY <2>1, <2>2
  <2> QED BY <1>6, <2>3, <2>4 DEF Refresh
<1>7. ASSUME NEW change \in Changes(r), Change(r, change)  PROVE IdFacts'
  BY <1>7 DEF Change, Load
<1> QED BY <1>1, <1>2, <1>3, <1>4, <1>5, <1>6, <1>7 DEF AnyStep

(* A request that has a session keeps it.                                  *)
LEMMA HandleStays ==
  ASSUME SessionInv, NEW r \in Req, AnyStep(r)
  PROVE  \A q \in Req : Bound(q) => handle'[q] = handle[q]
<1> USE DEF SessionInv, TypeOK, Bound
<1>1. ASSUME NEW s \in Sid, Create(r, s)  PROVE \A q \in Req : Bound(q) => handle'[q] = handle[q]
  BY <1>1 DEF Create, CreateBound
<1>2. ASSUME NEW c \in Sid, Refresh(r, c)  PROVE \A q \in Req : Bound(q) => handle'[q] = handle[q]
  BY <1>2 DEF Refresh
<1>3. Begin(r) \/ Save(r) \/ Invalidate(r) \/ Finish(r) => handle' = handle
  BY DEF Begin, Save, Invalidate, Finish
<1>4. \A change \in Changes(r) : Change(r, change) => handle' = handle
  BY DEF Change, Load
<1> QED BY <1>1, <1>2, <1>3, <1>4 DEF AnyStep

(* Who has a session with an id is bound.                                  *)
LEMMA NamedIsBound ==
  \A q \in Req : handle[q].id \in Sid => Bound(q)
BY SessionAssumption DEF Bound, NoHandle

LEMMA OwnKept ==
  ASSUME SessionInv, NEW r \in Req, AnyStep(r)
  PROVE  OwnCopies' /\ OwnValues'
<1> USE DEF SessionInv
<1>1. \A q \in Req, s \in Sid : handle[q].id = s => handle'[q].id = s
  BY HandleStays, NamedIsBound
<1>2. \A q \in Req : Bound(q) => handle[q].id \in Sid /\ handle'[q] = handle[q]
  BY HandleStays DEF HandleFacts, TypeOK
<1>3. \A q \in Req, n \in Name : Working(q) =>
        /\ buf[q][n] \in Req \cup {Null}
        /\ Bound(q)
  BY DEF HandleFacts, Attrs, Val
<1>4. \A s \in Sid, n \in Name : Present(s) => store[s][n] \in Req \cup {Null}
  BY DEF TypeOK, Present, Attrs, Val
\* A request other than the one that moves has the copy it had.
<1>5. ASSUME \A q \in Req \ {r} : Working(q)' => Working(q) /\ buf'[q] = buf[q],
             Working(r)' => \A n \in Name : buf'[r][n] # Null =>
               buf'[r][n] \in Req /\ handle'[buf'[r][n]].id = handle'[r].id
      PROVE  OwnCopies'
  <2> SUFFICES ASSUME NEW q \in Req, NEW n \in Name, Working(q)', buf'[q][n] # Null
               PROVE  handle'[buf'[q][n]].id = handle'[q].id
    BY DEF OwnCopies
  <2>1. CASE q = r
    BY <2>1, <1>5
  <2>2. CASE q # r
    <3>1. Working(q) /\ buf'[q] = buf[q]
      BY <1>5, <2>2
    <3>2. handle[buf[q][n]].id = handle[q].id /\ buf[q][n] \in Req
      BY <3>1, <1>3 DEF OwnCopies
    <3> QED BY <3>1, <3>2, <1>1, <1>2, <1>3
  <2> QED BY <2>1, <2>2
\* Sessions that are not written keep their values.
<1>6. ASSUME \A s \in Sid, n \in Name :
               \/ store'[s] = store[s]
               \/ store'[s] # Absent /\ store'[s][n] # Null =>
                    store'[s][n] \in Req /\ handle'[store'[s][n]].id = s
      PROVE  OwnValues'
  <2> SUFFICES ASSUME NEW s \in Sid, NEW n \in Name, store'[s] # Absent, store'[s][n] # Null
               PROVE  handle'[store'[s][n]].id = s
    BY DEF OwnValues, Present
  <2>1. CASE store'[s] = store[s]
    <3>1. handle[store[s][n]].id = s /\ store[s][n] \in Req
      BY <2>1, <1>4 DEF OwnValues, Present
    <3> QED BY <3>1, <2>1, <1>1
  <2>2. CASE store'[s] # store[s]
    BY <2>2, <1>6
  <2> QED BY <2>1, <2>2
<1>7. CASE Begin(r) \/ Finish(r)
  <2>1. \A q \in Req : Working(q)' => Working(q) /\ buf'[q] = buf[q]
    BY <1>7 DEF Begin, Finish, Goto, Working, TypeOK
  <2>2. \A q \in Req : handle'[q] = handle[q] /\ store' = store
    BY <1>7 DEF Begin, Finish
  <2>3. ~Working(r)'
    BY <1>7 DEF Begin, Finish, Goto, Working, TypeOK
  <2> QED BY <2>1, <2>2, <2>3, <1>5, <1>6
<1>8. CASE Save(r)
  <2>1. \A q \in Req \ {r} : Working(q)' => Working(q) /\ buf'[q] = buf[q]
    BY <1>8 DEF Save, Goto, Working, TypeOK
  <2>2. ~Working(r)'
    BY <1>8 DEF Save, Goto, Working, TypeOK
  <2>3. Working(r) /\ handle' = handle /\ store' = [store EXCEPT ![handle[r].id] = buf[r]]
    BY <1>8 DEF Save, Working
  <2>4. \A n \in Name : buf[r][n] # Null => buf[r][n] \in Req /\ handle[buf[r][n]].id = handle[r].id
    BY <2>3, <1>3 DEF OwnCopies
  <2>5. \A s \in Sid, n \in Name :
               \/ store'[s] = store[s]
               \/ store'[s] # Absent /\ store'[s][n] # Null =>
                    store'[s][n] \in Req /\ handle'[store'[s][n]].id = s
    <3> SUFFICES ASSUME NEW s \in Sid, NEW n \in Name, s = handle[r].id, store'[s][n] # Null
                 PROVE  store'[s][n] \in Req /\ handle'[store'[s][n]].id = s
      BY <2>3 DEF TypeOK
    <3>1. store'[s] = buf[r]
      BY <2>3 DEF TypeOK
    <3> QED BY <3>1, <2>3, <2>4
  <2> QED BY <2>1, <2>2, <2>5, <1>5, <1>6
<1>9. CASE Invalidate(r)
  <2>1. \A q \in Req : Working(q)' => Working(q) /\ buf'[q] = buf[q]
    BY <1>9 DEF Invalidate, Working
  <2>2. ~Working(r)'
    BY <1>9 DEF Invalidate, Working
  <2>3. \A s \in Sid : store'[s] = store[s] \/ store'[s] = Absent
    BY <1>9 DEF Invalidate, TypeOK
  <2> QED BY <2>1, <2>2, <2>3, <1>5, <1>6
<1>10. ASSUME NEW s \in Sid, Create(r, s)  PROVE OwnCopies' /\ OwnValues'
  <2>1. \A q \in Req : Working(q)' => Working(q) /\ buf'[q] = buf[q]
    BY <1>10 DEF Create, CreateBound, Working
  <2>2. ~Working(r)'
    BY <1>10 DEF Create, CreateBound, Working
  <2>3. \A t \in Sid, n \in Name : store'[t] = store[t] \/ store'[t][n] = Null
    BY <1>10 DEF Create, CreateBound, TypeOK, Fresh
  <2> QED BY <2>1, <2>2, <2>3, <1>5, <1>6
<1>11. ASSUME NEW c \in Sid, Refresh(r, c)  PROVE OwnCopies' /\ OwnValues'
  <2>1. \A q \in Req \ {r} : Working(q)' => Working(q) /\ buf'[q] = buf[q]
    BY <1>11 DEF Refresh, Goto, Working, TypeOK
  <2>2. buf'[r] = store[c] /\ handle'[r].id = c /\ store' = store /\ Present(c)
    BY <1>11 DEF Refresh, TypeOK
  <2>3. \A n \in Name : buf'[r][n] # Null => buf'[r][n] \in Req /\ handle'[buf'[r][n]].id = handle'[r].id
    BY <2>2, <1>4, <1>1 DEF OwnValues
  <2> QED BY <2>1, <2>2, <2>3, <1>5, <1>6
<1>12. ASSUME NEW change \in Changes(r), Change(r, change)  PROVE OwnCopies' /\ OwnValues'
  <2>1. \A q \in Req \ {r} : Working(q)' => Working(q) /\ buf'[q] = buf[q]
    BY <1>12 DEF Change, Load, Goto, Working, TypeOK
  <2> DEFINE h == handle[r].id
  <2>2. buf'[r] = Changed(change, store[h]) /\ handle' = handle /\ store' = store /\ Present(h) /\ Bound(r)
    BY <1>12 DEF Change, Load, TypeOK, Bound
  <2>3. h \in Sid
    BY <2>2, <1>2
  <2>4. ASSUME NEW n \in Name, buf'[r][n] # Null
        PROVE  buf'[r][n] \in Req /\ handle[buf'[r][n]].id = h
    <3>1. buf'[r][n] = IF n = change.name THEN change.value ELSE store[h][n]
      BY <2>2 DEF Changed
    <3>2. CASE n = change.name
      <4>1. change \in [name : Name, value : {r, Null}]
        BY <3>2, SessionAssumption DEF Changes, NoOp
      <4>2. buf'[r][n] = r
        BY <3>1, <3>2, <4>1, <2>4
      <4> QED BY <4>2
    <3>3. CASE n # change.name
      BY <3>1, <3>3, <2>2, <2>3, <2>4, <1>4 DEF OwnValues
    <3> QED BY <3>2, <3>3
  <2>5. \A n \in Name : buf'[r][n] # Null => buf'[r][n] \in Req /\ handle'[buf'[r][n]].id = handle'[r].id
    BY <2>2, <2>4
  <2> QED BY <2>1, <2>2, <2>5, <1>5, <1>6
<1> QED BY <1>7, <1>8, <1>9, <1>10, <1>11, <1>12 DEF AnyStep

(* With one worker, a request that saves is the only one, and what it saves*)
(* is the session as it should be.                                         *)
LEMMA SerialKept ==
  ASSUME SessionInv, NEW r \in Req, AnyStep(r)
  PROVE  Serial' /\ SerialWritesKept' /\ SerialGone'
<1> USE DEF SessionInv
<1>0. workers' = workers
  BY DEF AnyStep, Begin, Save, Invalidate, Finish, Create, Refresh, Change, Load
<1> SUFFICES ASSUME workers = 1
             PROVE  OneLive' /\ CopyCurrent' /\ WritesKept' /\ \A s \in gone' : store'[s] = Absent
  BY <1>0 DEF Serial, SerialWritesKept, SerialGone, Present
<1>1. OneLive /\ CopyCurrent /\ WritesKept /\ \A s \in gone : store[s] = Absent
  BY DEF Serial, SerialWritesKept, SerialGone, Present
<1> USE DEF TypeOK
<1>2. ASSUME Live(r), \A q \in Req \ {r} : pc'[q] = pc[q]
      PROVE  OneLive' /\ \A q \in Req \ {r} : ~Working(q) /\ ~Working(q)'
  <2>1. \A q \in Req \ {r} : ~Live(q)
    BY <1>1, <1>2 DEF OneLive
  <2>2. \A q \in Req \ {r} : ~Live(q)'
    BY <2>1, <1>2 DEF Live
  <2> QED BY <2>1, <2>2 DEF OneLive, Live, Working
<1>3. CASE Begin(r)
  <2>1. \A q \in Req : ~Live(q)
    BY <1>3, AloneAtWork
  <2>2. pc' = [pc EXCEPT ![r] = "servlet"] /\ UNCHANGED <<store, want, gone>>
    BY <1>3 DEF Begin, Goto
  <2>3. \A q \in Req \ {r} : ~Live(q)'
    BY <2>1, <2>2 DEF Live
  <2>4. \A q \in Req : ~Working(q)'
    BY <2>2, <2>3 DEF Live, Working
  <2> QED BY <1>1, <2>2, <2>3, <2>4 DEF OneLive, CopyCurrent, WritesKept, Present
<1>4. CASE Finish(r)
  <2>1. Live(r) /\ pc' = [pc EXCEPT ![r] = "done"] /\ UNCHANGED <<store, want, gone>>
    BY <1>4 DEF Finish, Goto, Live
  <2>2. ~Working(r)'
    BY <2>1 DEF Working
  <2> QED BY <1>1, <2>1, <2>2, <1>2 DEF CopyCurrent, WritesKept, Present
<1>5. CASE Save(r)
  <2> DEFINE h == handle[r].id
  <2>1. Working(r) /\ Live(r) /\ pc' = [pc EXCEPT ![r] = "servlet"]
    BY <1>5 DEF Save, Goto, Live, Working
  <2>2. h \in Sid /\ store' = [store EXCEPT ![h] = buf[r]]
        /\ want' = [want EXCEPT ![h] = Apply(r, want[h])] /\ gone' = gone
    BY <1>5, <2>1 DEF Save, HandleFacts
  <2>3. Present(h) /\ buf[r] = Apply(r, store[h]) /\ store[h] = want[h]
    BY <1>1, <2>1, <2>2 DEF CopyCurrent, WritesKept
  <2>4. WritesKept'
    BY <1>1, <2>2, <2>3 DEF WritesKept, Present
  <2>5. \A s \in gone' : store'[s] = Absent
    BY <1>1, <2>2, <2>3 DEF Present
  <2>6. ~Working(r)'
    BY <2>1 DEF Working
  <2> QED BY <2>1, <2>4, <2>5, <2>6, <1>2 DEF CopyCurrent
<1>6. CASE Invalidate(r)
  <2> DEFINE h == handle[r].id
  <2>1. Live(r) /\ ~Working(r) /\ UNCHANGED <<pc, want>>
    BY <1>6 DEF Invalidate, Live, Working
  <2>2. h \in Sid /\ store' = [store EXCEPT ![h] = Absent] /\ gone' = gone \cup {h}
    BY <1>6 DEF Invalidate, HandleFacts, Bound
  <2>3. WritesKept'
    BY <1>1, <2>1, <2>2 DEF WritesKept, Present
  <2>4. \A s \in gone' : store'[s] = Absent
    BY <1>1, <2>2
  <2>5. ~Working(r)'
    BY <2>1 DEF Working
  <2> QED BY <2>1, <2>3, <2>4, <2>5, <1>2 DEF CopyCurrent
<1>7. ASSUME NEW s \in Sid, Create(r, s)
      PROVE  OneLive' /\ CopyCurrent' /\ WritesKept' /\ \A t \in gone' : store'[t] = Absent
  <2>1. Live(r) /\ ~Working(r) /\ UNCHANGED <<pc, want, gone>>
    BY <1>7 DEF Create, CreateBound, Live, Working
  <2>2. store' = [store EXCEPT ![s] = Fresh] /\ want[s] = Fresh /\ s \notin gone
    BY <1>7 DEF Create, CreateBound, IdFacts
  <2>3. WritesKept'
    BY <1>1, <2>1, <2>2 DEF WritesKept, Present
  <2>4. \A t \in gone' : store'[t] = Absent
    BY <1>1, <2>1, <2>2
  <2>5. ~Working(r)'
    BY <2>1 DEF Working
  <2> QED BY <2>1, <2>3, <2>4, <2>5, <1>2 DEF CopyCurrent
<1>8. ASSUME NEW c \in Sid, Refresh(r, c)
      PROVE  OneLive' /\ CopyCurrent' /\ WritesKept' /\ \A t \in gone' : store'[t] = Absent
  <2>1. Live(r) /\ pc' = [pc EXCEPT ![r] = "touch"] /\ UNCHANGED <<store, want, gone, op>>
    BY <1>8 DEF Refresh, Goto, Live
  <2>2. buf'[r] = store[c] /\ handle'[r].id = c /\ Present(c) /\ op[r] = NoOp
    BY <1>8 DEF Refresh, HandleFacts
  <2>3. Apply(r, store[c]) = store[c]
    BY <2>2, ApplyType DEF Present
  <2>4. Apply(r, store[c])' = Apply(r, store[c])
    BY <2>1 DEF Apply
  <2>5. CopyCurrent'
    <3> SUFFICES ASSUME NEW q \in Req, Working(q)'
                 PROVE  Present(handle[q].id)' /\ buf'[q] = Apply(q, store[handle[q].id])'
      BY DEF CopyCurrent
    <3>1. q = r
      BY <2>1, <1>2
    <3>2. buf'[r] = Apply(r, store[handle[r].id])'
      BY <2>1, <2>2, <2>3 DEF Apply
    <3> QED BY <3>1, <3>2, <2>1, <2>2 DEF Present
  <2> QED BY <1>1, <2>1, <2>5, <1>2 DEF WritesKept, Present
<1>9. ASSUME NEW change \in Changes(r), Change(r, change)
      PROVE  OneLive' /\ CopyCurrent' /\ WritesKept' /\ \A t \in gone' : store'[t] = Absent
  <2> DEFINE h == handle[r].id
  <2>1. Live(r) /\ pc' = [pc EXCEPT ![r] = "save"] /\ UNCHANGED <<store, want, gone, handle>>
    BY <1>9 DEF Change, Load, Goto, Live
  <2>2. buf'[r] = Changed(change, store[h]) /\ op'[r] = change /\ Present(h)
    BY <1>9 DEF Change, Load
  <2>3. buf'[r] = Apply(r, store[h])'
    BY <2>1, <2>2 DEF Apply, Changed
  <2>4. CopyCurrent'
    <3> SUFFICES ASSUME NEW q \in Req, Working(q)'
                 PROVE  Present(handle[q].id)' /\ buf'[q] = Apply(q, store[handle[q].id])'
      BY DEF CopyCurrent
    <3>1. q = r
      BY <2>1, <1>2
    <3> QED BY <3>1, <2>3, <2>1, <2>2 DEF Present
  <2> QED BY <1>1, <2>1, <2>4, <1>2 DEF WritesKept, Present
<1> QED BY <1>3, <1>4, <1>5, <1>6, <1>7, <1>8, <1>9 DEF AnyStep

-----------------------------------------------------------------------------
LEMMA SessionInductive == SessionInv /\ [Next]_vars => SessionInv'
<1> SUFFICES ASSUME SessionInv, [Next]_vars  PROVE SessionInv'
  OBVIOUS
<1>1. CASE UNCHANGED vars
  BY <1>1 DEF vars, SessionInv, TypeOK, HandleFacts, IdFacts, OwnCopies, OwnValues, Serial, SerialWritesKept,
       SerialGone, WritesKept, OneLive, CopyCurrent, Present, Apply, Live, Working, Bound, Creator
<1>2. ASSUME NEW r \in Req, AnyStep(r)  PROVE SessionInv'
  BY <1>2, TypesKept, HandlesKept, IdsKept, OwnKept, SerialKept DEF SessionInv
<1>3. CASE Next
  BY <1>1, <1>2, <1>3, SessionSteps DEF AnyStep
<1> QED BY <1>1, <1>3

(* What the invariant says of one creator, as it is counted.               *)
LEMMA CreatedOnce == SessionInv => NewOnce
<1> SUFFICES ASSUME SessionInv, NEW s \in minted
             PROVE  Cardinality({r \in Req : Creator(r, s)}) = 1
  BY DEF NewOnce, Creator
<1>1. PICK r \in Req : Creator(r, s)
  BY DEF SessionInv, IdFacts
<1>2. {q \in Req : Creator(q, s)} = {r}
  BY <1>1 DEF SessionInv, IdFacts, Creator
<1> QED BY <1>2, FS_Singleton

(* For any number of requests, ids, attributes and workers: values stay in *)
(* the session they were set on, a session is new to one request, and one  *)
(* worker loses no change and brings no invalidated session back.          *)
THEOREM SessionsAreSerial == Spec => []SessionsSerial
<1>1. SessionInv => SessionsSerial
  BY CreatedOnce DEF SessionInv, SessionsSerial
<1> QED BY <1>1, SessionInitial, SessionInductive, PTL DEF Spec

-----------------------------------------------------------------------------
(* The authenticators: their inductive invariant. *)

Paths == {"a", "b"}
LoginAttempt ==
  [at : {"inner"}, user : Users, secret : Secrets, token : Tokens \cup {"none"}]
Responses == {DigestResponse(s, n, nc, qop) :
                s \in Secrets, n \in 1..MaxNonces, nc \in 0..2, qop \in BOOLEAN}
DigestAttempt ==
  [at : {"replay", "ha1"}, user : Users, nonce : 1..MaxNonces, nc : 0..2, qop : BOOLEAN,
   response : Responses]
Accepted == [nonce : 1..MaxNonces, nc : 0..2, late : BOOLEAN]

AuthTypes ==
  /\ clock \in Nat
  /\ failures \in [Users -> [count : Nat, locked : Int]]
  /\ attempt \in [Tasks -> {Free} \cup LoginAttempt \cup DigestAttempt]
  /\ saved \in [Tokens -> Paths \cup {"none"}]
  /\ issued \in Seq(Nat) /\ Len(issued) <= MaxNonces
  /\ nonces \in [1..MaxNonces -> [tracked : BOOLEAN, seen : SUBSET (0..2)]]
  /\ history \in [fails : [Users -> Seq(Nat)], replayed : Seq(Tokens \X Paths),
                  digests : Seq(Accepted), spent : Seq(Tokens)]

\* Logins whose inner realm has not answered yet.
InFlight(u) == {t \in Tasks : attempt[t].at = "inner" /\ attempt[t].user = u}

\* The last wrong answers are counted; those before them are older by a lockout
\* window, and as many logins are let in as the limit still allows.
LockOk(f, c, l, now, flying) ==
  LET m == Len(f)
  IN /\ c <= m
     /\ c + flying <= Limit + Cardinality(Tasks) - 1
     /\ l = -1 => c < Limit
     /\ l # -1 => l \in Nat /\ c >= Limit /\ \A i \in 1..m : f[i] <= l
     /\ \A i \in 1..m : f[i] <= now
     /\ \A i \in 1..(m - c) : /\ f[i] + LockoutTime <= now
                              /\ \A j \in (m - c + 1)..m : f[i] + LockoutTime <= f[j]
LockFacts ==
  \A u \in Users :
    LockOk(history.fails[u], failures[u].count, failures[u].locked, clock, Cardinality(InFlight(u)))

\* What is in the store was not replayed.
SavedFacts ==
  \A k \in Tokens : saved[k] # "none" =>
    \A i \in DOMAIN history.replayed : history.replayed[i] # <<k, saved[k]>>

\* A counter that was let through is remembered for as long as its nonce lives.
Stale(n) == clock - issued[n] > NonceTtl
Checked(t) == attempt[t].at = "ha1" /\ attempt[t].nc # 0
SamePair(a, b) == a.nonce = b.nonce /\ a.nc = b.nc
Remembered(a) == a.nonce \in DOMAIN issued /\ (a.nc \in nonces[a.nonce].seen \/ Stale(a.nonce))
DigestFacts ==
  LET d == history.digests
  IN /\ \A t \in Tasks : attempt[t].at \in {"replay", "ha1"} => attempt[t].nonce \in DOMAIN issued
     /\ \A t \in Tasks : Checked(t) => Remembered(attempt[t])
     /\ \A i \in DOMAIN d : Remembered(d[i])
     /\ \A t, u \in Tasks :
          (t # u /\ Checked(t) /\ Checked(u) /\ SamePair(attempt[t], attempt[u])) => Stale(attempt[t].nonce)
     /\ \A t \in Tasks, i \in DOMAIN d :
          (Checked(t) /\ SamePair(attempt[t], d[i])) => Stale(d[i].nonce)

AuthInv ==
  /\ AuthTypes /\ LockFacts /\ SavedFacts /\ DigestFacts
  /\ GuessesLimited /\ SavedOnce /\ CounterOnce

-----------------------------------------------------------------------------
LEMMA InnerAnswers ==
  ASSUME NEW user, NEW secret
  PROVE  Inner(user, secret) \in {"yes", "no", "error"}
BY DEF Inner

LEMMA AuthInitial == AuthInit => AuthInv
<1> SUFFICES ASSUME AuthInit PROVE AuthInv
  OBVIOUS
<1> USE AuthAssumption DEF AuthInit
<1>1. AuthTypes
  BY DEF AuthTypes, NoRecord, NoEntry
<1>2. LockFacts
  <2>1. \A u \in Users : InFlight(u) = {}
    <3>1. \A t \in Tasks : attempt[t].at = "free"
      BY DEF Free
    <3> QED BY <3>1 DEF InFlight
  <2>2. Cardinality(Tasks) \in Nat /\ \A u \in Users : Cardinality(InFlight(u)) = 0
    BY <2>1, FS_CardinalityType, FS_EmptySet
  <2>3. Limit \in Nat /\ Limit >= 1
    BY DEF Limit
  <2>4. \A u \in Users : history.fails[u] = <<>> /\ failures[u].count = 0 /\ failures[u].locked = -1
    BY DEF NoRecord
  <2> QED BY <2>2, <2>3, <2>4 DEF LockFacts, LockOk
<1>3. SavedFacts
  BY DEF SavedFacts
<1>4. DigestFacts
  BY DEF DigestFacts, Checked, Free
<1>5. GuessesLimited /\ SavedOnce /\ CounterOnce
  BY DEF GuessesLimited, SavedOnce, CounterOnce
<1> QED BY <1>1, <1>2, <1>3, <1>4, <1>5 DEF AuthInv

-----------------------------------------------------------------------------
(* The steps on a task. *)
AuthStep(t) ==
  \/ EndLogin(t) \/ CheckReplay(t) \/ EndDigest(t)
  \/ \E u \in Users, s \in Secrets, k \in Tokens \cup {"none"} : BeginLogin(t, u, s, k)
  \/ \E u \in Users, s \in Secrets, n \in 1..MaxNonces, nc \in 0..2, qop \in BOOLEAN :
       BeginDigest(t, u, s, n, nc, qop)
  \/ \E k \in Tokens, p \in Paths : SaveRequest(t, k, p)

OtherStep ==
  Tick \/ Challenge \/ \E k \in Tokens : IssueCsrf(k) \/ ConsumeCsrf(k)

LEMMA AuthSteps == LoginNext \/ DigestNext => OtherStep \/ \E t \in Tasks : AuthStep(t)
BY DEF LoginNext, DigestNext, OtherStep, AuthStep, Paths

(* A task's place tells what it is doing.                                  *)
LEMMA AttemptKinds ==
  ASSUME AuthTypes, NEW t \in Tasks
  PROVE  /\ attempt[t].at = "inner" => attempt[t] \in LoginAttempt
         /\ attempt[t].at \in {"replay", "ha1"} => attempt[t] \in DigestAttempt
<1>1. attempt[t] \in {Free} \cup LoginAttempt \cup DigestAttempt
  BY DEF AuthTypes
<1>2. Free.at = "free"
  BY DEF Free
<1>3. \A a \in LoginAttempt : a.at = "inner"
  BY DEF LoginAttempt
<1>4. \A a \in DigestAttempt : a.at \in {"replay", "ha1"}
  BY DEF DigestAttempt
<1> QED BY <1>1, <1>2, <1>3, <1>4

(* What a login that ends does, by the outcome.                            *)
LoginEnd(t, outcome) ==
  LET a == attempt[t]
      path == IF outcome = "yes" /\ a.token \in Tokens THEN saved[a.token] ELSE "none"
      f == history.fails[a.user]
  IN /\ a \in LoginAttempt
     /\ failures' = Record(a.user, outcome)
     /\ saved' = IF outcome = "yes" THEN TakeSaved(a.token) ELSE saved
     /\ history'.fails = [history.fails EXCEPT ![a.user] =
          IF outcome = "no" THEN Append(f, clock) ELSE IF outcome = "yes" THEN <<>> ELSE f]
     /\ history'.replayed = IF path # "none" THEN Append(history.replayed, <<a.token, path>>)
                            ELSE history.replayed
     /\ history'.digests = history.digests /\ history'.spent = history.spent
     /\ DOMAIN history' = DOMAIN history
     /\ attempt' = [attempt EXCEPT ![t] = Free]
     /\ UNCHANGED <<clock, csrf, issued, nonces>>

LEMMA LoginEnds ==
  ASSUME AuthTypes, NEW t \in Tasks, EndLogin(t)
  PROVE  \E outcome \in {"yes", "no", "error"} : LoginEnd(t, outcome)
<1> DEFINE a == attempt[t]
           outcome == Inner(a.user, a.secret)
           path == IF outcome = "yes" /\ a.token \in Tokens THEN saved[a.token] ELSE "none"
<1>1. a \in LoginAttempt
  BY AttemptKinds DEF EndLogin
<1>2. outcome \in {"yes", "no", "error"}
  BY InnerAnswers
<1>3. history' = [history EXCEPT
        !.fails[a.user] = IF outcome = "no" THEN Append(@, clock)
                          ELSE IF outcome = "yes" THEN <<>> ELSE @,
        !.replayed = IF path # "none" THEN Append(@, <<a.token, path>>) ELSE @]
  BY DEF EndLogin
<1>4. /\ failures' = Record(a.user, outcome)
      /\ saved' = IF outcome = "yes" THEN TakeSaved(a.token) ELSE saved
      /\ attempt' = [attempt EXCEPT ![t] = Free]
      /\ UNCHANGED <<clock, csrf, issued, nonces>>
  BY DEF EndLogin
<1> HIDE DEF outcome
<1>5. history \in [fails : [Users -> Seq(Nat)], replayed : Seq(Tokens \X Paths),
                   digests : Seq(Accepted), spent : Seq(Tokens)]
  BY DEF AuthTypes
<1>6. /\ history'.fails = [history.fails EXCEPT ![a.user] =
           IF outcome = "no" THEN Append(history.fails[a.user], clock)
           ELSE IF outcome = "yes" THEN <<>> ELSE history.fails[a.user]]
      /\ history'.replayed = IF path # "none" THEN Append(history.replayed, <<a.token, path>>)
                             ELSE history.replayed
      /\ history'.digests = history.digests /\ history'.spent = history.spent
      /\ DOMAIN history' = DOMAIN history
  BY <1>3, <1>5
<1> QED
  BY <1>1, <1>2, <1>4, <1>6 DEF LoginEnd

-----------------------------------------------------------------------------
LEMMA AuthTypesKept ==
  ASSUME AuthTypes, OtherStep \/ \E t \in Tasks : AuthStep(t)
  PROVE  AuthTypes'
<1> USE DEF AuthTypes
<1>1. CASE Tick
  BY <1>1 DEF Tick
<1>2. CASE Challenge
  <2>1. issued' \in Seq(Nat) /\ Len(issued') = Len(issued) + 1
    BY <1>2 DEF Challenge
  <2> QED BY <1>2, <2>1, AuthAssumption DEF Challenge
<1>3. ASSUME NEW k \in Tokens, IssueCsrf(k) \/ ConsumeCsrf(k)  PROVE AuthTypes'
  <2>1. CASE IssueCsrf(k)
    BY <2>1 DEF IssueCsrf
  <2>2. CASE ConsumeCsrf(k)
    <3>1. Append(history.spent, k) \in Seq(Tokens)
      OBVIOUS
    <3>2. history' = [history EXCEPT !.spent = Append(history.spent, k)]
      BY <2>2 DEF ConsumeCsrf
    <3> QED BY <2>2, <3>1, <3>2 DEF ConsumeCsrf
  <2> QED BY <1>3, <2>1, <2>2
<1>4. ASSUME NEW t \in Tasks, NEW u \in Users, NEW s \in Secrets, NEW k \in Tokens \cup {"none"},
             BeginLogin(t, u, s, k)
      PROVE  AuthTypes'
  <2>1. attempt' \in [Tasks -> {Free} \cup LoginAttempt \cup DigestAttempt]
    BY <1>4 DEF BeginLogin, LoginAttempt
  <2>2. failures' \in [Users -> [count : Nat, locked : Int]]
    BY <1>4 DEF BeginLogin, NoRecord
  <2> QED BY <1>4, <2>1, <2>2 DEF BeginLogin
<1>5. ASSUME NEW t \in Tasks, EndLogin(t)  PROVE AuthTypes'
  <2>1. PICK outcome \in {"yes", "no", "error"} : LoginEnd(t, outcome)
    BY <1>5, LoginEnds
  <2> DEFINE a == attempt[t]
  <2>2. a.user \in Users
    BY <2>1 DEF LoginEnd, LoginAttempt
  <2>3. failures' \in [Users -> [count : Nat, locked : Int]]
    <3>1. failures' = Record(a.user, outcome)
      BY <2>1 DEF LoginEnd
    <3> HIDE DEF a
    <3>2. CASE outcome = "yes"
      BY <3>1, <3>2, <2>2 DEF Record, NoRecord
    <3>3. CASE outcome = "no"
      BY <3>1, <3>3, <2>2 DEF Record
    <3>4. CASE outcome = "error"
      BY <3>1, <3>4 DEF Record
    <3> QED BY <3>2, <3>3, <3>4
  <2>4. saved' \in [Tokens -> Paths \cup {"none"}]
    BY <2>1 DEF LoginEnd, TakeSaved
  <2>5. history'.fails \in [Users -> Seq(Nat)]
    <3>1. Append(history.fails[a.user], clock) \in Seq(Nat) /\ <<>> \in Seq(Nat)
      BY <2>2
    <3> QED BY <2>1, <2>2, <3>1 DEF LoginEnd
  <2>6. history'.replayed \in Seq(Tokens \X Paths)
    <3> DEFINE path == IF outcome = "yes" /\ a.token \in Tokens THEN saved[a.token] ELSE "none"
    <3>1. history'.replayed = IF path # "none" THEN Append(history.replayed, <<a.token, path>>)
                              ELSE history.replayed
      BY <2>1 DEF LoginEnd
    <3>2. path # "none" => <<a.token, path>> \in Tokens \X Paths
      OBVIOUS
    <3> HIDE DEF path, a
    <3> QED BY <3>1, <3>2
  <2>7. history'.digests = history.digests /\ history'.spent = history.spent
        /\ DOMAIN history' = DOMAIN history
    BY <2>1 DEF LoginEnd
  <2>8. history' = [history EXCEPT !.fails = history'.fails, !.replayed = history'.replayed]
    BY <1>5 DEF EndLogin
  <2>9. history' \in [fails : [Users -> Seq(Nat)], replayed : Seq(Tokens \X Paths),
                      digests : Seq(Accepted), spent : Seq(Tokens)]
    BY <2>5, <2>6, <2>8
  <2> QED BY <2>1, <2>3, <2>4, <2>9 DEF LoginEnd
<1>6. ASSUME NEW t \in Tasks, NEW k \in Tokens, NEW p \in Paths, SaveRequest(t, k, p)
      PROVE  AuthTypes'
  BY <1>6 DEF SaveRequest
<1>7. ASSUME NEW t \in Tasks, NEW u \in Users, NEW s \in Secrets, NEW n \in 1..MaxNonces,
             NEW nc \in 0..2, NEW qop \in BOOLEAN, BeginDigest(t, u, s, n, nc, qop)
      PROVE  AuthTypes'
  <2>1. DigestResponse(s, n, nc, qop) \in Responses
    BY DEF Responses
  <2>2. attempt' \in [Tasks -> {Free} \cup LoginAttempt \cup DigestAttempt]
    BY <1>7, <2>1 DEF BeginDigest, DigestAttempt
  <2> QED BY <1>7, <2>2 DEF BeginDigest
<1>8. ASSUME NEW t \in Tasks, CheckReplay(t)  PROVE AuthTypes'
  <2>1. attempt[t] \in DigestAttempt
    BY <1>8, AttemptKinds DEF CheckReplay
  <2>2. [attempt[t] EXCEPT !.at = "ha1"] \in DigestAttempt
    BY <2>1 DEF DigestAttempt
  <2>3. attempt' \in [Tasks -> {Free} \cup LoginAttempt \cup DigestAttempt]
    BY <1>8, <2>2 DEF CheckReplay
  <2>4. Pruned \in [1..MaxNonces -> [tracked : BOOLEAN, seen : SUBSET (0..2)]]
    BY DEF Pruned, NoEntry
  <2>5. nonces' \in [1..MaxNonces -> [tracked : BOOLEAN, seen : SUBSET (0..2)]]
    <3>1. attempt[t].nonce \in 1..MaxNonces /\ attempt[t].nc \in 0..2
      BY <2>1 DEF DigestAttempt
    <3> QED BY <1>8, <2>4, <3>1 DEF CheckReplay
  <2> QED BY <1>8, <2>3, <2>5 DEF CheckReplay
<1>9. ASSUME NEW t \in Tasks, EndDigest(t)  PROVE AuthTypes'
  <2>1. attempt[t] \in DigestAttempt
    BY <1>9, AttemptKinds DEF EndDigest
  <2> DEFINE d == [nonce |-> attempt[t].nonce, nc |-> attempt[t].nc,
                   late |-> clock - issued[attempt[t].nonce] > NonceTtl]
  <2>2. d \in Accepted
    BY <2>1 DEF DigestAttempt, Accepted
  <2>3. Append(history.digests, d) \in Seq(Accepted)
    BY <2>2
  <2>4. history' = history \/ history' = [history EXCEPT !.digests = Append(history.digests, d)]
    BY <1>9 DEF EndDigest
  <2> HIDE DEF d
  <2>5. history' \in [fails : [Users -> Seq(Nat)], replayed : Seq(Tokens \X Paths),
                      digests : Seq(Accepted), spent : Seq(Tokens)]
    BY <2>3, <2>4
  <2>6. attempt' = [attempt EXCEPT ![t] = Free] /\ UNCHANGED <<clock, failures, saved, csrf, issued, nonces>>
    BY <1>9 DEF EndDigest
  <2> QED BY <2>5, <2>6
<1> HIDE DEF AuthTypes
<1>10. ASSUME NEW t \in Tasks, AuthStep(t)  PROVE AuthTypes'
  BY <1>4, <1>5, <1>6, <1>7, <1>8, <1>9, <1>10 DEF AuthStep
<1> QED BY <1>1, <1>2, <1>3, <1>10 DEF OtherStep

-----------------------------------------------------------------------------
(* The lockout. *)

LEMMA LimitFacts ==
  /\ Limit \in Nat /\ Limit >= 1 /\ FailureCount <= Limit
  /\ \A c \in Nat : (c + 1 < FailureCount => c + 1 < Limit)
                    /\ (c + 1 >= FailureCount <=> c + 1 >= Limit)
  /\ Cardinality(Tasks) \in Nat
  /\ \A u : /\ IsFiniteSet(InFlight(u)) /\ Cardinality(InFlight(u)) \in Nat
            /\ Cardinality(InFlight(u)) <= Cardinality(Tasks)
<1>1. Limit \in Nat /\ Limit >= 1 /\ FailureCount <= Limit
  BY AuthAssumption DEF Limit
<1>2. \A c \in Nat : (c + 1 < FailureCount => c + 1 < Limit)
                    /\ (c + 1 >= FailureCount <=> c + 1 >= Limit)
  BY AuthAssumption DEF Limit
<1>3. \A u : InFlight(u) \in SUBSET Tasks
  BY DEF InFlight
<1> QED BY <1>1, <1>2, <1>3, AuthAssumption, FS_CardinalityType, FS_Subset

(* A wrong answer.                                                         *)
LEMMA LockOkFails ==
  ASSUME NEW f \in Seq(Nat), NEW c \in Nat, NEW l \in Int, NEW now \in Nat, NEW k \in Nat,
         LockOk(f, c, l, now, k + 1)
  PROVE  LockOk(Append(f, now), c + 1, IF c + 1 >= FailureCount THEN now ELSE l, now, k)
<1> DEFINE g == Append(f, now)
           m == Len(f)
           l2 == IF c + 1 >= FailureCount THEN now ELSE l
<1>1. g \in Seq(Nat) /\ Len(g) = m + 1 /\ g[m + 1] = now /\ m \in Nat /\ \A i \in 1..m : g[i] = f[i] /\ f[i] \in Nat
  OBVIOUS
<1>2. c <= m /\ c + (k + 1) <= Limit + Cardinality(Tasks) - 1 /\ (l = -1 => c < Limit)
      /\ (l # -1 => l \in Nat /\ c >= Limit /\ \A i \in 1..m : f[i] <= l) /\ \A i \in 1..m : f[i] <= now
  BY DEF LockOk
<1>3. \A i \in 1..(m - c) : /\ f[i] + LockoutTime <= now
                            /\ \A j \in (m - c + 1)..m : f[i] + LockoutTime <= f[j]
  BY DEF LockOk
<1> HIDE DEF g, m
<1>4. c + 1 <= m + 1 /\ (c + 1) + k <= Limit + Cardinality(Tasks) - 1
  BY <1>1, <1>2, LimitFacts
<1>5. l2 = -1 => c + 1 < Limit
  BY LimitFacts, AuthAssumption
<1>6. \A i \in 1..(m + 1) : g[i] <= now
  BY <1>1, <1>2
<1>7. l2 # -1 => l2 \in Nat /\ c + 1 >= Limit /\ \A i \in 1..(m + 1) : g[i] <= l2
  <2>1. CASE c + 1 >= FailureCount
    BY <2>1, <1>6, LimitFacts
  <2>2. CASE ~(c + 1 >= FailureCount)
    <3>1. FailureCount <= Limit /\ Limit \in Nat /\ FailureCount \in Nat
      BY LimitFacts, AuthAssumption
    <3>2. l = -1
      BY <3>1, <2>2, <1>2
    <3> QED BY <3>2, <2>2
  <2> QED BY <2>1, <2>2
<1>8. \A i \in 1..((m + 1) - (c + 1)) : /\ g[i] + LockoutTime <= now
        /\ \A j \in ((m + 1) - (c + 1) + 1)..(m + 1) : g[i] + LockoutTime <= g[j]
  <2>1. LockoutTime \in Nat
    BY AuthAssumption
  <2>2. (m + 1) - (c + 1) = m - c /\ (m + 1) - (c + 1) + 1 = m - c + 1
    BY <1>1
  <2>3. \A i \in 1..(m - c) : i \in 1..m /\ g[i] + LockoutTime <= now
    <3>1. \A i \in 1..(m - c) : i \in 1..m
      BY <1>1, <1>2
    <3> QED BY <3>1, <1>1, <1>3
  <2>4. \A i \in 1..(m - c), j \in (m - c + 1)..(m + 1) : g[i] + LockoutTime <= g[j]
    <3> SUFFICES ASSUME NEW i \in 1..(m - c), NEW j \in (m - c + 1)..(m + 1)
                 PROVE  g[i] + LockoutTime <= g[j]
      OBVIOUS
    <3>1. CASE j = m + 1
      BY <3>1, <2>3, <1>1
    <3>2. CASE j # m + 1
      <4>1. j \in (m - c + 1)..m /\ j \in 1..m /\ i \in 1..m
        BY <3>2, <1>1, <1>2
      <4> QED BY <4>1, <1>1, <1>3
    <3> QED BY <3>1, <3>2
  <2> QED BY <2>2, <2>3, <2>4
<1> QED BY <1>1, <1>4, <1>5, <1>6, <1>7, <1>8 DEF LockOk, g, m

(* Time passes, and fewer logins are under way.                            *)
LEMMA LockOkLater ==
  ASSUME NEW f \in Seq(Nat), NEW c \in Nat, NEW l \in Int, NEW now \in Nat, NEW k \in Nat,
         NEW later \in Nat, NEW fewer \in Nat, later >= now, fewer <= k, LockOk(f, c, l, now, k)
  PROVE  LockOk(f, c, l, later, fewer)
<1>1. Len(f) \in Nat /\ \A i \in 1..Len(f) : f[i] \in Nat
  OBVIOUS
<1>2. c + fewer <= Limit + Cardinality(Tasks) - 1
  BY LimitFacts DEF LockOk
<1>3. \A i \in 1..Len(f) : f[i] <= later
  BY <1>1 DEF LockOk
<1>4. \A i \in 1..(Len(f) - c) : f[i] + LockoutTime <= later
  BY <1>1, AuthAssumption DEF LockOk
<1> QED BY <1>2, <1>3, <1>4 DEF LockOk

(* A login is let in: nobody is locked out, or the window has passed.      *)
LEMMA LockOkBegins ==
  ASSUME NEW f \in Seq(Nat), NEW c \in Nat, NEW l \in Int, NEW now \in Nat, NEW k \in Nat,
         NEW more \in Nat, more <= Cardinality(Tasks),
         LockOk(f, c, l, now, k), l = -1 \/ now - l >= LockoutTime
  PROVE  LockOk(f, IF l # -1 THEN 0 ELSE c, -1, now, more)
<1>1. Len(f) \in Nat /\ \A i \in 1..Len(f) : f[i] \in Nat
  OBVIOUS
<1>2. CASE l = -1
  <2>1. c < Limit
    BY <1>2 DEF LockOk
  <2>2. c + more <= Limit + Cardinality(Tasks) - 1
    BY <2>1, LimitFacts
  <2> QED BY <1>2, <2>1, <2>2 DEF LockOk
<1>3. CASE l # -1
  <2>1. \A i \in 1..Len(f) : f[i] + LockoutTime <= now
    BY <1>1, <1>3, AuthAssumption DEF LockOk
  <2>2. 0 + more <= Limit + Cardinality(Tasks) - 1
    BY LimitFacts
  <2>3. \A i \in 1..Len(f) : f[i] <= now
    BY DEF LockOk
  <2>4. 0 <= Len(f) /\ 0 < Limit /\ Len(f) - 0 = Len(f)
    BY <1>1, LimitFacts
  <2>5. (Len(f) - 0 + 1)..Len(f) = {}
    BY <1>1
  <2> QED BY <1>3, <2>1, <2>2, <2>3, <2>4, <2>5 DEF LockOk
<1> QED BY <1>2, <1>3

(* A right answer.                                                         *)
LEMMA LockOkFresh ==
  ASSUME NEW now \in Nat, NEW k \in Nat, k <= Cardinality(Tasks)
  PROVE  LockOk(<<>>, 0, -1, now, k)
BY LimitFacts DEF LockOk

(* Logins under way, before and after.                                     *)
LEMMA InFlightAfter ==
  ASSUME AuthTypes, NEW t \in Tasks, NEW a, attempt' = [attempt EXCEPT ![t] = a], NEW u \in Users
  PROVE  /\ ~(a.at = "inner" /\ a.user = u) => InFlight(u)' = InFlight(u) \ {t}
         /\ (a.at = "inner" /\ a.user = u) => InFlight(u)' = InFlight(u) \cup {t}
BY DEF InFlight, AuthTypes

LEMMA InFlightCount ==
  ASSUME AuthTypes, NEW t \in Tasks, NEW a, attempt' = [attempt EXCEPT ![t] = a], NEW u \in Users
  PROVE  /\ Cardinality(InFlight(u)') \in Nat /\ Cardinality(InFlight(u)') <= Cardinality(Tasks)
         /\ ~(a.at = "inner" /\ a.user = u) =>
               /\ Cardinality(InFlight(u)') <= Cardinality(InFlight(u))
               /\ t \in InFlight(u) => Cardinality(InFlight(u)) = Cardinality(InFlight(u)') + 1
<1>1. InFlight(u)' \in SUBSET Tasks
  BY DEF InFlight
<1>2. Cardinality(InFlight(u)') \in Nat /\ Cardinality(InFlight(u)') <= Cardinality(Tasks)
  BY <1>1, AuthAssumption, FS_Subset, FS_CardinalityType
<1>3. ASSUME ~(a.at = "inner" /\ a.user = u)
      PROVE  /\ Cardinality(InFlight(u)') <= Cardinality(InFlight(u))
             /\ t \in InFlight(u) => Cardinality(InFlight(u)) = Cardinality(InFlight(u)') + 1
  <2>1. InFlight(u)' = InFlight(u) \ {t}
    BY <1>3, InFlightAfter
  <2>2. IsFiniteSet(InFlight(u))
    BY LimitFacts
  <2>3. CASE t \in InFlight(u)
    <3>1. Cardinality(InFlight(u) \ {t}) = Cardinality(InFlight(u)) - 1
      BY <2>2, <2>3, FS_RemoveElement
    <3> QED BY <2>1, <3>1, LimitFacts
  <2>4. CASE t \notin InFlight(u)
    <3>1. InFlight(u)' = InFlight(u)
      BY <2>1, <2>4
    <3>2. Cardinality(InFlight(u)) \in Nat
      BY LimitFacts
    <3> QED BY <2>4, <3>1, <3>2
  <2> QED BY <2>3, <2>4
<1> QED BY <1>2, <1>3

LEMMA LocksKept ==
  ASSUME AuthInv, OtherStep \/ \E t \in Tasks : AuthStep(t)
  PROVE  LockFacts'
<1> DEFINE F(u) == history.fails[u]
           C(u) == failures[u].count
           L(u) == failures[u].locked
           N(u) == Cardinality(InFlight(u))
<1>1. \A u \in Users : F(u) \in Seq(Nat) /\ C(u) \in Nat /\ L(u) \in Int /\ N(u) \in Nat
                         /\ LockOk(F(u), C(u), L(u), clock, N(u))
  BY LimitFacts DEF AuthInv, AuthTypes, LockFacts
<1>2. AuthTypes /\ clock \in Nat
  BY DEF AuthInv, AuthTypes
<1>0. ASSUME NEW u \in Users, NEW k \in Nat, k <= N(u), NEW later \in Nat, later >= clock
      PROVE  LockOk(F(u), C(u), L(u), later, k)
  BY <1>0, <1>1, <1>2, LockOkLater
\* Nothing but the logins under way, of which there are not more, and the clock.
<1>3. ASSUME history'.fails = history.fails, failures' = failures, clock' \in Nat, clock' >= clock,
             \A u \in Users : Cardinality(InFlight(u)') \in Nat /\ Cardinality(InFlight(u)') <= N(u)
      PROVE  LockFacts'
  <2> SUFFICES ASSUME NEW u \in Users
               PROVE  LockOk(F(u), C(u), L(u), clock', Cardinality(InFlight(u)'))
    BY <1>3 DEF LockFacts
  <2> QED BY <1>0, <1>3
<1>4. ASSUME attempt' = attempt, history'.fails = history.fails, failures' = failures, clock' \in {clock, clock + 1}
      PROVE  LockFacts'
  <2>1. \A u \in Users : InFlight(u)' = InFlight(u)
    BY <1>4 DEF InFlight
  <2>2. clock' \in Nat /\ clock' >= clock
    BY <1>1, <1>2, <1>4
  <2>3. \A u \in Users : Cardinality(InFlight(u)') \in Nat /\ Cardinality(InFlight(u)') <= N(u)
    BY <1>1, <1>2, <2>1
  <2> QED BY <1>3, <1>4, <2>2, <2>3
<1>5. ASSUME NEW t \in Tasks, NEW a, attempt' = [attempt EXCEPT ![t] = a], a.at # "inner",
             history'.fails = history.fails, failures' = failures, clock' = clock
      PROVE  LockFacts'
  <2>1. \A u \in Users : Cardinality(InFlight(u)') \in Nat /\ Cardinality(InFlight(u)') <= N(u)
    BY <1>2, <1>5, InFlightCount
  <2>2. clock' \in Nat /\ clock' >= clock
    BY <1>1, <1>2, <1>5
  <2> QED BY <1>3, <1>5, <2>1, <2>2
<1>6. CASE OtherStep
  <2>1. attempt' = attempt /\ failures' = failures /\ clock' \in {clock, clock + 1}
    BY <1>6 DEF OtherStep, Tick, Challenge, IssueCsrf, ConsumeCsrf
  <2>2. history'.fails = history.fails
    BY <1>6, <1>2 DEF OtherStep, Tick, Challenge, IssueCsrf, ConsumeCsrf, AuthTypes
  <2> QED BY <2>1, <2>2, <1>4
<1>7. ASSUME NEW t \in Tasks, NEW k \in Tokens, NEW p \in Paths, SaveRequest(t, k, p)
      PROVE  LockFacts'
  BY <1>7, <1>1, <1>4 DEF SaveRequest
<1>8. ASSUME NEW t \in Tasks, NEW u \in Users, NEW s \in Secrets, NEW n \in 1..MaxNonces,
             NEW nc \in 0..2, NEW qop \in BOOLEAN, BeginDigest(t, u, s, n, nc, qop)
      PROVE  LockFacts'
  <2> DEFINE a == [at |-> "replay", user |-> u, nonce |-> n, nc |-> nc, qop |-> qop,
                   response |-> DigestResponse(s, n, nc, qop)]
  <2>1. attempt' = [attempt EXCEPT ![t] = a] /\ history' = history /\ failures' = failures /\ clock' = clock
    BY <1>8 DEF BeginDigest
  <2>2. a.at # "inner"
    OBVIOUS
  <2> HIDE DEF a
  <2> QED BY <2>1, <2>2, <1>5
<1>9. ASSUME NEW t \in Tasks, CheckReplay(t)  PROVE LockFacts'
  <2>1. attempt[t] \in DigestAttempt
    BY <1>9, <1>2, AttemptKinds DEF CheckReplay
  <2>2. [attempt[t] EXCEPT !.at = "ha1"].at # "inner" /\ Free.at # "inner"
    BY <2>1 DEF DigestAttempt, Free
  <2>3. \E a \in {[attempt[t] EXCEPT !.at = "ha1"], Free} : attempt' = [attempt EXCEPT ![t] = a]
    BY <1>9 DEF CheckReplay
  <2>4. history' = history /\ failures' = failures /\ clock' = clock
    BY <1>9 DEF CheckReplay
  <2> QED BY <2>2, <2>3, <2>4, <1>5
<1>10. ASSUME NEW t \in Tasks, EndDigest(t)  PROVE LockFacts'
  <2>1. Free.at # "inner"
    BY DEF Free
  <2>2. history'.fails = history.fails
    BY <1>10, <1>2 DEF EndDigest, AuthTypes
  <2>3. attempt' = [attempt EXCEPT ![t] = Free] /\ failures' = failures /\ clock' = clock
    BY <1>10 DEF EndDigest
  <2> QED BY <2>1, <2>2, <2>3, <1>5
<1>11. ASSUME NEW t \in Tasks, NEW v \in Users, NEW s \in Secrets, NEW k \in Tokens \cup {"none"},
              BeginLogin(t, v, s, k)
       PROVE  LockFacts'
  <2> DEFINE a == [at |-> "inner", user |-> v, secret |-> s, token |-> k]
  <2>1. /\ attempt[t] = Free /\ ~Locked(v) /\ attempt' = [attempt EXCEPT ![t] = a]
        /\ failures' = [failures EXCEPT ![v] = IF failures[v].locked # -1 THEN NoRecord ELSE failures[v]]
        /\ clock' = clock /\ history' = history
    BY <1>11 DEF BeginLogin
  <2>2. a.at = "inner" /\ a.user = v
    OBVIOUS
  <2> HIDE DEF a
  <2>3. ASSUME NEW u \in Users, u # v
        PROVE  LockOk(history'.fails[u], failures'[u].count, failures'[u].locked, clock', Cardinality(InFlight(u)'))
    <3>1. Cardinality(InFlight(u)') \in Nat /\ Cardinality(InFlight(u)') <= N(u)
      BY <1>2, <2>1, <2>2, <2>3, InFlightCount
    <3>2. failures'[u] = failures[u]
      BY <2>1, <2>3, <1>2 DEF AuthTypes
    <3>3. LockOk(F(u), C(u), L(u), clock, Cardinality(InFlight(u)'))
      BY <1>0, <1>1, <1>2, <3>1
    <3> QED BY <2>1, <3>2, <3>3
  <2>4. LockOk(history'.fails[v], failures'[v].count, failures'[v].locked, clock', Cardinality(InFlight(v)'))
    <3>1. Cardinality(InFlight(v)') \in Nat /\ Cardinality(InFlight(v)') <= Cardinality(Tasks)
      BY <1>2, <2>1, InFlightCount
    <3>2. L(v) = -1 \/ clock - L(v) >= LockoutTime
      <4>1. L(v) = -1 \/ ~(clock - L(v) < LockoutTime)
        BY <2>1 DEF Locked
      <4>2. L(v) \in Int /\ LockoutTime \in Nat
        BY <1>1, AuthAssumption
      <4> QED BY <4>1, <4>2, <1>2
    <3>3. failures'[v].count = (IF L(v) # -1 THEN 0 ELSE C(v)) /\ failures'[v].locked = -1
      BY <2>1, <1>2 DEF AuthTypes, NoRecord
    <3>4. LockOk(F(v), IF L(v) # -1 THEN 0 ELSE C(v), -1, clock, Cardinality(InFlight(v)'))
      BY <1>1, <1>2, <3>1, <3>2, LockOkBegins
    <3> QED BY <2>1, <3>3, <3>4
  <2> QED BY <2>3, <2>4 DEF LockFacts
<1>12. ASSUME NEW t \in Tasks, EndLogin(t)  PROVE LockFacts'
  <2>1. PICK outcome \in {"yes", "no", "error"} : LoginEnd(t, outcome)
    BY <1>2, <1>12, LoginEnds
  <2>9. PICK v \in Users : v = attempt[t].user
    BY <2>1 DEF LoginEnd, LoginAttempt
  <2>2. /\ v \in Users /\ t \in InFlight(v)
        /\ failures' = Record(v, outcome)
        /\ attempt' = [attempt EXCEPT ![t] = Free] /\ clock' = clock
        /\ history'.fails = [history.fails EXCEPT ![v] =
             IF outcome = "no" THEN Append(F(v), clock) ELSE IF outcome = "yes" THEN <<>> ELSE F(v)]
    BY <2>1, <2>9 DEF LoginEnd, LoginAttempt, InFlight
  <2>3. Free.at # "inner"
    BY DEF Free
  <2>4. /\ Cardinality(InFlight(v)') \in Nat /\ Cardinality(InFlight(v)') <= N(v)
        /\ Cardinality(InFlight(v)') <= Cardinality(Tasks)
        /\ N(v) = Cardinality(InFlight(v)') + 1
    BY <1>2, <2>2, <2>3, InFlightCount
  <2>5. ASSUME NEW u \in Users, u # v
        PROVE  LockOk(history'.fails[u], failures'[u].count, failures'[u].locked, clock', Cardinality(InFlight(u)'))
    <3>1. failures'[u] = failures[u] /\ history'.fails[u] = F(u)
      BY <2>2, <2>5, <1>2 DEF AuthTypes, Record
    <3>2. Cardinality(InFlight(u)') \in Nat /\ Cardinality(InFlight(u)') <= N(u)
      BY <1>2, <2>2, <2>3, InFlightCount
    <3>3. LockOk(F(u), C(u), L(u), clock, Cardinality(InFlight(u)'))
      BY <1>0, <1>2, <3>2
    <3> QED BY <2>2, <3>1, <3>3
  <2>6. CASE outcome = "yes"
    <3>1. history'.fails[v] = <<>> /\ failures'[v].count = 0 /\ failures'[v].locked = -1
      BY <2>2, <2>6, <1>2 DEF AuthTypes, Record, NoRecord
    <3>2. LockOk(<<>>, 0, -1, clock, Cardinality(InFlight(v)'))
      BY <1>1, <1>2, <2>2, <2>4, LockOkFresh
    <3> QED BY <2>2, <2>5, <3>1, <3>2 DEF LockFacts
  <2>7. CASE outcome = "no"
    <3>1. history'.fails[v] = Append(F(v), clock) /\ failures'[v].count = C(v) + 1
          /\ failures'[v].locked = (IF C(v) + 1 >= FailureCount THEN clock ELSE L(v))
      BY <2>2, <2>7, <1>2 DEF AuthTypes, Record
    <3>2. LockOk(F(v), C(v), L(v), clock, Cardinality(InFlight(v)') + 1)
      BY <1>1, <1>2, <2>2, <2>4
    <3>3. LockOk(Append(F(v), clock), C(v) + 1, IF C(v) + 1 >= FailureCount THEN clock ELSE L(v), clock,
                 Cardinality(InFlight(v)'))
      BY <1>1, <1>2, <2>2, <2>4, <3>2, LockOkFails
    <3> QED BY <2>2, <2>5, <3>1, <3>3 DEF LockFacts
  <2>8. CASE outcome = "error"
    <3>1. history'.fails[v] = F(v) /\ failures' = failures
      BY <2>2, <2>8, <1>2 DEF AuthTypes, Record
    <3>2. LockOk(F(v), C(v), L(v), clock, Cardinality(InFlight(v)'))
      BY <1>0, <1>1, <1>2, <2>2, <2>4
    <3> QED BY <2>2, <2>5, <3>1, <3>2 DEF LockFacts
  <2> QED BY <2>6, <2>7, <2>8
<1> QED BY <1>6, <1>7, <1>8, <1>9, <1>10, <1>11, <1>12 DEF AuthStep

(* Answers so far apart, that is, are a window apart.                      *)
Apart(f) ==
  LET n == Limit + Cardinality(Tasks) - 1
  IN \A i \in DOMAIN f : i + n \in DOMAIN f => f[i + n] - f[i] >= LockoutTime

LEMMA ApartFails ==
  ASSUME NEW f \in Seq(Nat), NEW c \in Nat, NEW l \in Int, NEW now \in Nat, NEW k \in Nat,
         Apart(f), LockOk(Append(f, now), c, l, now, k)
  PROVE  Apart(Append(f, now))
<1> DEFINE g == Append(f, now)
           m == Len(f)
           n == Limit + Cardinality(Tasks) - 1
<1>1. m \in Nat /\ DOMAIN f = 1..m /\ DOMAIN g = 1..(m + 1) /\ Len(g) = m + 1 /\ g[m + 1] = now
      /\ \A i \in 1..m : g[i] = f[i] /\ f[i] \in Nat
  OBVIOUS
<1>2. n \in Nat /\ c <= n /\ LockoutTime \in Nat
  BY LimitFacts, AuthAssumption DEF LockOk
<1>3. \A i \in 1..(m + 1 - c) : g[i] + LockoutTime <= now
  BY <1>1 DEF LockOk
<1> SUFFICES ASSUME NEW i \in DOMAIN g, i + n \in DOMAIN g  PROVE g[i + n] - g[i] >= LockoutTime
  BY DEF Apart
<1> HIDE DEF g, m, n
<1>4. CASE i + n = m + 1
  <2>1. i \in 1..(m + 1 - c)
    BY <1>1, <1>2, <1>4
  <2>2. g[i] \in Nat
    BY <1>1
  <2> QED BY <1>1, <1>2, <1>3, <1>4, <2>1, <2>2
<1>5. CASE i + n # m + 1
  <2>1. i \in DOMAIN f /\ i + n \in DOMAIN f
    BY <1>1, <1>2, <1>5
  <2>2. f[i + n] - f[i] >= LockoutTime
    BY <2>1 DEF Apart, n
  <2> QED BY <1>1, <2>1, <2>2
<1> QED BY <1>4, <1>5

LEMMA GuessesKept ==
  ASSUME AuthInv, LockFacts', AuthTypes', OtherStep \/ \E t \in Tasks : AuthStep(t)
  PROVE  GuessesLimited'
<1>1. AuthTypes /\ \A u \in Users : Apart(history.fails[u])
  BY DEF AuthInv, GuessesLimited, Apart
<1>2. ASSUME history'.fails = history.fails  PROVE GuessesLimited'
  BY <1>1, <1>2 DEF GuessesLimited, Apart
<1>3. CASE OtherStep
  <2>1. history'.fails = history.fails
    BY <1>3, <1>1 DEF OtherStep, Tick, Challenge, IssueCsrf, ConsumeCsrf, AuthTypes
  <2> QED BY <1>2, <2>1
<1>4. ASSUME NEW t \in Tasks, AuthStep(t), ~EndLogin(t)  PROVE GuessesLimited'
  <2>1. history'.fails = history.fails
    BY <1>4, <1>1 DEF AuthStep, CheckReplay, EndDigest, BeginLogin, BeginDigest, SaveRequest, AuthTypes
  <2> QED BY <1>2, <2>1
<1>5. ASSUME NEW t \in Tasks, EndLogin(t)  PROVE GuessesLimited'
  <2>1. PICK outcome \in {"yes", "no", "error"} : LoginEnd(t, outcome)
    BY <1>1, <1>5, LoginEnds
  <2>2. PICK v \in Users : v = attempt[t].user
    BY <2>1 DEF LoginEnd, LoginAttempt
  <2>3. /\ clock' = clock
        /\ history'.fails = [history.fails EXCEPT ![v] =
             IF outcome = "no" THEN Append(history.fails[v], clock)
             ELSE IF outcome = "yes" THEN <<>> ELSE history.fails[v]]
    BY <2>1, <2>2 DEF LoginEnd
  <2>4. clock \in Nat /\ \A u \in Users : history.fails[u] \in Seq(Nat)
    BY <1>1 DEF AuthTypes
  <2>5. ASSUME NEW u \in Users  PROVE Apart(history'.fails[u])
    <3>1. CASE history'.fails[u] = history.fails[u]
      BY <1>1, <3>1
    <3>2. CASE history'.fails[u] = <<>>
      BY <3>2 DEF Apart
    <3>3. CASE history'.fails[u] = Append(history.fails[u], clock)
      <4>1. failures'[u].count \in Nat /\ failures'[u].locked \in Int
        BY DEF AuthTypes
      <4>2. Cardinality(InFlight(u)') \in Nat
        <5>1. InFlight(u)' \in SUBSET Tasks
          BY DEF InFlight
        <5> QED BY <5>1, AuthAssumption, FS_Subset, FS_CardinalityType
      <4>3. LockOk(Append(history.fails[u], clock), failures'[u].count, failures'[u].locked, clock,
                   Cardinality(InFlight(u)'))
        BY <2>3, <3>3 DEF LockFacts
      <4> QED BY <1>1, <2>4, <3>3, <4>1, <4>2, <4>3, ApartFails
    <3>4. history'.fails[u] \in {history.fails[u], <<>>, Append(history.fails[u], clock)}
      BY <2>3, <1>1 DEF AuthTypes
    <3> QED BY <3>1, <3>2, <3>3, <3>4
  <2> QED BY <2>5 DEF GuessesLimited, Apart
<1> QED BY <1>3, <1>4, <1>5

-----------------------------------------------------------------------------
(* The saved requests. *)

LEMMA SavedKept ==
  ASSUME AuthInv, OtherStep \/ \E t \in Tasks : AuthStep(t)
  PROVE  SavedFacts' /\ SavedOnce'
<1> DEFINE R == history.replayed
<1>1. AuthTypes /\ SavedFacts /\ SavedOnce /\ R \in Seq(Tokens \X Paths)
  BY DEF AuthInv, AuthTypes
<1>2. ASSUME history'.replayed = R, saved' = saved  PROVE SavedFacts' /\ SavedOnce'
  BY <1>1, <1>2 DEF SavedFacts, SavedOnce
<1>3. CASE OtherStep
  <2>1. history'.replayed = R /\ saved' = saved
    BY <1>3, <1>1 DEF OtherStep, Tick, Challenge, IssueCsrf, ConsumeCsrf, AuthTypes
  <2> QED BY <1>2, <2>1
<1>4. ASSUME NEW t \in Tasks, AuthStep(t), ~EndLogin(t),
             ~\E k \in Tokens, p \in Paths : SaveRequest(t, k, p)
      PROVE  SavedFacts' /\ SavedOnce'
  <2>1. history'.replayed = R /\ saved' = saved
    BY <1>4, <1>1 DEF AuthStep, CheckReplay, EndDigest, BeginLogin, BeginDigest, AuthTypes
  <2> QED BY <1>2, <2>1
<1>5. ASSUME NEW t \in Tasks, NEW k \in Tokens, NEW p \in Paths, SaveRequest(t, k, p)
      PROVE  SavedFacts' /\ SavedOnce'
  <2>1. history' = history /\ saved' = [saved EXCEPT ![k] = p]
        /\ ~\E i \in DOMAIN R : R[i] = <<k, p>>
    BY <1>5 DEF SaveRequest
  <2> QED BY <1>1, <2>1 DEF SavedFacts, SavedOnce, AuthTypes
<1>6. ASSUME NEW t \in Tasks, EndLogin(t)  PROVE SavedFacts' /\ SavedOnce'
  <2>1. PICK outcome \in {"yes", "no", "error"} : LoginEnd(t, outcome)
    BY <1>1, <1>6, LoginEnds
  <2>2. PICK k : k = attempt[t].token
    OBVIOUS
  <2>3. PICK path : path = IF outcome = "yes" /\ k \in Tokens THEN saved[k] ELSE "none"
    OBVIOUS
  <2>4. saved' = (IF outcome = "yes" THEN TakeSaved(k) ELSE saved)
        /\ history'.replayed = (IF path # "none" THEN Append(R, <<k, path>>) ELSE R)
    BY <2>1, <2>2, <2>3 DEF LoginEnd
  <2>5. \A j \in Tokens : saved'[j] \in {saved[j], "none"}
    BY <2>4, <1>1 DEF TakeSaved, AuthTypes
  <2>6. CASE path = "none"
    <3>1. history'.replayed = R
      BY <2>4, <2>6
    <3> QED BY <3>1, <2>5, <1>1 DEF SavedFacts, SavedOnce
  <2>7. CASE path # "none"
    <3>1. k \in Tokens /\ saved[k] = path /\ path # "none" /\ saved' = [saved EXCEPT ![k] = "none"]
      BY <2>3, <2>4, <2>7 DEF TakeSaved
    <3>2. history'.replayed = Append(R, <<k, path>>)
      BY <2>4, <2>7
    <3>3. \A i \in DOMAIN R : R[i] # <<k, path>>
      BY <3>1, <1>1 DEF SavedFacts
    <3>4. /\ DOMAIN history'.replayed = 1..(Len(R) + 1) /\ DOMAIN R = 1..Len(R) /\ Len(R) \in Nat
          /\ \A i \in 1..Len(R) : history'.replayed[i] = R[i]
          /\ history'.replayed[Len(R) + 1] = <<k, path>>
      BY <3>2, <1>1
    <3>5. SavedOnce'
      <4> SUFFICES ASSUME NEW i \in 1..(Len(R) + 1), NEW j \in 1..(Len(R) + 1), i # j
                   PROVE  history'.replayed[i] # history'.replayed[j]
        BY <3>4 DEF SavedOnce
      <4>1. CASE i \in 1..Len(R) /\ j \in 1..Len(R)
        <5>1. R[i] # R[j]
          BY <4>1, <3>4, <1>1 DEF SavedOnce
        <5> QED BY <4>1, <5>1, <3>4
      <4>2. CASE i = Len(R) + 1 /\ j \in 1..Len(R)
        BY <4>2, <3>3, <3>4
      <4>3. CASE j = Len(R) + 1 /\ i \in 1..Len(R)
        BY <4>3, <3>3, <3>4
      <4> QED BY <3>4, <4>1, <4>2, <4>3
    <3>6. SavedFacts'
      <4> SUFFICES ASSUME NEW j \in Tokens, saved'[j] # "none", NEW i \in DOMAIN history'.replayed
                   PROVE  history'.replayed[i] # <<j, saved'[j]>>
        BY DEF SavedFacts
      <4>1. j # k /\ saved'[j] = saved[j]
        BY <3>1, <1>1 DEF AuthTypes
      <4>2. CASE i \in 1..Len(R)
        BY <4>1, <4>2, <3>4, <1>1 DEF SavedFacts
      <4>3. CASE i = Len(R) + 1
        BY <4>1, <4>3, <3>4
      <4> QED BY <4>2, <4>3, <3>4
    <3> QED BY <3>5, <3>6
  <2> QED BY <2>6, <2>7
<1> QED BY <1>3, <1>4, <1>5, <1>6

-----------------------------------------------------------------------------
(* The digests. *)

\* Time only makes a nonce staler, and nonces are only added.
LEMMA StaleStays ==
  ASSUME AuthTypes, clock' \in Nat, clock <= clock',
         issued' = issued \/ issued' = Append(issued, clock)
  PROVE  /\ \A n \in DOMAIN issued : n \in DOMAIN issued' /\ (Stale(n) => Stale(n)')
         /\ \A n \in DOMAIN issued : issued'[n] = issued[n] /\ issued[n] \in Nat
         /\ DOMAIN issued \subseteq 1..MaxNonces
<1>1. issued \in Seq(Nat) /\ Len(issued) <= MaxNonces /\ clock \in Nat /\ NonceTtl \in Nat
      /\ MaxNonces \in Nat
  BY AuthAssumption DEF AuthTypes
<1>2. DOMAIN issued = 1..Len(issued) /\ Len(issued) \in Nat
      /\ \A n \in 1..Len(issued) : issued[n] \in Nat
  BY <1>1
<1>3. \A n \in DOMAIN issued : n \in DOMAIN issued' /\ issued'[n] = issued[n]
  <2>1. CASE issued' = Append(issued, clock)
    BY <1>1, <1>2, <2>1
  <2> QED BY <2>1
<1>4. \A n \in DOMAIN issued : Stale(n) => Stale(n)'
  <2> SUFFICES ASSUME NEW n \in DOMAIN issued, Stale(n)  PROVE Stale(n)'
    OBVIOUS
  <2>1. issued'[n] = issued[n] /\ issued[n] \in Nat
    BY <1>2, <1>3
  <2>2. clock - issued[n] > NonceTtl
    BY DEF Stale
  <2>3. clock' - issued'[n] > NonceTtl
    BY <2>1, <2>2, <1>1
  <2> QED BY <2>3 DEF Stale
<1> QED BY <1>1, <1>2, <1>3, <1>4

\* A step that leaves requests and accepted digests alone, but for requests it
\* ends or begins, keeps what is remembered.
LEMMA DigestsSettle ==
  ASSUME DigestFacts, CounterOnce,
         history'.digests = history.digests,
         DOMAIN issued \subseteq DOMAIN issued',
         \A n \in DOMAIN issued : Stale(n) => Stale(n)',
         \A n \in DOMAIN issued : \A nc \in nonces[n].seen : nc \in nonces'[n].seen \/ Stale(n)',
         \A t \in Tasks : attempt'[t].at \in {"replay", "ha1"} => attempt'[t].nonce \in DOMAIN issued',
         \A t \in Tasks : Checked(t)' => Checked(t) /\ attempt'[t] = attempt[t]
  PROVE  DigestFacts' /\ CounterOnce'
<1> DEFINE d == history.digests
<1>1. ASSUME NEW a, a.nonce \in DOMAIN issued, a.nc \in nonces[a.nonce].seen \/ Stale(a.nonce)
      PROVE  a.nonce \in DOMAIN issued' /\ (a.nc \in nonces'[a.nonce].seen \/ Stale(a.nonce)')
  BY <1>1
<1>2. \A t \in Tasks : Checked(t)' => Remembered(attempt[t])'
  <2> SUFFICES ASSUME NEW t \in Tasks, Checked(t)'  PROVE Remembered(attempt[t])'
    OBVIOUS
  <2>1. Remembered(attempt[t]) /\ attempt'[t] = attempt[t]
    BY DEF DigestFacts
  <2> QED BY <2>1, <1>1 DEF Remembered, Stale
<1>3. \A i \in DOMAIN d : Remembered(d[i]) /\ d[i].nonce \in DOMAIN issued
  BY DEF DigestFacts, Remembered
<1>4. \A i \in DOMAIN history'.digests : Remembered(history.digests[i])'
  <2> SUFFICES ASSUME NEW i \in DOMAIN d  PROVE Remembered(history.digests[i])'
    OBVIOUS
  <2> QED BY <1>1, <1>3 DEF Remembered, Stale
<1>5. \A t \in Tasks, u \in Tasks :
        (t # u /\ Checked(t)' /\ Checked(u)' /\ SamePair(attempt'[t], attempt'[u]))
           => Stale(attempt[t].nonce)'
  <2> SUFFICES ASSUME NEW t \in Tasks, NEW u \in Tasks, t # u, Checked(t)', Checked(u)',
                      SamePair(attempt'[t], attempt'[u])
               PROVE  Stale(attempt[t].nonce)'
    OBVIOUS
  <2>1. attempt'[t] = attempt[t] /\ Checked(t) /\ attempt'[u] = attempt[u] /\ Checked(u)
    OBVIOUS
  <2>2. attempt[t].nonce \in DOMAIN issued /\ Stale(attempt[t].nonce)
    BY <2>1 DEF DigestFacts, Remembered
  <2> QED BY <2>1, <2>2 DEF Stale
<1>6. \A t \in Tasks, i \in DOMAIN d :
        (Checked(t)' /\ SamePair(attempt'[t], d[i])) => Stale(history.digests[i].nonce)'
  <2> SUFFICES ASSUME NEW t \in Tasks, NEW i \in DOMAIN d, Checked(t)', SamePair(attempt'[t], d[i])
               PROVE  Stale(history.digests[i].nonce)'
    OBVIOUS
  <2>1. attempt'[t] = attempt[t] /\ Checked(t)
    OBVIOUS
  <2>2. d[i].nonce \in DOMAIN issued /\ Stale(d[i].nonce)
    BY <2>1, <1>3 DEF DigestFacts
  <2> QED BY <2>2 DEF Stale
<1>7. DigestFacts'
  BY <1>2, <1>4, <1>5, <1>6 DEF DigestFacts
<1>8. CounterOnce'
  BY DEF CounterOnce
<1> QED BY <1>7, <1>8

\* Pruning forgets only what is too old.
LEMMA PruningForgets ==
  ASSUME AuthTypes, NEW n \in DOMAIN issued, n \in 1..MaxNonces, NEW nc \in nonces[n].seen
  PROVE  nc \in Pruned[n].seen \/ Stale(n)
BY DEF AuthTypes, Pruned, Stale

LEMMA CheckKept ==
  ASSUME AuthInv, NEW t \in Tasks, CheckReplay(t)
  PROVE  DigestFacts' /\ CounterOnce'
<1> DEFINE a == attempt[t]
           fresh == a.nc = 0 \/ a.nc \notin Pruned[a.nonce].seen
<1>1. AuthTypes /\ DigestFacts /\ CounterOnce
  BY DEF AuthInv
<1>2. a \in DigestAttempt /\ a.at = "replay" /\ a.nonce \in 1..MaxNonces /\ a.nc \in 0..2
      /\ a.nonce \in DOMAIN issued
  BY <1>1, AttemptKinds DEF CheckReplay, DigestFacts, DigestAttempt
<1>3. history' = history /\ issued' = issued /\ clock' = clock
      /\ DOMAIN issued \subseteq 1..MaxNonces
  BY <1>1, StaleStays DEF CheckReplay, AuthTypes
<1>4. attempt' = [attempt EXCEPT ![t] = IF fresh THEN [a EXCEPT !.at = "ha1"] ELSE Free]
  BY DEF CheckReplay
<1>5. nonces' = IF a.nc = 0 THEN nonces
                ELSE [Pruned EXCEPT ![a.nonce] =
                        [tracked |-> TRUE, seen |-> Pruned[a.nonce].seen \cup {a.nc}]]
  BY DEF CheckReplay
<1>6. DOMAIN Pruned = 1..MaxNonces
  BY <1>1 DEF Pruned, AuthTypes
<1>7. \A n \in DOMAIN issued : \A nc \in nonces[n].seen : nc \in nonces'[n].seen \/ Stale(n)
  BY <1>1, <1>3, <1>5, <1>6, PruningForgets
<1>8. \A u \in Tasks : u # t => attempt'[u] = attempt[u]
  BY <1>4, <1>1 DEF AuthTypes
<1>9. CASE ~fresh \/ a.nc = 0
  <2>1. attempt'[t].at \in {"free", "ha1"}
        /\ (attempt'[t].at = "ha1" => attempt'[t].nc = 0 /\ attempt'[t].nonce = a.nonce)
    <3>1. attempt'[t] = IF fresh THEN [a EXCEPT !.at = "ha1"] ELSE Free
      BY <1>4, <1>1 DEF AuthTypes
    <3> QED BY <3>1, <1>2, <1>9 DEF Free, DigestAttempt
  <2>2. \A u \in Tasks : Checked(u)' => Checked(u) /\ attempt'[u] = attempt[u]
    BY <1>8, <2>1 DEF Checked
  <2>3. \A u \in Tasks : attempt'[u].at \in {"replay", "ha1"} => attempt'[u].nonce \in DOMAIN issued'
    BY <1>8, <2>1, <1>1, <1>2, <1>3 DEF DigestFacts
  <2>4. \A n \in DOMAIN issued : Stale(n) => Stale(n)'
    BY <1>3 DEF Stale
  <2>5. \A n \in DOMAIN issued : \A nc \in nonces[n].seen : nc \in nonces'[n].seen \/ Stale(n)'
    BY <1>7, <2>4
  <2> QED BY <1>1, <1>3, <2>2, <2>3, <2>4, <2>5, DigestsSettle
<1>10. CASE fresh /\ a.nc # 0
  <2>1. attempt'[t] = [a EXCEPT !.at = "ha1"] /\ attempt'[t].at = "ha1"
        /\ attempt'[t].nc = a.nc /\ attempt'[t].nonce = a.nonce
    BY <1>4, <1>1, <1>2, <1>10 DEF AuthTypes, DigestAttempt
  <2>2. a.nc \in nonces'[a.nonce].seen
    BY <1>5, <1>2, <1>6, <1>10
  <2>3. ASSUME NEW b, Remembered(b)  PROVE Remembered(b)'
    BY <2>3, <1>7, <1>3 DEF Remembered, Stale
  <2>4. ASSUME NEW b, Remembered(b), SamePair(a, b)  PROVE Stale(b.nonce)
    <3>1. b.nonce = a.nonce /\ b.nc = a.nc
      BY <2>4 DEF SamePair
    <3>2. a.nc \in nonces[a.nonce].seen => a.nc \in Pruned[a.nonce].seen \/ Stale(a.nonce)
      BY <1>1, <1>2, PruningForgets
    <3> QED BY <2>4, <3>1, <3>2, <1>10 DEF Remembered
  <2>5. \A n : Stale(n)' <=> Stale(n)
    BY <1>3 DEF Stale
  <2>6. \A u \in Tasks : u # t => (Checked(u)' <=> Checked(u))
    BY <1>8 DEF Checked
  <2>7. \A u \in Tasks : Checked(u) => Remembered(attempt[u])
    BY <1>1 DEF DigestFacts
  <2>8. \A i \in DOMAIN history.digests : Remembered(history.digests[i])
    BY <1>1 DEF DigestFacts
  <2>9. \A u \in Tasks : attempt'[u].at \in {"replay", "ha1"} => attempt'[u].nonce \in DOMAIN issued'
    BY <1>8, <2>1, <1>1, <1>2, <1>3 DEF DigestFacts
  <2>10. \A u \in Tasks : Checked(u)' => Remembered(attempt[u])'
    <3> SUFFICES ASSUME NEW u \in Tasks, Checked(u)'  PROVE Remembered(attempt[u])'
      OBVIOUS
    <3>1. CASE u = t
      BY <3>1, <2>1, <2>2, <1>2, <1>3 DEF Remembered
    <3>2. CASE u # t
      <4>1. Remembered(attempt[u]) /\ attempt'[u] = attempt[u]
        BY <3>2, <2>6, <2>7, <1>8
      <4> QED BY <4>1, <2>3 DEF Remembered, Stale
    <3> QED BY <3>1, <3>2
  <2>11. \A i \in DOMAIN history'.digests : Remembered(history.digests[i])'
    BY <2>8, <2>3, <1>3 DEF Remembered, Stale
  <2>12. \A u \in Tasks, v \in Tasks :
           (u # v /\ Checked(u)' /\ Checked(v)' /\ SamePair(attempt'[u], attempt'[v]))
              => Stale(attempt[u].nonce)'
    <3> SUFFICES ASSUME NEW u \in Tasks, NEW v \in Tasks, u # v, Checked(u)', Checked(v)',
                        SamePair(attempt'[u], attempt'[v])
                 PROVE  Stale(attempt'[u].nonce)
      BY <2>5, <1>3 DEF Stale
    <3>1. CASE u = t
      <4>1. Remembered(attempt[v]) /\ SamePair(a, attempt[v])
        BY <3>1, <2>1, <2>6, <2>7, <1>8 DEF SamePair
      <4> QED BY <4>1, <2>4, <2>1, <3>1 DEF SamePair
    <3>2. CASE v = t
      <4>1. Remembered(attempt[u]) /\ SamePair(a, attempt[u]) /\ attempt'[u] = attempt[u]
        BY <3>2, <2>1, <2>6, <2>7, <1>8 DEF SamePair
      <4> QED BY <4>1, <2>4
    <3>3. CASE u # t /\ v # t
      BY <3>3, <2>6, <1>8, <1>1 DEF DigestFacts
    <3> QED BY <3>1, <3>2, <3>3
  <2>13. \A u \in Tasks, i \in DOMAIN history.digests :
           (Checked(u)' /\ SamePair(attempt'[u], history.digests[i])) => Stale(history.digests[i].nonce)
    <3> SUFFICES ASSUME NEW u \in Tasks, NEW i \in DOMAIN history.digests, Checked(u)',
                        SamePair(attempt'[u], history.digests[i])
                 PROVE  Stale(history.digests[i].nonce)
      OBVIOUS
    <3>1. CASE u = t
      BY <3>1, <2>1, <2>4, <2>8 DEF SamePair
    <3>2. CASE u # t
      BY <3>2, <2>6, <1>8, <1>1 DEF DigestFacts
    <3> QED BY <3>1, <3>2
  <2>14. DigestFacts'
    BY <2>5, <2>9, <2>10, <2>11, <2>12, <2>13, <1>3 DEF DigestFacts, Stale
  <2> QED BY <2>14, <1>1, <1>3 DEF CounterOnce
<1> QED BY <1>9, <1>10

LEMMA DigestEndKept ==
  ASSUME AuthInv, NEW t \in Tasks, EndDigest(t)
  PROVE  DigestFacts' /\ CounterOnce'
<1> DEFINE a == attempt[t]
           d == history.digests
           entry == [nonce |-> a.nonce, nc |-> a.nc, late |-> Stale(a.nonce)]
<1>1. AuthTypes /\ DigestFacts /\ CounterOnce
  BY DEF AuthInv
<1>2. a \in DigestAttempt /\ a.at = "ha1" /\ a.nonce \in DOMAIN issued
  BY <1>1, AttemptKinds DEF EndDigest, DigestFacts
<1>3. issued' = issued /\ clock' = clock /\ nonces' = nonces
      /\ attempt' = [attempt EXCEPT ![t] = Free]
      /\ (history' = history
            \/ (a.nc # 0 /\ history' = [history EXCEPT !.digests = Append(@, entry)]))
  BY DEF EndDigest, Stale
<1>4. attempt'[t] = Free /\ Free.at = "free" /\ \A u \in Tasks : u # t => attempt'[u] = attempt[u]
  BY <1>3, <1>1 DEF AuthTypes, Free
<1>5. \A u \in Tasks : Checked(u)' => u # t /\ Checked(u) /\ attempt'[u] = attempt[u]
  BY <1>4 DEF Checked
<1>6. \A u \in Tasks : attempt'[u].at \in {"replay", "ha1"} => attempt'[u].nonce \in DOMAIN issued'
  BY <1>4, <1>3, <1>1 DEF DigestFacts
<1>7. CASE history' = history
  <2>1. \A n \in DOMAIN issued : Stale(n) => Stale(n)'
    BY <1>3 DEF Stale
  <2> QED BY <1>1, <1>3, <1>5, <1>6, <1>7, <2>1, DigestsSettle
<1>8. CASE a.nc # 0 /\ history' = [history EXCEPT !.digests = Append(@, entry)]
  <2>1. history'.digests = Append(d, entry) /\ d \in Seq(Accepted)
    BY <1>1, <1>8 DEF AuthTypes
  <2>2. /\ DOMAIN history'.digests = 1..(Len(d) + 1) /\ DOMAIN d = 1..Len(d) /\ Len(d) \in Nat
        /\ \A i \in 1..Len(d) : history'.digests[i] = d[i]
        /\ history'.digests[Len(d) + 1] = entry
    BY <2>1
  <2> DEFINE e == history'.digests
  <2> HIDE DEF e
  <2>3. \A n : Stale(n)' <=> Stale(n)
    BY <1>3 DEF Stale
  <2>4. Checked(t) /\ Remembered(a)
    BY <1>1, <1>2, <1>8 DEF Checked, DigestFacts
  <2>5. Remembered(entry)
    BY <2>4 DEF Remembered
  <2>6. \A i \in DOMAIN e : Remembered(e[i])
    BY <2>2, <2>5, <1>1 DEF DigestFacts, e
  <2>7. \A u \in Tasks, i \in DOMAIN e :
          (Checked(u)' /\ SamePair(attempt'[u], e[i])) => Stale(e[i].nonce)
    <3> SUFFICES ASSUME NEW u \in Tasks, NEW i \in DOMAIN e, Checked(u)', SamePair(attempt'[u], e[i])
                 PROVE  Stale(e[i].nonce)
      OBVIOUS
    <3>1. u # t /\ Checked(u) /\ SamePair(attempt[u], e[i])
      BY <1>5
    <3>2. CASE i \in 1..Len(d)
      BY <3>1, <3>2, <2>2, <1>1 DEF DigestFacts, e
    <3>3. CASE i = Len(d) + 1
      <4>1. e[i] = entry /\ SamePair(attempt[u], a)
        BY <3>1, <3>3, <2>2 DEF e, SamePair
      <4>2. Stale(attempt[u].nonce)
        BY <4>1, <3>1, <2>4, <1>1 DEF DigestFacts
      <4> QED BY <4>1, <4>2 DEF SamePair
    <3> QED BY <3>2, <3>3, <2>2 DEF e
  <2>8. \A u \in Tasks : Checked(u)' => Remembered(attempt'[u])
    BY <1>5, <1>1 DEF DigestFacts
  <2>9. \A u \in Tasks, v \in Tasks :
           (u # v /\ Checked(u)' /\ Checked(v)' /\ SamePair(attempt'[u], attempt'[v]))
              => Stale(attempt'[u].nonce)
    BY <1>5, <1>1 DEF DigestFacts
  <2>10. DigestFacts'
    <3>1. \A u \in Tasks : Checked(u)' => Remembered(attempt[u])'
      BY <2>8, <1>3 DEF Remembered, Stale
    <3>2. \A i \in DOMAIN history'.digests : Remembered(history.digests[i])'
      BY <2>6, <1>3 DEF Remembered, Stale, e
    <3>3. \A u \in Tasks, v \in Tasks :
           (u # v /\ Checked(u)' /\ Checked(v)' /\ SamePair(attempt'[u], attempt'[v]))
              => Stale(attempt[u].nonce)'
      BY <2>9, <1>3 DEF Stale
    <3>4. \A u \in Tasks, i \in DOMAIN history'.digests :
          (Checked(u)' /\ SamePair(attempt'[u], history'.digests[i])) => Stale(history.digests[i].nonce)'
      BY <2>7, <1>3 DEF Stale, e
    <3> QED BY <1>6, <3>1, <3>2, <3>3, <3>4 DEF DigestFacts
  <2>11. CounterOnce'
    <3> SUFFICES ASSUME NEW i \in 1..(Len(d) + 1), NEW j \in 1..(Len(d) + 1), i < j,
                        e[i].nonce = e[j].nonce, e[i].nc = e[j].nc
                 PROVE  e[j].late
      BY <2>2 DEF CounterOnce, e
    <3>1. i \in 1..Len(d) /\ e[i] = d[i]
      BY <2>2 DEF e
    <3>2. CASE j \in 1..Len(d)
      BY <3>1, <3>2, <2>2, <1>1 DEF CounterOnce, e
    <3>3. CASE j = Len(d) + 1
      <4>1. e[j] = entry /\ SamePair(a, d[i])
        BY <3>1, <3>3, <2>2 DEF e, SamePair
      <4>2. Stale(d[i].nonce)
        BY <4>1, <3>1, <2>2, <2>4, <1>1 DEF DigestFacts
      <4> QED BY <4>1, <4>2 DEF SamePair
    <3> QED BY <3>2, <3>3, <2>2
  <2> QED BY <2>10, <2>11
<1> QED BY <1>3, <1>7, <1>8

LEMMA DigestsKept ==
  ASSUME AuthInv, OtherStep \/ \E t \in Tasks : AuthStep(t)
  PROVE  DigestFacts' /\ CounterOnce'
<1>1. AuthTypes /\ DigestFacts /\ CounterOnce
  BY DEF AuthInv
<1>2. ASSUME history'.digests = history.digests, nonces' = nonces, clock' \in Nat, clock <= clock',
             issued' = issued \/ issued' = Append(issued, clock),
             \A t \in Tasks : attempt'[t].at \in {"replay", "ha1"} =>
                 \/ attempt'[t] = attempt[t]
                 \/ attempt'[t].at = "replay" /\ attempt'[t].nonce \in DOMAIN issued
      PROVE  DigestFacts' /\ CounterOnce'
  <2>1. (\A n \in DOMAIN issued : n \in DOMAIN issued') /\ \A n \in DOMAIN issued : Stale(n) => Stale(n)'
    BY <1>1, <1>2, StaleStays
  <2>2. \A t \in Tasks : Checked(t)' => Checked(t) /\ attempt'[t] = attempt[t]
    BY <1>2 DEF Checked
  <2>3. \A t \in Tasks : attempt'[t].at \in {"replay", "ha1"} => attempt'[t].nonce \in DOMAIN issued'
    BY <1>1, <1>2, <2>1 DEF DigestFacts
  <2> QED BY <1>1, <1>2, <2>1, <2>2, <2>3, DigestsSettle
<1>3. CASE OtherStep
  <2>1. history'.digests = history.digests /\ nonces' = nonces /\ clock' \in Nat /\ clock <= clock'
        /\ (issued' = issued \/ issued' = Append(issued, clock)) /\ attempt' = attempt
    BY <1>1, <1>3 DEF OtherStep, Tick, Challenge, IssueCsrf, ConsumeCsrf, AuthTypes
  <2> QED BY <2>1, <1>2
<1>4. ASSUME NEW t \in Tasks, AuthStep(t)  PROVE DigestFacts' /\ CounterOnce'
  <2>1. CASE CheckReplay(t)
    BY <2>1, CheckKept
  <2>2. CASE EndDigest(t)
    BY <2>2, DigestEndKept
  <2>3. CASE EndLogin(t)
    <3>1. history'.digests = history.digests /\ attempt' = [attempt EXCEPT ![t] = Free]
          /\ UNCHANGED <<clock, issued, nonces>>
      BY <2>3, <1>1, LoginEnds DEF LoginEnd
    <3>2. \A u \in Tasks : attempt'[u] = attempt[u] \/ attempt'[u].at = "free"
      BY <3>1, <1>1 DEF AuthTypes, Free
    <3>3. clock \in Nat
      BY <1>1 DEF AuthTypes
    <3> QED BY <3>1, <3>2, <3>3, <1>2
  <2>4. ASSUME NEW u \in Users, NEW s \in Secrets, NEW k \in Tokens \cup {"none"},
               BeginLogin(t, u, s, k)
        PROVE  DigestFacts' /\ CounterOnce'
    <3>1. UNCHANGED <<clock, issued, nonces, history>>
          /\ attempt' = [attempt EXCEPT ![t] = [at |-> "inner", user |-> u, secret |-> s, token |-> k]]
      BY <2>4 DEF BeginLogin
    <3>2. \A v \in Tasks : attempt'[v] = attempt[v] \/ attempt'[v].at = "inner"
      BY <3>1, <1>1 DEF AuthTypes
    <3>3. clock \in Nat
      BY <1>1 DEF AuthTypes
    <3> QED BY <3>1, <3>2, <3>3, <1>2
  <2>5. ASSUME NEW u \in Users, NEW s \in Secrets, NEW n \in 1..MaxNonces, NEW nc \in 0..2,
               NEW qop \in BOOLEAN, BeginDigest(t, u, s, n, nc, qop)
        PROVE  DigestFacts' /\ CounterOnce'
    <3>1. UNCHANGED <<clock, issued, nonces, history>> /\ n \in DOMAIN issued
          /\ attempt' = [attempt EXCEPT ![t] = [at |-> "replay", user |-> u, nonce |-> n, nc |-> nc,
                           qop |-> qop, response |-> DigestResponse(s, n, nc, qop)]]
      BY <2>5 DEF BeginDigest
    <3>2. \A v \in Tasks : \/ attempt'[v] = attempt[v]
                           \/ attempt'[v].at = "replay" /\ attempt'[v].nonce \in DOMAIN issued
      BY <3>1, <1>1 DEF AuthTypes
    <3>3. clock \in Nat
      BY <1>1 DEF AuthTypes
    <3> QED BY <3>1, <3>2, <3>3, <1>2
  <2>6. ASSUME NEW k \in Tokens, NEW p \in Paths, SaveRequest(t, k, p)
        PROVE  DigestFacts' /\ CounterOnce'
    <3>1. UNCHANGED <<clock, issued, nonces, history, attempt>> /\ clock \in Nat
      BY <2>6, <1>1 DEF SaveRequest, AuthTypes
    <3> QED BY <3>1, <1>2
  <2> QED BY <1>4, <2>1, <2>2, <2>3, <2>4, <2>5, <2>6 DEF AuthStep
<1> QED BY <1>3, <1>4

-----------------------------------------------------------------------------
LEMMA AuthInductive ==
  ASSUME AuthInv, [LoginNext \/ DigestNext]_authVars
  PROVE  AuthInv'
<1>1. CASE UNCHANGED authVars
  <2>1. AuthTypes' /\ LockFacts' /\ SavedFacts' /\ DigestFacts'
        /\ GuessesLimited' /\ SavedOnce' /\ CounterOnce'
    BY <1>1 DEF authVars, AuthInv, AuthTypes, LockFacts, InFlight, SavedFacts, DigestFacts, Remembered, Checked,
                Stale, GuessesLimited, SavedOnce, CounterOnce
  <2> QED BY <2>1 DEF AuthInv
<1>2. CASE OtherStep \/ \E t \in Tasks : AuthStep(t)
  <2>1. AuthTypes'
    BY <1>2, AuthTypesKept DEF AuthInv
  <2>2. LockFacts'
    BY <1>2, LocksKept
  <2>3. GuessesLimited'
    BY <1>2, <2>1, <2>2, GuessesKept
  <2>4. SavedFacts' /\ SavedOnce'
    BY <1>2, SavedKept
  <2>5. DigestFacts' /\ CounterOnce'
    BY <1>2, DigestsKept
  <2> QED BY <2>1, <2>2, <2>3, <2>4, <2>5 DEF AuthInv
<1> QED BY <1>1, <1>2, AuthSteps

(* However many requests race: no more wrong passwords than the limit, and  *)
(* the logins in flight, are answered within a lockout window of            *)
(* LockOutRealm, a saved request of FormAuthenticator is replayed to one    *)
(* login, and DigestAuthenticator accepts a counter of a live nonce once.   *)
THEOREM CredentialsAreGuarded == AuthSpec => []CredentialsGuarded
<1>1. AuthInit => AuthInv
  BY AuthInitial
<1>2. AuthInv /\ [LoginNext \/ DigestNext]_authVars => AuthInv'
  BY AuthInductive
<1>3. AuthInv => CredentialsGuarded
  BY DEF AuthInv, CredentialsGuarded
<1> QED BY <1>1, <1>2, <1>3, PTL DEF AuthSpec

-----------------------------------------------------------------------------
(* The valve pipeline: its inductive invariant, per request. *)

Statuses == {0, 200, 403, 404, 405}
Bodies == {NoBody, ReasonPage, "text"}
HeaderNames == {"Allow", "Content-Type", "Valve", "own"}
Answer == [status : Statuses, body : Bodies, headers : SUBSET HeaderNames]
LogEntry == [status : Int, body : Bodies]
Kinds == Filters \cup Basics
Request ==
  [denied : BOOLEAN, disallowed : BOOLEAN,
   at : {"idle", "begun", "valves", "err", "down", "up", "done"},
   since : SUBSET Filters, chain : Seq(Kinds), depth : Nat, ran : {0, 1},
   failed : BOOLEAN, log : Seq(LogEntry), resp : Answer]

RefusedBy(q, kind) ==
  \/ kind = "addr" /\ q.denied
  \/ kind = "methods" /\ q.disallowed

\* The filters installed when the request began, and the basic valve.
ChainOk(q) ==
  /\ Len(q.chain) >= 1 /\ q.chain[Len(q.chain)] \in Basics
  /\ \A k \in 1..Len(q.chain) - 1 : q.chain[k] \in Filters
  /\ \A kind \in q.since : \E k \in 1..Len(q.chain) : q.chain[k] = kind

\* On the way in: nothing passed so far has refused, and the last valve has run
\* when the cursor is behind it.
WayIn(q) ==
  /\ q.depth \in 1..Len(q.chain) + 1 /\ q.log = <<>>
  /\ q.ran = IF q.depth = Len(q.chain) + 1 THEN 1 ELSE 0
  /\ \A k \in 1..Len(q.chain) : k < q.depth => ~RefusedBy(q, q.chain[k])

\* On the way out: the last valve has run unless a filter refused; the log has
\* what the request will be answered with; and the outermost valve has had its
\* say when the stack is empty.
WayOut(q) ==
  /\ q.depth \in 0..Len(q.chain)
  /\ q.ran = 1 => \A k \in 1..Len(q.chain) : ~RefusedBy(q, q.chain[k])
  /\ q.ran = 0 => \E k \in 1..Len(q.chain) : RefusedBy(q, q.chain[k])
  /\ \A k \in DOMAIN q.log :
       /\ q.log[k].status = q.resp.status
       /\ q.log[k].body = q.resp.body \/ \E j \in 1..Len(q.chain) : q.chain[j] = "error"
  /\ q.depth = 0 =>
       /\ q.chain[1] = "error" /\ IsError(q.resp) => q.resp.body # NoBody
       /\ q.chain[1] = "headers" => q.resp.headers \cap {"own", "Valve"} # {}

RequestOk(q) ==
  /\ q \in Request
  /\ q.at \in {"idle", "begun", "valves"} => q.ran = 0 /\ q.log = <<>>
  /\ q.at = "begun" => \A kind \in q.since : \E k \in DOMAIN valves : valves[k] = kind
  /\ q.at = "valves" =>
       /\ q.chain \in Seq(Filters)
       /\ \A kind \in q.since : \E k \in DOMAIN q.chain : q.chain[k] = kind
  /\ q.at \in {"down", "up", "done"} => ChainOk(q)
  /\ q.at = "down" => WayIn(q)
  /\ q.at \in {"up", "done"} => WayOut(q)
  /\ q.at = "done" => q.depth = 0

PipeInv ==
  /\ valves \in Seq(Filters) /\ basic \in {<<>>} \cup {<<k>> : k \in Basics}
  /\ req \in [Requests -> Request]
  /\ \A r \in Requests : RequestOk(req[r])

LEMMA RequestParts ==
  ASSUME NEW p \in Request
  PROVE  /\ p.resp \in Answer /\ p.depth \in Nat /\ p.ran \in {0, 1}
         /\ p.chain \in Seq(Kinds) /\ Len(p.chain) \in Nat /\ DOMAIN p.chain = 1..Len(p.chain)
         /\ p.log \in Seq(LogEntry)
<1>1. p.resp \in Answer /\ p.depth \in Nat /\ p.ran \in {0, 1} /\ p.chain \in Seq(Kinds)
      /\ p.log \in Seq(LogEntry)
  BY DEF Request
<1> QED BY <1>1

\* What a request is after a step of its own.
LEMMA RequestSteps ==
  ASSUME PipeInv, NEW r \in Requests, NEW q, RequestOk(q), req' = [req EXCEPT ![r] = q],
         UNCHANGED <<valves, basic>>
  PROVE  PipeInv'
<1>1. q \in Request /\ req' \in [Requests -> Request] /\ \A s \in Requests : req'[s] = IF s = r THEN q ELSE req[s]
  BY DEF PipeInv, RequestOk
<1>2. \A s \in Requests : RequestOk(req[s])'
  BY <1>1 DEF PipeInv, RequestOk
<1> QED BY <1>1, <1>2 DEF PipeInv

LEMMA PipeInitial == PipeInit => PipeInv
<1> SUFFICES ASSUME PipeInit  PROVE PipeInv
  OBVIOUS
<1>1. PICK status \in {0, 200}, denied \in BOOLEAN, disallowed \in BOOLEAN :
         req = [r \in Requests |->
                  [denied |-> denied, disallowed |-> disallowed,
                   at |-> "idle", since |-> {}, chain |-> <<>>, depth |-> 0, ran |-> 0,
                   failed |-> FALSE, log |-> <<>>,
                   resp |-> [status |-> status, body |-> NoBody, headers |-> {}]]]
  BY DEF PipeInit
<1> DEFINE blank == [status |-> status, body |-> NoBody, headers |-> {}]
           q == [denied |-> denied, disallowed |-> disallowed,
                 at |-> "idle", since |-> {}, chain |-> <<>>, depth |-> 0, ran |-> 0,
                 failed |-> FALSE, log |-> <<>>, resp |-> blank]
<1>2. blank \in Answer
  BY DEF Answer, Bodies, Statuses
<1> HIDE DEF blank
<1>3. q \in Request /\ q.at = "idle" /\ q.ran = 0 /\ q.log = <<>>
  BY <1>2 DEF Request
<1>4. req = [r \in Requests |-> q]
  BY <1>1 DEF blank
<1> HIDE DEF q
<1>5. RequestOk(q)
  BY <1>3 DEF RequestOk
<1>6. req \in [Requests -> Request] /\ \A r \in Requests : RequestOk(req[r])
  BY <1>3, <1>4, <1>5
<1>7. valves \in Seq(Filters) /\ basic = <<>>
  BY DEF PipeInit
<1> QED BY <1>6, <1>7 DEF PipeInv

LEMMA ConfigureKept ==
  ASSUME PipeInv, \/ \E kind \in Filters : AddValve(kind)
                  \/ \E kind \in Basics : SetBasic(kind)
  PROVE  PipeInv'
<1>1. req' = req /\ valves \in Seq(Filters)
  BY DEF PipeInv, AddValve, SetBasic
<1>2. valves' \in Seq(Filters) /\ DOMAIN valves \subseteq DOMAIN valves'
      /\ \A k \in DOMAIN valves : valves'[k] = valves[k]
  BY <1>1 DEF AddValve, SetBasic
<1>3. basic' \in {<<>>} \cup {<<k>> : k \in Basics}
  BY DEF PipeInv, AddValve, SetBasic
<1>4. \A r \in Requests : RequestOk(req[r])'
  BY <1>1, <1>2 DEF PipeInv, RequestOk
<1> QED BY <1>1, <1>2, <1>3, <1>4 DEF PipeInv

-----------------------------------------------------------------------------
(* The way in. *)
LEMMA InvokeKept ==
  ASSUME PipeInv, NEW r \in Requests, Invoke(r)
  PROVE  PipeInv'
<1> DEFINE q == [req[r] EXCEPT !.at = "begun", !.since = Range(valves)]
<1>1. req[r] \in Request /\ RequestOk(req[r]) /\ req[r].at = "idle" /\ valves \in Seq(Filters)
  BY DEF PipeInv, Invoke
<1>2. Range(valves) \subseteq Filters /\ \A kind \in Range(valves) : \E k \in DOMAIN valves : valves[k] = kind
  BY <1>1 DEF Range
<1>3. q \in Request /\ q.at = "begun" /\ q.since = Range(valves) /\ q.ran = req[r].ran /\ q.log = req[r].log
  BY <1>1, <1>2 DEF Request
<1>4. req' = [req EXCEPT ![r] = q] /\ UNCHANGED <<valves, basic>>
  BY DEF Invoke
<1> HIDE DEF q
<1>5. RequestOk(q)
  BY <1>1, <1>2, <1>3 DEF RequestOk
<1> QED BY <1>4, <1>5, RequestSteps

LEMMA SnapshotValvesKept ==
  ASSUME PipeInv, NEW r \in Requests, SnapshotValves(r)
  PROVE  PipeInv'
<1> DEFINE q == [req[r] EXCEPT !.at = "valves", !.chain = valves]
<1>1. req[r] \in Request /\ RequestOk(req[r]) /\ req[r].at = "begun" /\ valves \in Seq(Filters)
  BY DEF PipeInv, SnapshotValves
<1>2. valves \in Seq(Kinds)
  BY <1>1 DEF Kinds
<1>3. q \in Request /\ q.at = "valves" /\ q.chain = valves /\ q.since = req[r].since
      /\ q.ran = req[r].ran /\ q.log = req[r].log
  BY <1>1, <1>2 DEF Request
<1>4. req' = [req EXCEPT ![r] = q] /\ UNCHANGED <<valves, basic>>
  BY DEF SnapshotValves
<1> HIDE DEF q
<1>5. RequestOk(q)
  BY <1>1, <1>3 DEF RequestOk
<1> QED BY <1>4, <1>5, RequestSteps

LEMMA SnapshotBasicKept ==
  ASSUME PipeInv, NEW r \in Requests, SnapshotBasic(r)
  PROVE  PipeInv'
<1>1. req[r] \in Request /\ RequestOk(req[r]) /\ req[r].at = "valves" /\ req[r].chain \in Seq(Filters)
      /\ req[r].ran = 0 /\ req[r].log = <<>> /\ req[r].chain \in Seq(Kinds)
      /\ basic \in {<<>>} \cup {<<k>> : k \in Basics} /\ UNCHANGED <<valves, basic>>
  BY RequestParts DEF PipeInv, SnapshotBasic, RequestOk
<1>2. CASE basic = <<>>
  <2> DEFINE q == [req[r] EXCEPT !.at = "err", !.failed = TRUE]
  <2>1. q \in Request /\ q.at = "err"
    BY <1>1 DEF Request
  <2>2. req' = [req EXCEPT ![r] = q]
    BY <1>2 DEF SnapshotBasic
  <2> HIDE DEF q
  <2>3. RequestOk(q)
    BY <2>1 DEF RequestOk
  <2> QED BY <1>1, <2>2, <2>3, RequestSteps
<1>3. CASE basic # <<>>
  <2>1. PICK b \in Basics : basic = <<b>>
    BY <1>1, <1>3
  <2> DEFINE c == req[r].chain
             d == c \o basic
             q == [req[r] EXCEPT !.at = "down", !.chain = d, !.depth = 1]
  <2>2. /\ d \in Seq(Kinds) /\ Len(d) = Len(c) + 1 /\ Len(c) \in Nat
        /\ d[Len(d)] = b /\ \A k \in 1..Len(c) : d[k] = c[k] /\ c[k] \in Filters
        /\ DOMAIN c = 1..Len(c)
    BY <1>1, <2>1 DEF Kinds
  <2> HIDE DEF d
  <2>3. q \in Request /\ q.at = "down" /\ q.chain = d /\ q.depth = 1 /\ q.since = req[r].since
        /\ q.ran = 0 /\ q.log = <<>>
    BY <1>1, <2>2 DEF Request
  <2>4. req' = [req EXCEPT ![r] = q]
    BY <1>3 DEF SnapshotBasic, d
  <2>5. \A kind \in req[r].since : \E k \in 1..Len(c) : c[k] = kind
    BY <1>1, <2>2 DEF RequestOk
  <2> HIDE DEF q, c
  <2>6. ChainOk(q)
    BY <2>1, <2>2, <2>3, <2>5 DEF ChainOk
  <2>7. WayIn(q)
    BY <2>2, <2>3 DEF WayIn
  <2>8. RequestOk(q)
    BY <2>3, <2>6, <2>7 DEF RequestOk
  <2> QED BY <1>1, <2>4, <2>8, RequestSteps
<1> QED BY <1>2, <1>3

\* Rewriting the status and the body of an answer leaves an answer.
LEMMA RewrittenAnswer ==
  ASSUME NEW resp \in Answer, NEW status \in Statuses, NEW body \in Bodies
  PROVE  [resp EXCEPT !.status = status, !.body = body] \in Answer
BY DEF Answer

\* So does naming one more header.
LEMMA NamedAnswer ==
  ASSUME NEW resp \in Answer, NEW status \in Statuses, NEW name \in HeaderNames
  PROVE  [resp EXCEPT !.status = status, !.headers = @ \cup {name}] \in Answer
<1>1. resp.headers \cup {name} \in SUBSET HeaderNames
  BY DEF Answer
<1> QED BY <1>1 DEF Answer

LEMMA BeforeAnswers ==
  ASSUME NEW q, NEW kind, NEW resp \in Answer
  PROVE  /\ Before(q, kind, resp).resp \in Answer
         /\ Before(q, kind, resp).next \in BOOLEAN
         /\ Before(q, kind, resp).next = FALSE => RefusedBy(q, kind)
         /\ RefusedBy(q, kind) => Before(q, kind, resp).next = FALSE
<1> DEFINE out == Before(q, kind, resp)
<1>1. /\ [resp EXCEPT !.status = 403, !.body = NoBody] \in Answer
      /\ [resp EXCEPT !.status = 405, !.headers = @ \cup {"Allow"}] \in Answer
      /\ [resp EXCEPT !.status = 200] \in Answer
  <2>1. NoBody \in Bodies /\ 200 \in Statuses /\ 403 \in Statuses /\ 405 \in Statuses /\ "Allow" \in HeaderNames
    BY DEF Bodies, Statuses, HeaderNames
  <2>3. [resp EXCEPT !.status = 403, !.body = NoBody] \in Answer
    BY <2>1, RewrittenAnswer
  <2>4. [resp EXCEPT !.status = 405, !.headers = @ \cup {"Allow"}] \in Answer
    BY <2>1, NamedAnswer
  <2>5. [resp EXCEPT !.status = 200] \in Answer
    BY <2>1 DEF Answer
  <2> QED BY <2>3, <2>4, <2>5
<1>2. CASE RefusedBy(q, kind)
  <2>1. out = Refuse([resp EXCEPT !.status = 403, !.body = NoBody])
        \/ out = Refuse([resp EXCEPT !.status = 405, !.headers = @ \cup {"Allow"}])
    BY <1>2 DEF Before, RemoteAddr, HttpMethodFilter, RefusedBy
  <2> HIDE DEF out
  <2>2. out.resp \in Answer /\ out.next = FALSE
    BY <1>1, <2>1 DEF Refuse
  <2> QED BY <1>2, <2>2 DEF out
<1>3. CASE ~RefusedBy(q, kind)
  <2>1. out = Forward(resp) \/ out = Forward([resp EXCEPT !.status = 200])
    BY <1>3 DEF Before, RemoteAddr, HttpMethodFilter, StandardWrapper, RefusedBy
  <2> HIDE DEF out
  <2>2. out.resp \in Answer /\ out.next = TRUE
    BY <1>1, <2>1 DEF Forward
  <2> QED BY <1>3, <2>2 DEF out
<1> QED BY <1>2, <1>3

LEMMA CallKept ==
  ASSUME PipeInv, NEW r \in Requests, Call(r)
  PROVE  PipeInv'
<1> DEFINE p == req[r]
           n == Len(p.chain)
           out == Before(p, Kind(p), p.resp)
           ran == IF p.depth >= n THEN p.ran + 1 ELSE p.ran
           at == IF out.next THEN "down" ELSE "up"
           depth == IF out.next THEN p.depth + 1 ELSE p.depth - 1
           q == [p EXCEPT !.resp = out.resp, !.ran = ran, !.at = at, !.depth = depth]
<1>1. /\ p \in Request /\ RequestOk(p) /\ p.at = "down" /\ p.resp \in Answer
      /\ p.chain \in Seq(Kinds) /\ n \in Nat /\ ChainOk(p) /\ WayIn(p) /\ n >= 1
      /\ UNCHANGED <<valves, basic>>
  BY RequestParts DEF PipeInv, Call, RequestOk, ChainOk
<1>2. p.depth \in 1..n /\ Kind(p) = p.chain[p.depth] /\ Kind(p) # "app" /\ p.ran = 0
  BY <1>1 DEF Call, BasicDone, Kind, WayIn
<1>3. out.resp \in Answer /\ out.next \in BOOLEAN /\ (out.next <=> ~RefusedBy(p, p.chain[p.depth]))
  BY <1>1, <1>2, BeforeAnswers
<1>4. req' = [req EXCEPT ![r] = q]
  BY DEF Call
<1> HIDE DEF out
<1>5. ran = (IF p.depth = n THEN 1 ELSE 0) /\ ran \in {0, 1} /\ at \in {"down", "up"} /\ depth \in Nat
  BY <1>1, <1>2
<1>6. /\ q \in Request /\ q.resp = out.resp /\ q.ran = ran /\ q.at = at /\ q.depth = depth
      /\ q.chain = p.chain /\ q.since = p.since /\ q.log = p.log
      /\ q.denied = p.denied /\ q.disallowed = p.disallowed
  BY <1>1, <1>3, <1>5 DEF Request
<1> HIDE DEF q
<1>7. ChainOk(q)
  BY <1>1, <1>6 DEF ChainOk
<1>8. \A kind : RefusedBy(q, kind) <=> RefusedBy(p, kind)
  BY <1>6 DEF RefusedBy
<1>9. CASE out.next
  <2>1. q.at = "down" /\ q.depth = p.depth + 1
    BY <1>6, <1>9
  <2>2. WayIn(q)
    BY <2>1, <1>1, <1>2, <1>3, <1>5, <1>6, <1>8, <1>9 DEF WayIn
  <2> QED BY <2>1, <2>2, <1>4, <1>1, <1>6, <1>7, RequestSteps DEF RequestOk
<1>10. CASE ~out.next
  <2>1. q.at = "up" /\ q.depth = p.depth - 1 /\ RefusedBy(p, p.chain[p.depth])
    BY <1>3, <1>6, <1>10
  <2>2. p.chain[p.depth] \in {"addr", "methods"}
    BY <2>1 DEF RefusedBy
  <2>3. p.depth # n
    BY <2>2, <1>1, PipelineAssumption DEF ChainOk
  <2>4. q.ran = 0 /\ q.log = <<>> /\ q.depth \in 0..n
    BY <2>1, <2>3, <1>1, <1>2, <1>5, <1>6 DEF WayIn
  <2>5. q.depth = 0 => q.chain[1] \in {"addr", "methods"}
    BY <2>1, <2>2, <1>2, <1>6
  <2>6. WayOut(q)
    BY <2>1, <2>4, <2>5, <1>2, <1>6, <1>8 DEF WayOut
  <2>7. RequestOk(q)
    BY <2>1, <2>6, <1>6, <1>7 DEF RequestOk
  <2> QED BY <2>7, <1>1, <1>4, RequestSteps
<1> QED BY <1>3, <1>9, <1>10

LEMMA CallAppKept ==
  ASSUME PipeInv, NEW r \in Requests, CallApp(r)
  PROVE  PipeInv'
<1> DEFINE p == req[r]
           n == Len(p.chain)
<1>1. /\ p \in Request /\ RequestOk(p) /\ p.at = "down"
      /\ p.chain \in Seq(Kinds) /\ n \in Nat /\ ChainOk(p) /\ WayIn(p) /\ n >= 1
      /\ UNCHANGED <<valves, basic>>
  BY RequestParts DEF PipeInv, CallApp, RequestOk, ChainOk
<1>2. p.depth \in 1..n /\ p.chain[p.depth] = "app" /\ p.ran = 0
  BY <1>1 DEF CallApp, BasicDone, Kind, WayIn
<1>3. p.depth = n
  <2>1. p.depth \in 1..n - 1 => p.chain[p.depth] \in Filters
    BY <1>1 DEF ChainOk
  <2> QED BY <2>1, <1>1, <1>2, PipelineAssumption
<1> DEFINE Returned(resp, failed) ==
             [p EXCEPT !.resp = resp, !.failed = failed, !.ran = p.ran + 1, !.at = "up", !.depth = p.depth - 1]
<1>4. PICK status \in {200, 404}, body \in {NoBody, "text"}, given \in {{}, {"own"}}, failed \in BOOLEAN :
        req' = [req EXCEPT ![r] = Returned([status |-> status, body |-> body, headers |-> given], failed)]
  BY DEF CallApp
<1> DEFINE resp == [status |-> status, body |-> body, headers |-> given]
           q == Returned(resp, failed)
<1>5. resp \in Answer
  <2>1. given \in SUBSET HeaderNames
    BY DEF HeaderNames
  <2> QED BY <2>1 DEF Answer, Bodies, Statuses
<1>14. req' = [req EXCEPT ![r] = q]
  BY <1>4
<1> HIDE DEF resp
<1>6. p.ran + 1 = 1 /\ p.depth - 1 = n - 1 /\ n - 1 \in Nat
  BY <1>1, <1>2, <1>3
<1>7. /\ q \in Request /\ q.ran = 1 /\ q.at = "up" /\ q.depth = n - 1
      /\ q.chain = p.chain /\ q.since = p.since /\ q.log = <<>>
      /\ q.denied = p.denied /\ q.disallowed = p.disallowed
  BY <1>1, <1>5, <1>6 DEF Request, WayIn
<1> HIDE DEF q
<1>8. \A k \in 1..n : ~RefusedBy(p, p.chain[k])
  <2>1. ~RefusedBy(p, p.chain[n])
    BY <1>2, <1>3 DEF RefusedBy
  <2> QED BY <2>1, <1>1, <1>3 DEF WayIn
<1>9. \A k \in 1..n : ~RefusedBy(q, q.chain[k])
  BY <1>7, <1>8 DEF RefusedBy
<1>10. q.depth = 0 => q.chain[1] = "app"
  BY <1>1, <1>2, <1>3, <1>7
<1>11. WayOut(q)
  BY <1>1, <1>7, <1>9, <1>10 DEF WayOut
<1>12. ChainOk(q)
  BY <1>1, <1>7 DEF ChainOk
<1>13. RequestOk(q)
  BY <1>7, <1>11, <1>12 DEF RequestOk
<1> QED BY <1>1, <1>7, <1>13, <1>14, RequestSteps

LEMMA ExhaustedKept ==
  ASSUME PipeInv, NEW r \in Requests, Exhausted(r)
  PROVE  PipeInv'
<1> DEFINE p == req[r]
           n == Len(p.chain)
           q == [p EXCEPT !.at = "up", !.depth = p.depth - 1]
<1>1. /\ p \in Request /\ RequestOk(p) /\ p.at = "down"
      /\ p.chain \in Seq(Kinds) /\ n \in Nat /\ ChainOk(p) /\ WayIn(p) /\ n >= 1
      /\ UNCHANGED <<valves, basic>>
  BY RequestParts DEF PipeInv, Exhausted, RequestOk, ChainOk
<1>2. p.depth = n + 1 /\ p.ran = 1 /\ p.log = <<>>
  BY <1>1 DEF Exhausted, BasicDone, WayIn
<1>3. req' = [req EXCEPT ![r] = q]
  BY DEF Exhausted
<1>4. /\ q \in Request /\ q.ran = 1 /\ q.at = "up" /\ q.depth = n
      /\ q.chain = p.chain /\ q.since = p.since /\ q.log = <<>>
      /\ q.denied = p.denied /\ q.disallowed = p.disallowed
  <2>1. p.depth - 1 = n
    BY <1>1, <1>2
  <2> QED BY <1>1, <1>2, <2>1 DEF Request
<1> HIDE DEF q
<1>5. WayOut(q)
  BY <1>1, <1>2, <1>4 DEF WayOut, WayIn, RefusedBy
<1>6. ChainOk(q)
  BY <1>1, <1>4 DEF ChainOk
<1>7. RequestOk(q)
  BY <1>4, <1>5, <1>6 DEF RequestOk
<1> QED BY <1>1, <1>3, <1>7, RequestSteps

-----------------------------------------------------------------------------
(* The way out. *)
LEMMA AfterAnswers ==
  ASSUME NEW kind, NEW resp \in Answer
  PROVE  /\ After(kind, resp) \in Answer /\ After(kind, resp).status = resp.status
         /\ kind # "error" => After(kind, resp).body = resp.body
         /\ kind = "error" /\ IsError(After(kind, resp)) => After(kind, resp).body # NoBody
         /\ kind = "headers" => After(kind, resp).headers \cap {"own", "Valve"} # {}
<1>1. CASE kind = "error"
  <2>1. CASE IsError(resp) /\ resp.body = NoBody
    <3>1. After(kind, resp) = [resp EXCEPT !.body = ReasonPage, !.headers = @ \cup {"Content-Type"}]
      BY <1>1, <2>1 DEF After, ErrorReport
    <3>2. ReasonPage # NoBody /\ "headers" # kind
      BY <1>1 DEF ReasonPage, NoBody
    <3>6. ReasonPage \in Bodies /\ "Content-Type" \in HeaderNames
      BY DEF Bodies, HeaderNames
    <3>3. resp.headers \cup {"Content-Type"} \in SUBSET HeaderNames
      BY <3>6 DEF Answer
    <3>4. After(kind, resp) \in Answer
      BY <3>1, <3>3, <3>6 DEF Answer
    <3>5. After(kind, resp).status = resp.status /\ After(kind, resp).body = ReasonPage
      BY <3>1 DEF Answer
    <3> QED BY <1>1, <3>2, <3>4, <3>5
  <2>2. CASE ~(IsError(resp) /\ resp.body = NoBody)
    <3>1. After(kind, resp) = resp
      BY <1>1, <2>2 DEF After, ErrorReport
    <3> QED BY <1>1, <2>2, <3>1
  <2> QED BY <2>1, <2>2
<1>2. CASE kind = "headers"
  <2>1. "Valve" \in HeaderNames
    BY DEF HeaderNames
  <2> QED BY <1>2, <2>1 DEF After, SecurityHeaders, Answer
<1>3. CASE kind \notin {"error", "headers"}
  BY <1>3 DEF After
<1> QED BY <1>1, <1>2, <1>3

LEMMA ReturnKept ==
  ASSUME PipeInv, NEW r \in Requests, Return(r)
  PROVE  PipeInv'
<1> DEFINE p == req[r]
           n == Len(p.chain)
           kind == p.chain[p.depth]
           resp == After(kind, p.resp)
           entry == AccessLog(p.resp)
           log == IF kind = "log" THEN Append(p.log, entry) ELSE p.log
           q == [p EXCEPT !.resp = resp, !.log = log, !.depth = p.depth - 1]
<1>1. /\ p \in Request /\ RequestOk(p) /\ p.at = "up" /\ p.resp \in Answer
      /\ p.chain \in Seq(Kinds) /\ n \in Nat /\ ChainOk(p) /\ WayOut(p) /\ n >= 1
      /\ p.log \in Seq(LogEntry)
      /\ UNCHANGED <<valves, basic>>
  BY RequestParts DEF PipeInv, Return, RequestOk, ChainOk
<1>2. p.depth \in 1..n
  BY <1>1 DEF Return, WayOut
<1>3. /\ resp \in Answer /\ resp.status = p.resp.status
      /\ kind # "error" => resp.body = p.resp.body
      /\ kind = "error" /\ IsError(resp) => resp.body # NoBody
      /\ kind = "headers" => resp.headers \cap {"own", "Valve"} # {}
  BY <1>1, AfterAnswers
<1>4. entry \in LogEntry
      /\ entry.status = p.resp.status /\ entry.body = p.resp.body
  BY <1>1 DEF AccessLog, Answer, Statuses, LogEntry
<1>5. req' = [req EXCEPT ![r] = q]
  BY DEF Return
<1> HIDE DEF resp, entry, kind
<1>6. log \in Seq(LogEntry)
      /\ \A k \in DOMAIN log : (k \in DOMAIN p.log /\ log[k] = p.log[k]) \/ log[k] = entry
  BY <1>1, <1>4
<1> HIDE DEF log
<1>14. p.depth - 1 \in Nat
  BY <1>2
<1>7. /\ q \in Request /\ q.ran = p.ran /\ q.at = "up" /\ q.depth = p.depth - 1 /\ q.resp = resp
      /\ q.chain = p.chain /\ q.since = p.since /\ q.log = log
      /\ q.denied = p.denied /\ q.disallowed = p.disallowed
  BY <1>1, <1>3, <1>6, <1>14 DEF Request
<1> HIDE DEF q
<1>8. \A k \in DOMAIN log :
        /\ log[k].status = resp.status
        /\ log[k].body = resp.body \/ \E j \in 1..n : p.chain[j] = "error"
  <2>1. kind = "error" => \E j \in 1..n : p.chain[j] = "error"
    BY <1>2 DEF kind
  <2>2. \A k \in DOMAIN p.log :
          /\ p.log[k].status = p.resp.status
          /\ p.log[k].body = p.resp.body \/ \E j \in 1..n : p.chain[j] = "error"
    BY <1>1 DEF WayOut
  <2> QED BY <2>1, <2>2, <1>3, <1>4, <1>6
<1>9. q.depth = 0 => kind = q.chain[1]
  BY <1>2, <1>7 DEF kind
<1>10. /\ q.ran = 1 => \A k \in 1..n : ~RefusedBy(q, q.chain[k])
       /\ q.ran = 0 => \E k \in 1..n : RefusedBy(q, q.chain[k])
  BY <1>1, <1>7 DEF WayOut, RefusedBy
<1>11. WayOut(q)
  BY <1>2, <1>3, <1>7, <1>8, <1>9, <1>10 DEF WayOut
<1>12. ChainOk(q)
  BY <1>1, <1>7 DEF ChainOk
<1>13. RequestOk(q)
  BY <1>7, <1>11, <1>12 DEF RequestOk
<1> QED BY <1>1, <1>5, <1>13, RequestSteps

LEMMA InvokeReturnsKept ==
  ASSUME PipeInv, NEW r \in Requests, InvokeReturns(r)
  PROVE  PipeInv'
<1> DEFINE q == [req[r] EXCEPT !.at = "done"]
<1>1. req[r] \in Request /\ RequestOk(req[r]) /\ req[r].at = "up" /\ req[r].depth = 0
      /\ UNCHANGED <<valves, basic>> /\ req' = [req EXCEPT ![r] = q]
  BY DEF PipeInv, InvokeReturns
<1>2. /\ q \in Request /\ q.ran = req[r].ran /\ q.at = "done" /\ q.depth = 0 /\ q.resp = req[r].resp
      /\ q.chain = req[r].chain /\ q.since = req[r].since /\ q.log = req[r].log
      /\ q.denied = req[r].denied /\ q.disallowed = req[r].disallowed
  BY <1>1 DEF Request
<1> HIDE DEF q
<1>3. WayOut(q) /\ ChainOk(q)
  BY <1>1, <1>2 DEF RequestOk, WayOut, ChainOk, RefusedBy
<1>4. RequestOk(q)
  BY <1>2, <1>3 DEF RequestOk
<1> QED BY <1>1, <1>4, RequestSteps

-----------------------------------------------------------------------------
LEMMA PipeInductive ==
  ASSUME PipeInv, [PipeNext]_pipeVars
  PROVE  PipeInv'
<1>1. CASE UNCHANGED pipeVars
  <2>1. \A r \in Requests : RequestOk(req[r])'
    BY <1>1 DEF pipeVars, PipeInv, RequestOk
  <2> QED BY <1>1, <2>1 DEF pipeVars, PipeInv
<1> QED BY <1>1, ConfigureKept, InvokeKept, SnapshotValvesKept, SnapshotBasicKept, CallKept, CallAppKept,
           ExhaustedKept, ReturnKept, InvokeReturnsKept DEF PipeNext

LEMMA PipeInvReports == PipeInv => ResponsesReported
<1> SUFFICES ASSUME PipeInv  PROVE ResponsesReported
  OBVIOUS
<1>1. ASSUME NEW r \in Requests
      PROVE  /\ req[r] \in Request /\ req[r].ran \in {0, 1} /\ req[r].chain \in Seq(Kinds)
             /\ DOMAIN req[r].chain = 1..Len(req[r].chain) /\ Len(req[r].chain) \in Nat
             /\ \A kind : Refuses(r, kind) <=> RefusedBy(req[r], kind)
             /\ Answered(r) => ChainOk(req[r]) /\ WayOut(req[r]) /\ req[r].depth = 0
  <2>1. req[r] \in Request /\ RequestOk(req[r])
    BY DEF PipeInv
  <2>2. \A kind : Refuses(r, kind) <=> RefusedBy(req[r], kind)
    BY DEF Refuses, RefusedBy
  <2> QED BY <2>1, <2>2, RequestParts DEF RequestOk, Answered
<1>2. AppRunsOnce
  <2> SUFFICES ASSUME NEW r \in Requests
               PROVE  /\ req[r].ran <= 1
                      /\ Answered(r) /\ req[r].ran = 0 =>
                           \E k \in DOMAIN req[r].chain : Refuses(r, req[r].chain[k])
                      /\ Answered(r) /\ (\E kind \in req[r].since : Refuses(r, kind)) => req[r].ran = 0
    BY DEF AppRunsOnce
  <2>1. req[r].ran <= 1
    BY <1>1
  <2>2. ASSUME Answered(r), req[r].ran = 0
        PROVE  \E k \in DOMAIN req[r].chain : Refuses(r, req[r].chain[k])
    BY <1>1, <2>2 DEF WayOut
  <2>3. ASSUME Answered(r), NEW kind \in req[r].since, Refuses(r, kind)
        PROVE  req[r].ran = 0
    BY <1>1, <2>3 DEF WayOut, ChainOk
  <2> QED BY <2>1, <2>2, <2>3
<1>3. LogsFinal
  <2> SUFFICES ASSUME NEW r \in Requests, Answered(r), NEW k \in DOMAIN req[r].log
               PROVE  /\ req[r].log[k].status = req[r].resp.status
                      /\ req[r].log[k].body = req[r].resp.body \/ "error" \in Range(req[r].chain)
    BY DEF LogsFinal
  <2> QED BY <1>1 DEF WayOut, Range
<1>4. ErrorsReported
  BY <1>1 DEF ErrorsReported, WayOut
<1> QED BY <1>2, <1>3, <1>4 DEF ResponsesReported

(* However valves are installed while requests run, and wherever they stand *)
(* in the chain: the basic valve of a request runs once or a filter refused *)
(* it, never behind a filter installed before the request began; the access *)
(* log has the response that was sent; and the outermost error report and   *)
(* security headers reach every response.                                   *)
THEOREM ResponsesAreReported == PipeSpec => []ResponsesReported
<1>1. PipeInit => PipeInv
  BY PipeInitial
<1>2. PipeInv /\ [PipeNext]_pipeVars => PipeInv'
  BY PipeInductive
<1>3. PipeInv => ResponsesReported
  BY PipeInvReports
<1> QED BY <1>1, <1>2, <1>3, PTL DEF PipeSpec

-----------------------------------------------------------------------------
(* The remote stores: their inductive invariants. *)

Starts == {"update", "delete", "set", "del"}
Statements == {"idle", "update", "insert", "delete", "set", "persist", "del"}
Operation ==
  [op : Starts \cup {"none"}, at : Statements, data : Nat, interval : Nat,
   result : {"none", "ok", "error", "duplicate"}, shared : BOOLEAN]
KeyRecord == [data : Nat, interval : Nat, ttl : (Nat \ {0}) \cup {NoTtl}]

StoreTypes ==
  /\ ops \in Nat /\ deleted \in BOOLEAN /\ mixed \in BOOLEAN
  /\ task \in [Clients -> Operation]
  /\ row \in {<<>>} \cup {<<d>> : d \in Nat}
  /\ key \in {<<>>} \cup {<<k>> : k \in KeyRecord}

\* An operation is at the first, or the second, statement of what was called, and
\* has a result once it is over.
Statement(o) ==
  /\ o.at \in {"update", "insert"} => o.op = "update"
  /\ o.at \in {"set", "persist"} => o.op = "set"
  /\ o.at = "delete" => o.op = "delete"
  /\ o.at = "del" => o.op = "del"
  /\ o.at # "idle" => o.result = "none" /\ o.data > 0

\* Who has seen no other operation is alone: for its own operation, and until
\* the next one begins.
Alone(t) == \A u \in Clients \ {t} : Resting(u)
Unshared ==
  \A t \in Clients :
    ~task[t].shared /\ (~Resting(t) \/ (ops > 0 /\ task[t].data = ops)) => Alone(t)

Counted == \A t \in Clients : task[t].data <= ops

\* The second statement of an operation finds what its first one left, unless
\* another operation came between.
SecondStatement ==
  \A t \in Clients :
    /\ task[t].at = "insert" /\ ~task[t].shared => row = <<>>
    /\ task[t].at = "persist" /\ ~task[t].shared => key = <<>> \/ key[1].data = task[t].data
    /\ task[t].at = "persist" => key = <<>> \/ WholeSeconds(key[1].interval) = 0 \/ mixed

DeletedQuiet == deleted => SavesUnderWay = {}

StoresInv ==
  /\ StoreTypes /\ (\A t \in Clients : Statement(task[t]))
  /\ Unshared /\ Counted /\ SecondStatement /\ DeletedQuiet
  /\ SavedIsThere /\ DeletedStaysAway /\ RedisEvicts

\* Each store has its statements.
OfJdbc == key = <<>> /\ \A t \in Clients : task[t].at \in {"idle", "update", "insert", "delete"}
OfRedis == row = <<>> /\ \A t \in Clients : task[t].at \in {"idle", "set", "persist", "del"}
JdbcInv == StoresInv /\ OfJdbc
RedisInv == StoresInv /\ OfRedis

-----------------------------------------------------------------------------
(* What the tasks are after a step. *)
TaskFacts ==
  /\ task \in [Clients -> Operation] /\ (\A t \in Clients : Statement(task[t]))
  /\ Unshared /\ Counted

\* Another task's operation is the same one, at the same statement, and shared
\* if it is under way.
SameButShared(o, old) ==
  /\ o.op = old.op /\ o.at = old.at /\ o.data = old.data /\ o.interval = old.interval
  /\ o.result = old.result
  /\ o.shared <=> old.shared \/ old.at # "idle"

LEMMA EndFacts ==
  ASSUME TaskFacts, ops \in Nat, NEW t \in Clients, ~Resting(t), ops' = ops,
         NEW result \in {"ok", "error", "duplicate"}, task' = End(t, result)
  PROVE  /\ TaskFacts'
         /\ task'[t].at = "idle" /\ task'[t].result = result /\ task'[t].op = task[t].op
         /\ task'[t].data = task[t].data /\ (task'[t].shared <=> task[t].shared)
         /\ \A u \in Clients \ {t} : SameButShared(task'[u], task[u])
<1>1. \A u \in Clients : task[u] \in Operation
  BY DEF TaskFacts
<1>2. /\ task'[t].at = "idle" /\ task'[t].result = result /\ task'[t].op = task[t].op
      /\ task'[t].data = task[t].data /\ (task'[t].shared <=> task[t].shared)
      /\ task'[t] \in Operation
  BY <1>1 DEF End, Operation, Statements
<1>3. ASSUME NEW u \in Clients \ {t}
      PROVE  task'[u] \in Operation /\ SameButShared(task'[u], task[u])
  BY <1>1 DEF End, Operation, SameButShared
<1>4. task' \in [Clients -> Operation]
  <2>1. task' = [u \in Clients |-> task'[u]]
    BY DEF End
  <2> QED BY <2>1, <1>2, <1>3
<1>5. \A u \in Clients : Statement(task[u])'
  BY <1>2, <1>3 DEF TaskFacts, Statement, SameButShared
<1>6. Counted'
  BY <1>2, <1>3 DEF TaskFacts, Counted, SameButShared
<1>7. Unshared'
  <2> SUFFICES ASSUME NEW u \in Clients, ~task'[u].shared, task'[u].at # "idle" \/ (ops > 0 /\ task'[u].data = ops),
                      NEW v \in Clients \ {u}
               PROVE  task'[v].at = "idle"
    BY DEF Unshared, Alone, Resting
  <2>1. u = t /\ Alone(t)
    <3>1. Alone(u)
      BY <1>2, <1>3 DEF TaskFacts, Unshared, Resting, SameButShared
    <3>2. u # t => Resting(t)
      BY <3>1 DEF Alone
    <3> QED BY <3>1, <3>2
  <2>2. v # t /\ task[v].at = "idle"
    BY <2>1 DEF Alone, Resting
  <2> QED BY <2>2, <1>3 DEF SameButShared
<1> QED BY <1>2, <1>3, <1>4, <1>5, <1>6, <1>7 DEF TaskFacts

LEMMA StepFacts ==
  ASSUME TaskFacts, ops \in Nat, NEW t \in Clients, ~Resting(t), ops' = ops,
         NEW at \in {"insert", "persist"}, task' = StepTo(t, at),
         at = "insert" => task[t].at = "update", at = "persist" => task[t].at = "set"
  PROVE  /\ TaskFacts'
         /\ task'[t].at = at /\ task'[t].op = task[t].op /\ task'[t].result = "none"
         /\ task'[t].data = task[t].data /\ (task'[t].shared <=> task[t].shared)
         /\ \A u \in Clients \ {t} : task'[u] = task[u]
<1>1. \A u \in Clients : task[u] \in Operation /\ Statement(task[u])
  BY DEF TaskFacts
<1>2. /\ task'[t].at = at /\ task'[t].op = task[t].op /\ task'[t].result = "none"
      /\ task'[t].data = task[t].data /\ (task'[t].shared <=> task[t].shared)
      /\ task'[t] \in Operation
  BY <1>1 DEF StepTo, Operation, Statements, TaskFacts, Statement
<1>3. \A u \in Clients \ {t} : task'[u] = task[u]
  BY DEF StepTo, TaskFacts
<1>4. task' \in [Clients -> Operation]
  BY <1>2 DEF StepTo, TaskFacts
<1>5. \A u \in Clients : Statement(task[u])'
  BY <1>1, <1>2, <1>3 DEF Statement
<1>6. Counted'
  BY <1>2, <1>3 DEF TaskFacts, Counted
<1>7. Unshared'
  <2>1. \A u \in Clients : Resting(u)' <=> Resting(u)
    BY <1>2, <1>3 DEF Resting
  <2> QED BY <2>1, <1>2, <1>3 DEF TaskFacts, Unshared, Alone
<1> QED BY <1>2, <1>3, <1>4, <1>5, <1>6, <1>7 DEF TaskFacts

LEMMA BeginFacts ==
  ASSUME TaskFacts, ops \in Nat, NEW t \in Clients, NEW at \in Starts, NEW interval \in Nat,
         BeginOp(t, at, interval)
  PROVE  /\ TaskFacts' /\ ops' = ops + 1
         /\ task[t].at = "idle" /\ task'[t].at = at /\ task'[t].result = "none"
         /\ \A u \in Clients \ {t} : SameButShared(task'[u], task[u])
<1>1. \A u \in Clients : task[u] \in Operation
  BY DEF TaskFacts
<1>2. /\ ops' = ops + 1 /\ task[t].at = "idle" /\ task'[t].at = at /\ task'[t].result = "none"
      /\ task'[t].op = at /\ (task'[t].shared <=> \E o \in Clients : ~Resting(o))
      /\ task'[t].data = ops + 1 /\ task'[t] \in Operation
  BY DEF BeginOp, Resting, Operation, Starts, Statements
<1>3. ASSUME NEW u \in Clients \ {t}
      PROVE  task'[u] \in Operation /\ SameButShared(task'[u], task[u])
  BY <1>1 DEF BeginOp, Operation, SameButShared
<1>4. task' \in [Clients -> Operation]
  <2>1. task' = [u \in Clients |-> task'[u]]
    BY DEF BeginOp
  <2> QED BY <2>1, <1>2, <1>3
<1>5. \A u \in Clients : Statement(task[u])'
  BY <1>2, <1>3 DEF TaskFacts, Statement, SameButShared, Starts
<1>6. Counted'
  BY <1>1, <1>2, <1>3 DEF TaskFacts, Counted, SameButShared, Operation
<1>7. Unshared'
  <2> SUFFICES ASSUME NEW u \in Clients, ~task'[u].shared, task'[u].at # "idle" \/ task'[u].data = ops',
                      NEW v \in Clients \ {u}
               PROVE  task'[v].at = "idle"
    BY DEF Unshared, Alone, Resting
  <2>1. u = t
    BY <1>1, <1>2, <1>3 DEF TaskFacts, Counted, SameButShared, Operation
  <2>2. task[v].at = "idle"
    BY <2>1, <1>2 DEF Resting
  <2> QED BY <2>1, <2>2, <1>3 DEF SameButShared
<1> QED BY <1>2, <1>3, <1>4, <1>5, <1>6, <1>7 DEF TaskFacts

-----------------------------------------------------------------------------
(* The steps of both stores. *)
LEMMA StoresParts ==
  ASSUME StoresInv
  PROVE  /\ TaskFacts /\ ops \in Nat
         /\ \A t \in Clients : task[t] \in Operation /\ Statement(task[t]) /\ task[t].data <= ops
BY DEF StoresInv, StoreTypes, TaskFacts, Counted

LEMMA BeginKept ==
  ASSUME StoresInv, NEW t \in Clients, NEW at \in Starts, NEW interval \in Nat,
         BeginOp(t, at, interval)
  PROVE  StoresInv'
<1>1. TaskFacts' /\ ops' = ops + 1 /\ task[t].at = "idle" /\ task'[t].at = at
      /\ task'[t].result = "none" /\ \A u \in Clients \ {t} : SameButShared(task'[u], task[u])
  BY StoresParts, BeginFacts
<1>2. row' = row /\ key' = key /\ mixed' = mixed /\ deleted' = (deleted /\ at \in {"delete", "del"})
  BY DEF BeginOp
<1>3. StoreTypes'
  BY <1>1, <1>2 DEF StoresInv, StoreTypes, TaskFacts
<1>4. SecondStatement'
  <2>1. at \notin {"insert", "persist"}
    BY DEF Starts
  <2> QED BY <2>1, <1>1, <1>2 DEF StoresInv, SecondStatement, SameButShared
<1>5. DeletedQuiet'
  <2>1. deleted' => at \notin {"update", "insert", "set", "persist"}
    BY <1>2
  <2> QED BY <2>1, <1>1, <1>2 DEF StoresInv, DeletedQuiet, SavesUnderWay, SameButShared
<1>6. SavedIsThere'
  <2>1. \A u \in Clients \ {t} : task'[u].data # ops' /\ (task'[u].result = "duplicate" => task'[u].shared)
    BY <1>1, StoresParts DEF SameButShared, StoresInv, SavedIsThere, Operation
  <2> QED BY <2>1, <1>1 DEF SavedIsThere
<1>7. DeletedStaysAway' /\ RedisEvicts'
  BY <1>2 DEF StoresInv, DeletedStaysAway, RedisEvicts
<1> QED BY <1>1, <1>3, <1>4, <1>5, <1>6, <1>7 DEF StoresInv, TaskFacts

\* An operation that ends.  What it leaves in the store: its own data when it
\* saved, and nothing of another that shares its time.
LEMMA EndKept ==
  ASSUME StoresInv, NEW t \in Clients, ~Resting(t), ops' = ops,
         NEW result \in {"ok", "error", "duplicate"}, task' = End(t, result),
         row' \in {<<>>} \cup {<<d>> : d \in Nat}, key' \in {<<>>} \cup {<<k>> : k \in KeyRecord},
         mixed' \in BOOLEAN, mixed => mixed', deleted' \in BOOLEAN,
         result = "duplicate" => task[t].shared,
         result = "ok" /\ task[t].op = "update" => row' = <<task[t].data>>,
         result = "ok" /\ task[t].op = "set" /\ ~task[t].shared => key' = <<>> \/ key'[1].data = task[t].data,
         key' # <<>> =>
           /\ WholeSeconds(key'[1].interval) = 0 \/ mixed' \/ \A u \in Clients \ {t} : task[u].at # "persist"
           /\ key'[1].ttl = NoTtl => WholeSeconds(key'[1].interval) = 0 \/ mixed',
         deleted' => row' = <<>> /\ key' = <<>> /\ SavesUnderWay \subseteq {t}
  PROVE  StoresInv'
<1>1. TaskFacts' /\ task'[t].at = "idle" /\ task'[t].result = result /\ task'[t].op = task[t].op
      /\ task'[t].data = task[t].data /\ (task'[t].shared <=> task[t].shared)
      /\ \A u \in Clients \ {t} : SameButShared(task'[u], task[u])
  BY StoresParts, EndFacts
<1>2. StoreTypes'
  BY <1>1, StoresParts DEF StoreTypes, TaskFacts
<1>3. SecondStatement'
  <2> SUFFICES ASSUME NEW u \in Clients \ {t}, task'[u].at \in {"insert", "persist"}
               PROVE  /\ task'[u].shared
                      /\ task'[u].at = "persist" => key' = <<>> \/ WholeSeconds(key'[1].interval) = 0 \/ mixed'
    BY <1>1 DEF SecondStatement
  <2>1. task[u].at = task'[u].at /\ task'[u].shared
    BY <1>1 DEF SameButShared
  <2> QED BY <2>1
<1>4. DeletedQuiet'
  BY <1>1 DEF DeletedQuiet, SavesUnderWay, SameButShared
<1>5. SavedIsThere'
  <2>1. \A u \in Clients : task'[u].result = "duplicate" => task'[u].shared
    BY <1>1 DEF StoresInv, SavedIsThere, SameButShared
  <2>2. ASSUME NEW u \in Clients \ {t}, task'[u].result = "ok", task'[u].data = ops, ~task'[u].shared
        PROVE  task'[u].op \notin {"update", "set"}
    <3>1. task[u].data = ops /\ ~task[u].shared /\ task[u].at = "idle" /\ task[u].op = task'[u].op
      BY <1>1, <2>2 DEF SameButShared
    <3>2. task[t].data > 0 /\ task[t].data <= ops /\ task[t].data \in Nat /\ ops \in Nat
      BY StoresParts DEF Statement, Resting, Operation
    <3>3. Unshared /\ ops > 0
      BY <3>2 DEF StoresInv
    <3>4. Alone(u)
      BY <3>1, <3>3 DEF Unshared
    <3>5. FALSE
      BY <3>4 DEF Alone
    <3> QED BY <3>5
  <2> QED BY <2>1, <2>2, <1>1 DEF SavedIsThere
<1>6. DeletedStaysAway' /\ RedisEvicts'
  BY DEF DeletedStaysAway, RedisEvicts
<1> QED BY <1>1, <1>2, <1>3, <1>4, <1>5, <1>6 DEF StoresInv, TaskFacts

-----------------------------------------------------------------------------
(* JdbcSessionStore. *)
LEMMA JdbcStep ==
  ASSUME JdbcInv, [JdbcNext]_storeVars
  PROVE  JdbcInv'
<1>1. StoresInv /\ OfJdbc /\ key = <<>>
  BY DEF JdbcInv, OfJdbc
<1>2. /\ ops \in Nat /\ mixed \in BOOLEAN /\ deleted \in BOOLEAN
      /\ row \in {<<>>} \cup {<<d>> : d \in Nat} /\ key \in {<<>>} \cup {<<k>> : k \in KeyRecord}
  BY <1>1 DEF StoresInv, StoreTypes
<1>3. ASSUME NEW t \in Clients, ~Resting(t), NEW result \in {"ok", "error", "duplicate"},
             task' = End(t, result), key' = key
      PROVE  OfJdbc'
  <2>1. task'[t].at = "idle" /\ \A u \in Clients \ {t} : SameButShared(task'[u], task[u])
    BY <1>1, <1>2, <1>3, StoresParts DEF End, SameButShared, TaskFacts, Operation
  <2> QED BY <2>1, <1>1, <1>3 DEF OfJdbc, SameButShared
<1>4. ASSUME NEW t \in Clients, NEW at \in {"update", "delete"}, BeginOp(t, at, 0)
      PROVE  JdbcInv'
  <2>1. StoresInv' /\ key' = key
    BY <1>1, <1>4, BeginKept DEF BeginOp, Starts
  <2>2. task'[t].at = at /\ \A u \in Clients \ {t} : SameButShared(task'[u], task[u])
    BY <1>1, <1>2, <1>4, StoresParts, BeginFacts DEF Starts
  <2> QED BY <2>1, <2>2, <1>1 DEF JdbcInv, OfJdbc, SameButShared
<1>5. ASSUME NEW t \in Clients, Update(t)  PROVE JdbcInv'
  <2>1. ~Resting(t) /\ task[t].at = "update" /\ task[t].op = "update" /\ task[t].data \in Nat
        /\ UNCHANGED <<key, ops, deleted, mixed>>
    BY <1>1, <1>5, StoresParts DEF Update, Resting, Statement, Operation
  <2>2. t \in SavesUnderWay
    BY <2>1 DEF SavesUnderWay
  <2>3. ~deleted
    BY <2>2, <1>1 DEF StoresInv, DeletedQuiet
  <2>4. CASE row # <<>>
    <3>1. row' = <<task[t].data>> /\ task' = End(t, "ok")
      BY <1>5, <2>4 DEF Update
    <3>2. StoresInv'
      BY <1>1, <1>2, <2>1, <2>3, <3>1, EndKept
    <3> QED BY <3>1, <3>2, <1>3, <2>1 DEF JdbcInv
  <2>5. CASE row = <<>>
    <3>1. row' = row /\ task' = StepTo(t, "insert")
      BY <1>5, <2>5 DEF Update
    <3>2. /\ TaskFacts' /\ task'[t].at = "insert" /\ task'[t].op = task[t].op
          /\ task'[t].result = "none" /\ task'[t].data = task[t].data
          /\ \A u \in Clients \ {t} : task'[u] = task[u]
      BY <1>1, <2>1, <3>1, StoresParts, StepFacts
    <3>3. StoreTypes'
      BY <3>1, <3>2, <2>1, <1>2 DEF StoreTypes, TaskFacts
    <3>4. SecondStatement'
      BY <3>1, <3>2, <2>1, <2>5, <1>1 DEF SecondStatement
    <3>5. DeletedQuiet' /\ DeletedStaysAway' /\ RedisEvicts'
      BY <2>1, <2>3, <1>1 DEF DeletedQuiet, DeletedStaysAway, RedisEvicts
    <3>6. SavedIsThere'
      BY <3>1, <3>2, <2>1, <1>1 DEF StoresInv, SavedIsThere
    <3>7. OfJdbc'
      BY <3>2, <2>1, <1>1 DEF OfJdbc
    <3> QED BY <3>2, <3>3, <3>4, <3>5, <3>6, <3>7 DEF JdbcInv, StoresInv, TaskFacts
  <2> QED BY <2>4, <2>5
<1>6. ASSUME NEW t \in Clients, Insert(t)  PROVE JdbcInv'
  <2>1. ~Resting(t) /\ task[t].at = "insert" /\ task[t].op = "update" /\ task[t].data \in Nat
        /\ UNCHANGED <<key, ops, deleted, mixed>>
    BY <1>1, <1>6, StoresParts DEF Insert, Resting, Statement, Operation
  <2>2. t \in SavesUnderWay
    BY <2>1 DEF SavesUnderWay
  <2>3. ~deleted
    BY <2>2, <1>1 DEF StoresInv, DeletedQuiet
  <2>4. CASE row = <<>>
    <3>1. row' = <<task[t].data>> /\ task' = End(t, "ok")
      BY <1>6, <2>4 DEF Insert
    <3>2. StoresInv'
      BY <1>1, <1>2, <2>1, <2>3, <3>1, EndKept
    <3> QED BY <3>1, <3>2, <1>3, <2>1 DEF JdbcInv
  <2>5. CASE row # <<>>
    <3>1. row' = row /\ task' = End(t, "duplicate")
      BY <1>6, <2>5 DEF Insert
    <3>2. task[t].shared
      BY <2>1, <2>5, <1>1 DEF StoresInv, SecondStatement
    <3>3. StoresInv'
      BY <1>1, <1>2, <2>1, <2>3, <3>1, <3>2, EndKept
    <3> QED BY <3>1, <3>3, <1>3, <2>1 DEF JdbcInv
  <2> QED BY <2>4, <2>5
<1>7. ASSUME NEW t \in Clients, SqlDelete(t)  PROVE JdbcInv'
  <2>1. ~Resting(t) /\ task[t].at = "delete" /\ task[t].op = "delete"
        /\ UNCHANGED <<key, ops, mixed>> /\ row' = <<>> /\ deleted' = (SavesUnderWay = {})
        /\ task' = End(t, "ok")
    BY <1>1, <1>7, StoresParts DEF SqlDelete, Resting, Statement
  <2>2. StoresInv'
    BY <1>1, <1>2, <2>1, EndKept
  <2> QED BY <2>1, <2>2, <1>3 DEF JdbcInv
<1>8. ASSUME NEW t \in Clients, Fault(t)  PROVE JdbcInv'
  <2>1. ~Resting(t) /\ ops' = ops /\ deleted' = deleted /\ task' = End(t, "error")
    BY <1>8 DEF Fault
  <2>2. task[t].at \in {"update", "insert", "delete"} /\ task[t].data \in Nat
    BY <1>1, <2>1, StoresParts DEF OfJdbc, Resting, Operation
  <2>3. key' = key /\ mixed' = mixed /\ row' \in {row, Executed(t)}
    BY <1>8, <2>2, <1>2 DEF Fault, Commanded, Mixes
  <2>4. row' \in {row, <<>>, <<task[t].data>>} /\ (task[t].at = "delete" => row' \in {row, <<>>})
    BY <2>2, <2>3 DEF Executed
  <2>5. deleted => task[t].at = "delete" /\ row = <<>> /\ SavesUnderWay = {}
    BY <2>2, <1>1 DEF StoresInv, DeletedQuiet, DeletedStaysAway, SavesUnderWay
  <2>6. StoresInv'
    <3>1. deleted' => row' = <<>> /\ key' = <<>> /\ SavesUnderWay \subseteq {t}
      BY <2>1, <2>3, <2>4, <2>5, <1>1
    <3>2. row' \in {<<>>} \cup {<<d>> : d \in Nat}
      BY <2>2, <2>4, <1>2
    <3>3. key' = <<>>
      BY <2>3, <1>1
    <3> QED BY <1>1, <1>2, <2>1, <2>3, <3>1, <3>2, <3>3, EndKept
  <2> QED BY <2>1, <2>3, <2>6, <1>3 DEF JdbcInv
<1>9. CASE UNCHANGED storeVars
  <2>1. StoreTypes' /\ (\A t \in Clients : Statement(task[t]))' /\ Unshared' /\ Counted'
        /\ SecondStatement'
    BY <1>1, <1>9 DEF storeVars, StoresInv, StoreTypes, Statement, Unshared, Alone, Resting, Counted,
                      SecondStatement
  <2>2. DeletedQuiet' /\ SavedIsThere' /\ DeletedStaysAway' /\ RedisEvicts' /\ OfJdbc'
    BY <1>1, <1>9 DEF storeVars, StoresInv, DeletedQuiet, SavesUnderWay, SavedIsThere, DeletedStaysAway,
                      RedisEvicts, OfJdbc
  <2> QED BY <2>1, <2>2 DEF StoresInv, JdbcInv
<1> QED BY <1>4, <1>5, <1>6, <1>7, <1>8, <1>9 DEF JdbcNext

-----------------------------------------------------------------------------
(* RedisSessionStore. *)

\* What a save writes expires, unless its interval has no whole second.
LEMMA WrittenExpires ==
  ASSUME NEW t \in Clients, task[t] \in Operation
  PROVE  \E k \in KeyRecord :
           /\ Written(t) = <<k>> /\ k.data = task[t].data
           /\ Expires(t) => k.ttl # NoTtl
           /\ ~Expires(t) => WholeSeconds(k.interval) = 0
<1> DEFINE i == task[t].interval
           k == [data |-> task[t].data, interval |-> i,
                 ttl |-> IF Expires(t) THEN 2 * WholeSeconds(i) ELSE NoTtl]
<1>1. i \in Nat /\ task[t].data \in Nat
  BY DEF Operation
<1>2. WholeSeconds(i) \in Nat
  BY <1>1 DEF WholeSeconds
<1>3. Expires(t) <=> WholeSeconds(i) > 0
  BY DEF Expires
<1>4. k.ttl \in (Nat \ {0}) \cup {NoTtl} /\ (Expires(t) => k.ttl # NoTtl)
  <2>1. CASE Expires(t)
    <3>1. k.ttl = 2 * WholeSeconds(i)
      BY <2>1
    <3> QED BY <3>1, <2>1, <1>2, <1>3 DEF NoTtl
  <2>2. CASE ~Expires(t)
    BY <2>2
  <2> QED BY <2>1, <2>2
<1>5. k \in KeyRecord
  BY <1>1, <1>4 DEF KeyRecord
<1>6. Written(t) = <<k>> /\ k.data = task[t].data /\ k.interval = i
  BY DEF Written
<1> QED BY <1>2, <1>3, <1>4, <1>5, <1>6

LEMMA RedisEndKept ==
  ASSUME OfRedis, NEW t \in Clients, ~Resting(t), StoresInv,
         NEW result \in {"ok", "error", "duplicate"}, task' = End(t, result), row' = row
  PROVE  OfRedis'
<1>1. task'[t].at = "idle" /\ \A u \in Clients \ {t} : SameButShared(task'[u], task[u])
  BY StoresParts DEF End, SameButShared, TaskFacts, Operation
<1> QED BY <1>1 DEF OfRedis, SameButShared

\* A command that ends its operation: with an answer, or with an error whether
\* it was executed or not.
LEMMA RedisEnds ==
  ASSUME RedisInv, NEW t \in Clients, task[t].at \in {"set", "persist", "del"},
         NEW result \in {"ok", "error"}, task' = End(t, result), ops' = ops, row' = row,
         \/ key' = Commanded(t) /\ mixed' = (mixed \/ Mixes(t))
         \/ key' = key /\ mixed' = mixed /\ result = "error",
         \/ deleted' = deleted
         \/ task[t].at = "del" /\ key' = <<>> /\ deleted' = (SavesUnderWay = {})
  PROVE  RedisInv'
<1>1. StoresInv /\ OfRedis /\ row = <<>>
  BY DEF RedisInv, OfRedis
<1>2. /\ ops \in Nat /\ mixed \in BOOLEAN /\ deleted \in BOOLEAN
      /\ key \in {<<>>} \cup {<<k>> : k \in KeyRecord}
  BY <1>1 DEF StoresInv, StoreTypes
<1>3. task[t] \in Operation /\ task[t].data \in Nat /\ ~Resting(t)
      /\ task[t].op = (IF task[t].at = "del" THEN "del" ELSE "set")
  BY <1>1, StoresParts DEF Operation, Statement, Resting
<1>4. mixed' \in BOOLEAN /\ (mixed => mixed') /\ deleted' \in BOOLEAN
  BY <1>2 DEF Mixes
<1>5. SecondStatement /\ RedisEvicts /\ DeletedStaysAway /\ DeletedQuiet
  BY <1>1 DEF StoresInv
<1>6. /\ key' \in {<<>>} \cup {<<k>> : k \in KeyRecord}
      /\ result = "ok" /\ task[t].op = "set" /\ ~task[t].shared => key' = <<>> \/ key'[1].data = task[t].data
      /\ key' # <<>> =>
           /\ WholeSeconds(key'[1].interval) = 0 \/ mixed' \/ \A u \in Clients \ {t} : task[u].at # "persist"
           /\ key'[1].ttl = NoTtl => WholeSeconds(key'[1].interval) = 0 \/ mixed'
  <2>1. CASE key' = key /\ mixed' = mixed /\ result = "error"
    BY <2>1, <1>2, <1>5 DEF SecondStatement, RedisEvicts
  <2>2. CASE key' = Commanded(t) /\ mixed' = (mixed \/ Mixes(t)) /\ task[t].at = "set"
    <3>1. PICK k \in KeyRecord :
            /\ Written(t) = <<k>> /\ k.data = task[t].data
            /\ Expires(t) => k.ttl # NoTtl
            /\ ~Expires(t) => WholeSeconds(k.interval) = 0
      BY <1>3, WrittenExpires
    <3>2. key' = <<k>> /\ key'[1] = k
      BY <2>2, <3>1 DEF Commanded
    <3>3. Expires(t) => mixed' \/ \A u \in Clients \ {t} : task[u].at # "persist"
      BY <2>2 DEF Mixes, OtherPersists
    <3> QED BY <3>1, <3>2, <3>3
  <2>3. CASE key' = Commanded(t) /\ mixed' = (mixed \/ Mixes(t)) /\ task[t].at = "persist"
    <3>1. CASE key = <<>>
      BY <2>3, <3>1 DEF Commanded
    <3>2. CASE key # <<>>
      <4>1. PICK k \in KeyRecord : key = <<k>>
        BY <3>2, <1>2
      <4>2. key[1] = k /\ key' = <<[k EXCEPT !.ttl = NoTtl]>>
        BY <2>3, <3>2, <4>1 DEF Commanded
      <4>3. [k EXCEPT !.ttl = NoTtl] \in KeyRecord
        BY DEF KeyRecord
      <4>4. key' # <<>> /\ key'[1].data = k.data /\ key'[1].interval = k.interval /\ key'[1].ttl = NoTtl
        BY <4>2 DEF KeyRecord
      <4>5. WholeSeconds(k.interval) = 0 \/ mixed
        BY <2>3, <3>2, <4>2, <1>5 DEF SecondStatement
      <4>6. ~task[t].shared => k.data = task[t].data
        BY <2>3, <3>2, <4>2, <1>5 DEF SecondStatement
      <4> QED BY <4>2, <4>3, <4>4, <4>5, <4>6, <1>4
    <3> QED BY <3>1, <3>2
  <2>4. CASE key' = Commanded(t) /\ mixed' = (mixed \/ Mixes(t)) /\ task[t].at = "del"
    BY <2>4 DEF Commanded
  <2> QED BY <2>1, <2>2, <2>3, <2>4
<1>7. deleted' => row' = <<>> /\ key' = <<>> /\ SavesUnderWay \subseteq {t}
  <2>1. CASE task[t].at = "del"
    <3>1. key' \in {key, <<>>}
      BY <2>1 DEF Commanded
    <3> QED BY <2>1, <3>1, <1>1, <1>5 DEF DeletedStaysAway, DeletedQuiet
  <2>2. CASE task[t].at # "del"
    <3>1. t \in SavesUnderWay
      BY <2>2 DEF SavesUnderWay
    <3> QED BY <2>2, <3>1, <1>5 DEF DeletedQuiet
  <2> QED BY <2>1, <2>2
<1>8. row' \in {<<>>} \cup {<<d>> : d \in Nat} /\ task[t].op # "update"
  BY <1>1, <1>3
<1>9. StoresInv'
  BY <1>1, <1>2, <1>3, <1>4, <1>6, <1>7, <1>8, EndKept
<1> QED BY <1>1, <1>3, <1>9, RedisEndKept DEF RedisInv

\* The SET of a save without a whole second.
LEMMA SetPlainKept ==
  ASSUME RedisInv, NEW t \in Clients, SetPlain(t)
  PROVE  RedisInv'
<1>1. StoresInv /\ OfRedis /\ row = <<>> /\ TaskFacts /\ ops \in Nat
  BY StoresParts DEF RedisInv, OfRedis
<1>2. task[t].at = "set" /\ task[t] \in Operation /\ ~Resting(t)
  BY <1>1, StoresParts DEF SetPlain, Resting
<1>3. PICK k \in KeyRecord : Written(t) = <<k>> /\ k.data = task[t].data /\ WholeSeconds(k.interval) = 0
  BY <1>2, WrittenExpires DEF SetPlain
<1>4. key' = <<k>> /\ key'[1] = k /\ task' = StepTo(t, "persist") /\ UNCHANGED <<row, ops, deleted, mixed>>
  BY <1>3 DEF SetPlain
<1>5. /\ TaskFacts' /\ task'[t].at = "persist" /\ task'[t].op = task[t].op /\ task'[t].result = "none"
      /\ task'[t].data = task[t].data /\ (task'[t].shared <=> task[t].shared)
      /\ \A u \in Clients \ {t} : task'[u] = task[u]
  BY <1>1, <1>2, <1>4, StepFacts
<1>6. ~deleted
  BY <1>1, <1>2 DEF StoresInv, DeletedQuiet, SavesUnderWay
<1>7. StoreTypes'
  BY <1>1, <1>3, <1>4, <1>5 DEF StoresInv, StoreTypes, TaskFacts
<1>8. ASSUME NEW u \in Clients \ {t}, ~Resting(u) \/ (ops > 0 /\ task[u].data = ops)
      PROVE  task[u].shared
  BY <1>1, <1>2, <1>8 DEF StoresInv, Unshared, Alone
<1>9. SecondStatement'
  BY <1>1, <1>3, <1>4, <1>5, <1>8 DEF OfRedis, SecondStatement, Resting
<1>10. DeletedQuiet' /\ DeletedStaysAway' /\ RedisEvicts'
  BY <1>3, <1>4, <1>6 DEF DeletedQuiet, DeletedStaysAway, RedisEvicts
<1>11. ops > 0
  BY <1>1, <1>2, StoresParts DEF Statement, Operation
<1>12. SavedIsThere'
  <2>1. \A u \in Clients : task'[u].result = "duplicate" => task'[u].shared
    BY <1>1, <1>5 DEF StoresInv, SavedIsThere
  <2>2. \A u \in Clients : ~(task'[u].result = "ok" /\ task'[u].data = ops /\ ~task'[u].shared)
    BY <1>5, <1>8, <1>11
  <2> QED BY <2>1, <2>2, <1>4 DEF SavedIsThere
<1>13. OfRedis'
  BY <1>1, <1>4, <1>5 DEF OfRedis
<1> QED BY <1>5, <1>7, <1>9, <1>10, <1>12, <1>13 DEF RedisInv, StoresInv, TaskFacts

LEMMA EvictKept ==
  ASSUME RedisInv, Evict
  PROVE  RedisInv'
<1>1. StoresInv /\ OfRedis /\ StoreTypes
  BY DEF RedisInv, StoresInv
<1>2. UNCHANGED <<row, conn, task, ops, faults, deleted, mixed>>
  BY DEF Evict
<1>3. PICK k \in KeyRecord : key = <<k>> /\ key[1] = k /\ k.ttl \in Nat \ {0}
  BY <1>1 DEF Evict, StoreTypes, KeyRecord
<1>4. key' = <<>> \/ \E j \in KeyRecord : /\ key' = <<j>> /\ key'[1] = j /\ j.ttl # NoTtl
                                          /\ j.data = k.data /\ j.interval = k.interval
  <2>1. CASE k.ttl # 1
    <3> DEFINE j == [k EXCEPT !.ttl = @ - 1]
    <3>1. k.ttl - 1 \in Nat \ {0} /\ k.ttl - 1 # NoTtl
      BY <2>1, <1>3 DEF NoTtl
    <3>2. j \in KeyRecord /\ j.ttl # NoTtl /\ j.data = k.data /\ j.interval = k.interval
      BY <3>1 DEF KeyRecord
    <3>3. key' = <<j>>
      BY <2>1, <1>3 DEF Evict
    <3> HIDE DEF j
    <3>4. key'[1] = j
      BY <3>3
    <3> QED BY <3>2, <3>3, <3>4
  <2>2. CASE k.ttl = 1
    BY <2>2, <1>3 DEF Evict
  <2> QED BY <2>1, <2>2
<1>5. StoreTypes' /\ (\A t \in Clients : Statement(task[t]))' /\ Unshared' /\ Counted'
  <2>1. key' \in {<<>>} \cup {<<j>> : j \in KeyRecord}
    BY <1>4
  <2> QED BY <2>1, <1>1, <1>2 DEF StoresInv, StoreTypes, Statement, Unshared, Alone, Resting, Counted
<1>6. SecondStatement' /\ DeletedQuiet'
  BY <1>1, <1>2, <1>3, <1>4 DEF StoresInv, SecondStatement, DeletedQuiet, SavesUnderWay
<1>7. SavedIsThere'
  BY <1>1, <1>2, <1>3, <1>4 DEF StoresInv, SavedIsThere
<1>8. DeletedStaysAway' /\ RedisEvicts'
  BY <1>1, <1>2, <1>3, <1>4 DEF StoresInv, DeletedStaysAway, RedisEvicts
<1>9. OfRedis'
  BY <1>1, <1>2 DEF OfRedis
<1> QED BY <1>5, <1>6, <1>7, <1>8, <1>9 DEF RedisInv, StoresInv

LEMMA RedisStep ==
  ASSUME RedisInv, [RedisNext]_storeVars
  PROVE  RedisInv'
<1>1. StoresInv /\ OfRedis /\ row = <<>>
  BY DEF RedisInv, OfRedis
<1>2. ASSUME NEW t \in Clients, NEW at \in {"set", "del"}, NEW i \in Nat, BeginOp(t, at, i)
      PROVE  RedisInv'
  <2>1. StoresInv' /\ row' = row
    BY <1>1, <1>2, BeginKept DEF BeginOp, Starts
  <2>2. task'[t].at = at /\ \A u \in Clients \ {t} : SameButShared(task'[u], task[u])
    BY <1>1, <1>2, StoresParts, BeginFacts DEF Starts
  <2> QED BY <2>1, <2>2, <1>1 DEF RedisInv, OfRedis, SameButShared
<1>3. \A i \in Intervals : i \in Nat
  BY StoresAssumption
<1>4. ASSUME UNCHANGED <<row, key, task, ops, deleted, mixed>>  PROVE RedisInv'
  <2>1. StoreTypes' /\ (\A t \in Clients : Statement(task[t]))' /\ Unshared' /\ Counted'
        /\ SecondStatement'
    BY <1>1, <1>4 DEF StoresInv, StoreTypes, Statement, Unshared, Alone, Resting, Counted,
                      SecondStatement
  <2>2. DeletedQuiet' /\ SavedIsThere' /\ DeletedStaysAway' /\ RedisEvicts' /\ OfRedis'
    BY <1>1, <1>4 DEF StoresInv, DeletedQuiet, SavesUnderWay, SavedIsThere, DeletedStaysAway,
                      RedisEvicts, OfRedis
  <2> QED BY <2>1, <2>2 DEF StoresInv, RedisInv
<1>5. ASSUME NEW t \in Clients, Connection(t)  PROVE RedisInv'
  BY <1>4, <1>5 DEF Connection
<1>6. ASSUME NEW t \in Clients, CommandFails(t)  PROVE RedisInv'
  BY <1>6, RedisEnds DEF CommandFails
<1>7. ASSUME NEW t \in Clients, SetEx(t)  PROVE RedisInv'
  BY <1>7, RedisEnds DEF SetEx, Commanded
<1>8. ASSUME NEW t \in Clients, Persist(t)  PROVE RedisInv'
  <2>1. ~Mixes(t)
    BY <1>8 DEF Persist, Mixes
  <2>2. mixed' = (mixed \/ Mixes(t))
    BY <2>1, <1>1, <1>8 DEF Persist, StoresInv, StoreTypes
  <2> QED BY <2>2, <1>8, RedisEnds DEF Persist
<1>9. ASSUME NEW t \in Clients, Del(t)  PROVE RedisInv'
  <2>1. ~Mixes(t) /\ Commanded(t) = <<>>
    BY <1>9 DEF Del, Mixes, Commanded
  <2>2. mixed' = (mixed \/ Mixes(t))
    BY <2>1, <1>1, <1>9 DEF Del, StoresInv, StoreTypes
  <2> QED BY <2>1, <2>2, <1>9, RedisEnds DEF Del
<1>10. ASSUME NEW t \in Clients, Fault(t)  PROVE RedisInv'
  <2>1. task[t].at \in {"set", "persist", "del"}
    BY <1>1, <1>10 DEF Fault, OfRedis, Resting
  <2>2. row' = row
    BY <2>1, <1>10 DEF Fault, Executed
  <2> QED BY <2>1, <2>2, <1>10, RedisEnds DEF Fault
<1>11. CASE UNCHANGED storeVars
  BY <1>4, <1>11 DEF storeVars
<1> QED BY <1>2, <1>3, <1>4, <1>5, <1>6, <1>7, <1>8, <1>9, <1>10, <1>11, SetPlainKept, EvictKept DEF RedisNext

-----------------------------------------------------------------------------
LEMMA StoresInitial == StoreInit => JdbcInv /\ RedisInv
<1> SUFFICES ASSUME StoreInit  PROVE JdbcInv /\ RedisInv
  OBVIOUS
<1> USE DEF StoreInit
<1>1. StoreTypes
  BY DEF StoreTypes, Operation, Statements
<1>2. (\A t \in Clients : Statement(task[t])) /\ Unshared /\ Counted /\ SecondStatement /\ DeletedQuiet
  BY DEF Statement, Unshared, Alone, Resting, Counted, SecondStatement, DeletedQuiet, SavesUnderWay
<1>3. SavedIsThere /\ DeletedStaysAway /\ RedisEvicts /\ OfJdbc /\ OfRedis
  BY DEF SavedIsThere, DeletedStaysAway, RedisEvicts, OfJdbc, OfRedis
<1> QED BY <1>1, <1>2, <1>3 DEF JdbcInv, RedisInv, StoresInv

(* JdbcSessionStore keeps what a save that ran alone saved, reports a       *)
(* duplicate key only to a save that shared its time with another call, and *)
(* brings a deleted session back only through a save that was under way.    *)
THEOREM DatabaseKeeps == JdbcSpec => []RemoteStoresKeep
<1>1. StoreInit => JdbcInv
  BY StoresInitial
<1>2. JdbcInv /\ [JdbcNext]_storeVars => JdbcInv'
  BY JdbcStep
<1>3. JdbcInv => RemoteStoresKeep
  BY DEF JdbcInv, StoresInv, RemoteStoresKeep
<1> QED BY <1>1, <1>2, <1>3, PTL DEF JdbcSpec

(* RedisSessionStore does the same, and Redis evicts every session whose    *)
(* interval has a whole second, but for the one whose SETEX fell between    *)
(* the SET and the PERSIST of another save.                                 *)
THEOREM RedisKeeps == RedisSpec => []RemoteStoresKeep
<1>1. StoreInit => RedisInv
  BY StoresInitial
<1>2. RedisInv /\ [RedisNext]_storeVars => RedisInv'
  BY RedisStep
<1>3. RedisInv => RemoteStoresKeep
  BY DEF RedisInv, StoresInv, RemoteStoresKeep
<1> QED BY <1>1, <1>2, <1>3, PTL DEF RedisSpec

-----------------------------------------------------------------------------
(* Static files: their inductive invariant. *)

FileTypes ==
  /\ second \in Nat
  /\ versions \in Seq([len : Nat, mtime : Nat, gone : BOOLEAN]) /\ Len(versions) >= 1
  /\ \A i, j \in DOMAIN versions : i <= j => versions[i].mtime <= versions[j].mtime
  /\ \A i \in DOMAIN versions : versions[i].mtime <= second

\* The copy's tag and date are those of a version no younger than its body: the
\* metadata is read before the file.
CopyFacts ==
  copy.body # 0 =>
    /\ copy.body \in DOMAIN versions
    /\ \E k \in DOMAIN versions : /\ k <= copy.body /\ ~versions[k].gone
                                  /\ copy.tag = Tag(versions[k]) /\ copy.date = versions[k].mtime

ServingFacts ==
  /\ serving.at \in {"idle", "stat", "read"}
  /\ serving.at = "stat" =>
       /\ serving.tag = copy.tag /\ serving.date = copy.date
       /\ serving.conditions \in Conditional
       /\ FromCopy(serving.conditions) => copy.body # 0
       /\ serving.range \in Ranges
  /\ serving.at = "read" =>
       /\ serving.meta \in DOMAIN versions /\ ~versions[serving.meta].gone
       /\ serving.range \in Ranges

FilesInv ==
  /\ FileTypes /\ CopyFacts /\ ServingFacts
  /\ CopyGood /\ PanicsOnlyWhenShrunk

(* One range of a header is the bytes it names, or nothing when there are   *)
(* none.                                                                   *)
NamedBytes(s, len) ==
  {b \in 0..len - 1 : IF s.first = -1 THEN b >= len - s.last
                      ELSE b >= s.first /\ (s.last = -1 \/ b <= s.last)}

LEMMA SpecRangeExact ==
  ASSUME NEW s \in ByteRanges, NEW len \in Nat, len > 0, ~(s.first = -1 /\ s.last = -1)
  PROVE  \/ SpecRange(s, len) = <<>> /\ NamedBytes(s, len) = {}
         \/ \E f, l \in Nat : /\ f <= l /\ l < len /\ SpecRange(s, len) = <<[first |-> f, last |-> l]>>
                              /\ f..l = NamedBytes(s, len)
<1>1. /\ s.first \in Nat \cup {-1} /\ s.last \in Nat \cup {-1}
      /\ s = [first |-> s.first, last |-> s.last]
  BY DEF ByteRanges
<1>2. CASE s.first = -1
  <2> DEFINE f == len - (IF s.last < len THEN s.last ELSE len)
  <2>1. SpecRange(s, len) = IF s.last = 0 THEN <<>> ELSE <<[first |-> f, last |-> len - 1]>>
    BY <1>2 DEF SpecRange
  <2>2. s.last \in Nat
    BY <1>1, <1>2
  <2>3. CASE s.last = 0
    BY <1>2, <2>1, <2>3 DEF NamedBytes
  <2>4. CASE s.last # 0
    <3>1. f \in Nat /\ len - 1 \in Nat /\ f <= len - 1 /\ len - 1 < len
      BY <2>2, <2>4
    <3>2. f..(len - 1) = NamedBytes(s, len)
      BY <1>2, <2>2 DEF NamedBytes
    <3> QED BY <2>1, <2>4, <3>1, <3>2
  <2> QED BY <2>3, <2>4
<1>3. CASE s.first # -1 /\ s.last = -1
  <2>1. SpecRange(s, len) = IF s.first >= len THEN <<>> ELSE <<[first |-> s.first, last |-> len - 1]>>
    BY <1>3 DEF SpecRange
  <2>2. s.first \in Nat
    BY <1>1, <1>3
  <2>3. CASE s.first >= len
    BY <1>3, <2>1, <2>2, <2>3 DEF NamedBytes
  <2>4. CASE s.first < len
    <3>1. len - 1 \in Nat /\ s.first <= len - 1 /\ len - 1 < len /\ ~(s.first >= len)
      BY <2>2, <2>4
    <3>2. s.first..(len - 1) = NamedBytes(s, len)
      BY <1>3, <2>2 DEF NamedBytes
    <3> QED BY <2>1, <2>2, <3>1, <3>2
  <2> QED BY <2>2, <2>3, <2>4
<1>4. CASE s.first # -1 /\ s.last # -1
  <2> DEFINE l == IF s.last < len - 1 THEN s.last ELSE len - 1
  <2>1. SpecRange(s, len) = IF s.first > s.last \/ s.first >= len THEN <<>>
                            ELSE <<[first |-> s.first, last |-> l]>>
    BY <1>4 DEF SpecRange
  <2>2. s.first \in Nat /\ s.last \in Nat
    BY <1>1, <1>4
  <2>3. CASE s.first > s.last \/ s.first >= len
    BY <1>4, <2>1, <2>2, <2>3 DEF NamedBytes
  <2>4. CASE ~(s.first > s.last \/ s.first >= len)
    <3>1. l \in Nat /\ s.first <= l /\ l < len
      BY <2>2, <2>4
    <3>2. s.first..l = NamedBytes(s, len)
      BY <1>4, <2>2 DEF NamedBytes
    <3> QED BY <2>1, <2>2, <2>4, <3>1, <3>2
  <2> QED BY <2>3, <2>4
<1> QED BY <1>2, <1>3, <1>4

LEMMA ToSetOfOne == ToSet(<<>>) = {} /\ \A x : ToSet(<<x>>) = {x}
BY DEF ToSet

(* The ranges of a header are those of its parts.                          *)
LEMMA ParseRangeParts ==
  ASSUME NEW specs \in Seq(ByteRanges), NEW len \in Nat, ParseRange(specs, len).kind # "none"
  PROVE  /\ specs # <<>>
         /\ len = 0 => ParseRange(specs, len).ranges = {}
         /\ len > 0 =>
              /\ \A i \in DOMAIN specs : specs[i] \in ByteRanges /\ ~(specs[i].first = -1 /\ specs[i].last = -1)
              /\ ParseRange(specs, len).ranges =
                   UNION {ToSet(SpecRange(specs[i], len)) : i \in DOMAIN specs}
<1>1. specs # <<>>
  BY DEF ParseRange
<1>2. ASSUME len = 0  PROVE ParseRange(specs, len).ranges = {}
  BY <1>1, <1>2 DEF ParseRange
<1>3. ASSUME len > 0
      PROVE  ~\E i \in DOMAIN specs : specs[i].first = -1 /\ specs[i].last = -1
  BY <1>1, <1>3 DEF ParseRange
<1>4. ASSUME len > 0
      PROVE  ParseRange(specs, len).ranges = UNION {ToSet(SpecRange(specs[i], len)) : i \in DOMAIN specs}
  BY <1>1, <1>3, <1>4 DEF ParseRange
<1>5. \A i \in DOMAIN specs : specs[i] \in ByteRanges
  OBVIOUS
<1> QED BY <1>1, <1>2, <1>3, <1>4, <1>5

(* parse_range sends only bytes of the file.                               *)
LEMMA RangesInFile ==
  ASSUME NEW specs \in Seq(ByteRanges), NEW len \in Nat, NEW r \in ParseRange(specs, len).ranges
  PROVE  r.first \in Nat /\ r.last \in Nat /\ r.first <= r.last /\ r.last < len
<1>1. ParseRange(specs, len).kind # "none"
  BY DEF ParseRange
<1>2. len > 0
  BY <1>1, ParseRangeParts
<1>3. PICK i \in DOMAIN specs : r \in ToSet(SpecRange(specs[i], len))
  BY <1>1, <1>2, ParseRangeParts
<1>4. specs[i] \in ByteRanges /\ ~(specs[i].first = -1 /\ specs[i].last = -1)
  BY <1>1, <1>2, ParseRangeParts
<1>5. SpecRange(specs[i], len) # <<>>
  BY <1>3, ToSetOfOne
<1>6. PICK f \in Nat, l \in Nat :
        f <= l /\ l < len /\ SpecRange(specs[i], len) = <<[first |-> f, last |-> l]>>
  BY <1>2, <1>4, <1>5, SpecRangeExact
<1>7. r = [first |-> f, last |-> l]
  BY <1>3, <1>6, ToSetOfOne
<1> QED BY <1>6, <1>7

(* For every Range header and every length: what the default servlet sends  *)
(* back lies in the file and is together exactly the bytes that the header  *)
(* names.                                                                  *)
THEOREM RangesAreExact ==
  ASSUME NEW specs \in Seq(ByteRanges), NEW len \in Nat
  PROVE  RangesExact(specs, len)
<1> DEFINE ranges == ParseRange(specs, len).ranges
           Bytes(r) == r.first..r.last
<1> SUFFICES ASSUME ParseRange(specs, len).kind # "none"
             PROVE  /\ \A r \in ranges : Bytes(r) # {} /\ Bytes(r) \subseteq 0..len - 1
                    /\ UNION {Bytes(r) : r \in ranges} = UNION {NamedBytes(s, len) : s \in ToSet(specs)}
  BY DEF RangesExact, NamedBytes
<1>1. \A r \in ranges : Bytes(r) # {} /\ Bytes(r) \subseteq 0..len - 1
  <2> SUFFICES ASSUME NEW r \in ranges  PROVE Bytes(r) # {} /\ Bytes(r) \subseteq 0..len - 1
    OBVIOUS
  <2>1. r.first \in Nat /\ r.last \in Nat /\ r.first <= r.last /\ r.last < len
    BY RangesInFile
  <2>2. r.first \in Bytes(r)
    BY <2>1
  <2> QED BY <2>1, <2>2
<1>2. ToSet(specs) = {specs[i] : i \in DOMAIN specs}
  BY DEF ToSet
<1>3. CASE len = 0
  <2>1. ranges = {} /\ \A s : NamedBytes(s, len) = {}
    BY <1>3, ParseRangeParts DEF NamedBytes
  <2> QED BY <1>1, <2>1
<1>4. CASE len > 0
  <2>1. ranges = UNION {ToSet(SpecRange(specs[i], len)) : i \in DOMAIN specs}
    BY <1>4, ParseRangeParts
  <2>2. \A i \in DOMAIN specs : UNION {Bytes(r) : r \in ToSet(SpecRange(specs[i], len))} = NamedBytes(specs[i], len)
    <3> SUFFICES ASSUME NEW i \in DOMAIN specs
                 PROVE  UNION {Bytes(r) : r \in ToSet(SpecRange(specs[i], len))} = NamedBytes(specs[i], len)
      OBVIOUS
    <3>1. specs[i] \in ByteRanges /\ ~(specs[i].first = -1 /\ specs[i].last = -1)
      BY <1>4, ParseRangeParts
    <3>2. CASE SpecRange(specs[i], len) = <<>> /\ NamedBytes(specs[i], len) = {}
      BY <3>2, ToSetOfOne
    <3>3. ASSUME NEW f \in Nat, NEW l \in Nat, SpecRange(specs[i], len) = <<[first |-> f, last |-> l]>>,
                 f..l = NamedBytes(specs[i], len)
          PROVE  UNION {Bytes(r) : r \in ToSet(SpecRange(specs[i], len))} = NamedBytes(specs[i], len)
      <4>1. ToSet(SpecRange(specs[i], len)) = {[first |-> f, last |-> l]}
        BY <3>3, ToSetOfOne
      <4> QED BY <3>3, <4>1
    <3> QED BY <3>1, <3>2, <3>3, <1>4, SpecRangeExact
  <2> HIDE DEF ranges, Bytes
  <2>3. UNION {Bytes(r) : r \in ranges} = UNION {NamedBytes(s, len) : s \in ToSet(specs)}
    BY <2>1, <2>2, <1>2
  <2> QED BY <1>1, <2>3
<1> QED BY <1>3, <1>4

-----------------------------------------------------------------------------
LEMMA FilesInitial == FileInit => FilesInv
<1> SUFFICES ASSUME FileInit  PROVE FilesInv
  OBVIOUS
<1>1. PICK n \in Lengths : versions = <<[len |-> n, mtime |-> 1, gone |-> FALSE]>>
  BY DEF FileInit
<1>2. FileTypes
  BY <1>1, FilesAssumption DEF FileInit, FileTypes
<1> QED BY <1>2 DEF FileInit, FilesInv, CopyFacts, ServingFacts, CopyGood, PanicsOnlyWhenShrunk, NoCopy

LEMMA VersionsTyped ==
  ASSUME FileTypes
  PROVE  /\ DOMAIN versions = 1..Len(versions) /\ Len(versions) \in Nat /\ Len(versions) >= 1
         /\ \A i \in DOMAIN versions : versions[i].len \in Nat /\ versions[i].mtime \in Nat
<1>1. versions \in Seq([len : Nat, mtime : Nat, gone : BOOLEAN]) /\ Len(versions) >= 1
  BY DEF FileTypes
<1> DEFINE Version == [len : Nat, mtime : Nat, gone : BOOLEAN]
<1>2. \A v \in Version : v.len \in Nat /\ v.mtime \in Nat
  OBVIOUS
<1> HIDE DEF Version
<1>3. versions \in Seq(Version) /\ Len(versions) >= 1
  BY <1>1 DEF Version
<1>4. DOMAIN versions = 1..Len(versions) /\ Len(versions) \in Nat
      /\ \A i \in 1..Len(versions) : versions[i] \in Version
  BY <1>3
<1> QED BY <1>2, <1>3, <1>4

\* A new version does not make what was said of the earlier ones wrong.
LEMMA RewriteKept ==
  ASSUME FilesInv, Rewrite
  PROVE  FilesInv'
<1>1. PICK n \in Lengths \cup {0}, lost \in BOOLEAN :
        versions' = Append(versions, [len |-> n, mtime |-> second, gone |-> lost])
  BY DEF Rewrite
<1>2. UNCHANGED <<second, serving, copy, answer>>
  BY DEF Rewrite
<1> DEFINE new == [len |-> n, mtime |-> second, gone |-> lost]
<1>3. FileTypes /\ n \in Nat /\ new \in [len : Nat, mtime : Nat, gone : BOOLEAN] /\ new.mtime = second
  BY FilesAssumption DEF FilesInv, FileTypes
<1> HIDE DEF new
<1>4. /\ DOMAIN versions = 1..Len(versions) /\ Len(versions) \in Nat
      /\ versions' \in Seq([len : Nat, mtime : Nat, gone : BOOLEAN]) /\ Len(versions') = Len(versions) + 1
      /\ DOMAIN versions' = 1..(Len(versions) + 1)
      /\ \A i \in 1..Len(versions) : versions'[i] = versions[i]
      /\ versions'[Len(versions) + 1] = new
  BY <1>1, <1>3 DEF FileTypes, new
<1>5. \A i \in DOMAIN versions' : versions'[i].mtime <= second
  <2>1. \A i \in 1..Len(versions) : versions[i].mtime <= second
    BY <1>3, <1>4 DEF FileTypes
  <2>2. second \in Nat /\ second <= second
    BY <1>3 DEF FileTypes
  <2>3. versions'[Len(versions) + 1].mtime <= second
    BY <2>2, <1>3, <1>4
  <2>4. \A i \in 1..(Len(versions) + 1) : i \in 1..Len(versions) \/ i = Len(versions) + 1
    BY <1>4
  <2>5. ASSUME NEW i \in 1..(Len(versions) + 1)
        PROVE  versions'[i].mtime <= second
    <3>1. CASE i \in 1..Len(versions)
      <4>1. versions'[i] = versions[i]
        BY <3>1, <1>4
      <4> QED BY <2>1, <3>1, <4>1
    <3>2. CASE i = Len(versions) + 1
      BY <2>3, <3>2
    <3> QED BY <2>4, <3>1, <3>2
  <2> QED BY <2>5, <1>4
<1>6. \A i, j \in DOMAIN versions' : i <= j => versions'[i].mtime <= versions'[j].mtime
  <2> SUFFICES ASSUME NEW i \in DOMAIN versions', NEW j \in DOMAIN versions', i <= j
               PROVE  versions'[i].mtime <= versions'[j].mtime
    OBVIOUS
  <2>1. CASE j = Len(versions) + 1
    BY <2>1, <1>3, <1>4, <1>5
  <2>2. CASE j # Len(versions) + 1
    <3>1. i \in 1..Len(versions) /\ j \in 1..Len(versions)
      BY <2>2, <1>4
    <3> QED BY <3>1, <1>3, <1>4 DEF FileTypes
  <2> QED BY <2>1, <2>2
<1>7. FileTypes'
  BY <1>2, <1>3, <1>4, <1>5, <1>6 DEF FileTypes
<1>8. CopyFacts'
  <2> SUFFICES ASSUME copy.body # 0
               PROVE  /\ copy.body \in DOMAIN versions'
                      /\ \E k \in DOMAIN versions' : /\ k <= copy.body /\ ~versions'[k].gone
                                  /\ copy.tag = Tag(versions'[k]) /\ copy.date = versions'[k].mtime
    BY <1>2 DEF CopyFacts, Tag
  <2>1. PICK k \in DOMAIN versions : /\ k <= copy.body /\ ~versions[k].gone
                                     /\ copy.tag = Tag(versions[k]) /\ copy.date = versions[k].mtime
    BY DEF FilesInv, CopyFacts
  <2>2. copy.body \in 1..Len(versions) /\ k \in 1..Len(versions)
    BY <1>4 DEF FilesInv, CopyFacts
  <2>3. k \in DOMAIN versions' /\ copy.body \in DOMAIN versions' /\ versions'[k] = versions[k]
    BY <2>2, <1>4
  <2> QED BY <2>1, <2>3
<1>9. ServingFacts'
  BY <1>2, <1>4 DEF FilesInv, ServingFacts
<1>10. CopyGood' /\ PanicsOnlyWhenShrunk'
  <2>1. DOMAIN versions \subseteq DOMAIN versions' /\ \A i \in DOMAIN versions : versions'[i] = versions[i]
    BY <1>4
  <2> QED BY <2>1, <1>2 DEF FilesInv, CopyGood, PanicsOnlyWhenShrunk
<1> QED BY <1>7, <1>8, <1>9, <1>10 DEF FilesInv

\* An answer that the copy is good.
LEMMA StatKept ==
  ASSUME FilesInv, Stat
  PROVE  FilesInv'
<1> DEFINE n == Len(versions)
           verdict == Conditions(serving, Current)
<1>1. /\ FileTypes /\ n \in DOMAIN versions /\ DOMAIN versions = 1..n /\ n \in Nat
      /\ Current = versions[n] /\ serving.at = "stat"
      /\ serving.tag = copy.tag /\ serving.date = copy.date /\ serving.range \in Ranges
      /\ serving.conditions \in Conditional
      /\ (FromCopy(serving.conditions) => copy.body # 0)
      /\ UNCHANGED <<second, versions, copy>>
  BY DEF FilesInv, FileTypes, ServingFacts, Stat, Current
<1>2. FileTypes' /\ CopyFacts'
  BY <1>1 DEF FilesInv, FileTypes, CopyFacts, Tag
<1>3. CASE verdict = 200
  <2>1. serving' = [at |-> "read", range |-> serving.range, meta |-> n] /\ answer' = answer
    BY <1>3 DEF Stat
  <2>2. ~versions[n].gone
    BY <1>1, <1>3 DEF Conditions
  <2>3. ServingFacts'
    BY <1>1, <2>1, <2>2 DEF ServingFacts
  <2>4. CopyGood' /\ PanicsOnlyWhenShrunk'
    BY <1>1, <2>1 DEF FilesInv, CopyGood, PanicsOnlyWhenShrunk
  <2> QED BY <1>2, <2>3, <2>4 DEF FilesInv
<1>4. CASE verdict # 200
  <2>1. serving' = Idle
        /\ answer' = IF verdict = 304
                     THEN [status |-> 304, at |-> n, by |-> DecidedBy(serving.conditions)]
                     ELSE [status |-> verdict]
    BY <1>4 DEF Stat
  <2>2. verdict \in {404, 412, 304, 200}
    BY DEF Conditions
  <2>3. answer'.status = verdict
    BY <2>1
  <2>4. ServingFacts' /\ PanicsOnlyWhenShrunk'
    BY <2>1, <2>2, <2>3 DEF ServingFacts, Idle, PanicsOnlyWhenShrunk
  <2>5. CASE verdict = 304 /\ DecidedBy(serving.conditions) # "any"
    <3> DEFINE byTag == serving.conditions.none = "own"
    <3>1. /\ answer'.at = n /\ ~versions[n].gone /\ copy.body # 0
          /\ answer'.by = "own" => byTag
          /\ byTag => copy.tag = Tag(versions[n])
          /\ ~byTag => versions[n].mtime <= copy.date
      BY <2>5, <2>1, <1>1 DEF Conditions, NotModified, DecidedBy, FromCopy, Conditional
    <3>2. PICK k \in DOMAIN versions : /\ k <= copy.body /\ ~versions[k].gone
                                       /\ copy.tag = Tag(versions[k]) /\ copy.date = versions[k].mtime
      BY <3>1 DEF FilesInv, CopyFacts
    <3>3. copy.body \in 1..n /\ k \in 1..n
      BY <1>1, <3>1 DEF FilesInv, CopyFacts
    <3>4. versions[k].mtime = versions[n].mtime /\ (byTag => versions[k].len = versions[n].len)
      <4>1. CASE byTag
        BY <4>1, <3>1, <3>2 DEF Tag
      <4>2. CASE ~byTag
        <5>1. versions[n].mtime \in Nat /\ versions[k].mtime \in Nat
          BY <1>1, <3>3, VersionsTyped
        <5>2. k <= n /\ versions[k].mtime <= versions[n].mtime
          BY <1>1, <3>3 DEF FileTypes
        <5> QED BY <4>2, <5>1, <5>2, <3>1, <3>2
      <4> QED BY <4>1, <4>2
    <3>5. CASE k = n
      <4>1. copy'.body = answer'.at
        BY <3>5, <3>1, <3>2, <3>3, <1>1
      <4> QED BY <4>1, <1>2, <2>4 DEF FilesInv, CopyGood
    <3>6. CASE k # n
      <4>1. /\ k \in DOMAIN versions' /\ n \in DOMAIN versions' /\ versions'[k].mtime = versions'[n].mtime
            /\ ~versions'[k].gone /\ ~versions'[n].gone
            /\ answer'.by = "own" => versions'[k].len = versions'[n].len
        BY <3>1, <3>2, <3>4, <1>1
      <4>2. CopyGood'
        BY <4>1, <3>6 DEF CopyGood
      <4> QED BY <4>2, <1>2, <2>4 DEF FilesInv
    <3> QED BY <3>5, <3>6
  <2>6. CASE ~(verdict = 304 /\ DecidedBy(serving.conditions) # "any")
    <3>1. ~(answer'.status = 304 /\ answer'.by # "any")
      BY <2>1, <2>3, <2>6
    <3>2. CopyGood'
      BY <3>1 DEF CopyGood
    <3> QED BY <3>2, <1>2, <2>4 DEF FilesInv
  <2> QED BY <2>5, <2>6
<1> QED BY <1>3, <1>4

LEMMA ReadKept ==
  ASSUME FilesInv, Read
  PROVE  FilesInv'
<1> DEFINE meta == versions[serving.meta]
           parsed == ParseRange(serving.range, meta.len)
           whole == ~Current.gone /\ parsed.kind = "none"
           short == \E r \in parsed.ranges : r.last >= Current.len
<1>1. /\ FileTypes /\ DOMAIN versions = 1..Len(versions) /\ Len(versions) \in Nat /\ Len(versions) >= 1
      /\ serving.meta \in 1..Len(versions) /\ ~meta.gone /\ serving.range \in Seq(ByteRanges)
      /\ serving' = Idle /\ UNCHANGED <<second, versions>>
  BY FilesAssumption DEF FilesInv, FileTypes, ServingFacts, Read
<1>2. /\ answer' = CASE Current.gone -> [status |-> 404]
                     [] whole -> [status |-> 200]
                     [] ~Current.gone /\ parsed.kind = "unsatisfiable" -> [status |-> 416]
                     [] ~Current.gone /\ parsed.kind = "ranges" /\ ~short -> [status |-> 206]
                     [] OTHER -> [status |-> -1, claimed |-> meta.len, had |-> Current.len]
      /\ copy' = IF whole
                 THEN [tag |-> Tag(meta), date |-> meta.mtime, body |-> Len(versions)] ELSE copy
  BY DEF Read
<1>3. meta.len \in Nat /\ Current.len \in Nat
  BY <1>1, VersionsTyped DEF Current
<1>4. \A r \in parsed.ranges : r.last \in Nat /\ r.last < meta.len
  BY <1>1, <1>3, RangesInFile
<1>5. parsed.kind \in {"none", "unsatisfiable", "ranges"}
  BY DEF ParseRange
<1> HIDE DEF parsed
<1>6. FileTypes' /\ ServingFacts'
  BY <1>1 DEF FileTypes, ServingFacts, Idle
<1>7. CopyFacts'
  <2>1. CASE whole
    <3>1. copy'.tag = Tag(meta) /\ copy'.date = meta.mtime /\ copy'.body = Len(versions)
      BY <1>2, <2>1
    <3> QED BY <3>1, <1>1 DEF CopyFacts, Tag
  <2>2. CASE ~whole
    BY <2>2, <1>1, <1>2 DEF FilesInv, CopyFacts, Tag
  <2> QED BY <2>1, <2>2
<1>8. answer'.status \in {404, 200, 416, 206, -1}
      /\ (answer'.status = -1 => short /\ answer'.claimed = meta.len /\ answer'.had = Current.len)
  BY <1>2, <1>5
<1>9. CopyGood'
  BY <1>8 DEF CopyGood
<1>10. PanicsOnlyWhenShrunk'
  <2>1. short => Current.len < meta.len
    BY <1>3, <1>4
  <2> QED BY <2>1, <1>8 DEF PanicsOnlyWhenShrunk
<1> QED BY <1>6, <1>7, <1>9, <1>10 DEF FilesInv

LEMMA FilesInductive ==
  ASSUME FilesInv, [FileNext]_fileVars
  PROVE  FilesInv'
<1>1. CASE SecondPasses
  <2>1. second' = second + 1 /\ UNCHANGED <<versions, serving, copy, answer>>
    BY <1>1 DEF SecondPasses
  <2>2. FileTypes /\ second \in Nat /\ \A i \in DOMAIN versions : versions[i].mtime \in Nat
    BY VersionsTyped DEF FilesInv, FileTypes
  <2>3. FileTypes'
    BY <2>1, <2>2 DEF FileTypes
  <2> QED BY <2>1, <2>3 DEF FilesInv, CopyFacts, ServingFacts, CopyGood, PanicsOnlyWhenShrunk, Tag
<1>2. ASSUME NEW c \in Conditional, NEW r \in Ranges, Ask(c, r)  PROVE FilesInv'
  <2>1. /\ serving' = [at |-> "stat", conditions |-> c, range |-> r, tag |-> copy.tag, date |-> copy.date]
        /\ (FromCopy(c) => copy.body # 0) /\ UNCHANGED <<second, versions, copy, answer>>
    BY <1>2 DEF Ask
  <2>2. ServingFacts'
    BY <2>1 DEF ServingFacts
  <2> QED BY <2>1, <2>2 DEF FilesInv, FileTypes, CopyFacts, CopyGood, PanicsOnlyWhenShrunk, Tag
<1>3. CASE UNCHANGED fileVars
  BY <1>3 DEF fileVars, FilesInv, FileTypes, CopyFacts, ServingFacts, CopyGood, PanicsOnlyWhenShrunk, Tag
<1> QED BY <1>1, <1>2, <1>3, RewriteKept, StatKept, ReadKept DEF FileNext

(* However the file is rewritten while serve_file reads its metadata and    *)
(* then the file: a client is told that its copy is good only if it has the *)
(* version the server looked at, or one that tag and date cannot tell from  *)
(* it; and cutting a range out of the file fails only when it shrank.       *)
THEOREM CopiesAreGood == FileSpec => []CopiesGood
<1>1. FileInit => FilesInv
  BY FilesInitial
<1>2. FilesInv /\ [FileNext]_fileVars => FilesInv'
  BY FilesInductive
<1>3. FilesInv => CopiesGood
  BY DEF FilesInv, CopiesGood
<1> QED BY <1>1, <1>2, <1>3, PTL DEF FileSpec

-----------------------------------------------------------------------------
(* The background thread: its inductive invariant. *)

SharesPath(c) == \E d \in Contexts \ {c} : d.path = c.path

\* What the tracker remembers under a path that one context has is what that
\* context's processor read last, whoever was deployed and undeployed since.
OwnSeen == \A c \in Contexts : ~SharesPath(c) => seen[c.path] = own[c]

BackgroundInv ==
  /\ own \in [Contexts -> Int] /\ mtime \in [Contexts -> Nat]
  /\ seen \in [{c.path : c \in Contexts} -> Int]
  /\ wrong \subseteq Contexts
  /\ OwnSeen /\ ReportsOwnChanges

LEMMA BackgroundInitial == BgInit => BackgroundInv
<1> SUFFICES ASSUME BgInit  PROVE BackgroundInv
  OBVIOUS
<1>1. \A c \in Contexts : c.path \in {b.path : b \in Contexts}
  OBVIOUS
<1>2. own \in [Contexts -> Int] /\ seen \in [{c.path : c \in Contexts} -> Int] /\ wrong = {}
  BY DEF BgInit
<1>3. mtime \in [Contexts -> Nat]
  BY DEF BgInit
<1>4. OwnSeen
  BY <1>1 DEF BgInit, OwnSeen
<1> QED BY <1>2, <1>3, <1>4 DEF BackgroundInv, ReportsOwnChanges

(* What a processor remembers is its own context's time, and no other path *)
(* is touched.                                                             *)
LEMMA ProcessKept ==
  ASSUME BackgroundInv, NEW c \in Contexts, Process(c)
  PROVE  BackgroundInv'
<1> DEFINE paths == {b.path : b \in Contexts}
           time == mtime[c]
<1>1. c.path \in paths /\ time \in Int /\ own[c] \in Int
  BY DEF BackgroundInv
<1>2. mtime' = mtime
  BY DEF Process
<1>3. CASE time = 0
  BY <1>2, <1>3 DEF Process, BackgroundInv, OwnSeen, ReportsOwnChanges, SharesPath
<1>4. CASE time # 0
  <2>1. /\ seen' = [seen EXCEPT ![c.path] = time] /\ own' = [own EXCEPT ![c] = time]
        /\ wrong' = IF WouldReload(c.path, time) # (own[c] \notin {0, time})
                    THEN wrong \cup {c} ELSE wrong
    BY <1>4 DEF Process, TrackerUpdate
  <2>2. /\ seen' \in [paths -> Int] /\ own' \in [Contexts -> Int]
        /\ \A p \in paths : seen'[p] = IF p = c.path THEN time ELSE seen[p]
        /\ \A d \in Contexts : own'[d] = IF d = c THEN time ELSE own[d]
    BY <1>1, <2>1 DEF BackgroundInv
  <2>3. OwnSeen'
    <3> SUFFICES ASSUME NEW d \in Contexts, ~SharesPath(d)
                 PROVE  seen'[d.path] = own'[d]
      BY DEF OwnSeen, SharesPath
    <3>1. CASE d = c
      BY <1>1, <2>2, <3>1
    <3>2. CASE d # c
      <4>1. d.path # c.path /\ d.path \in paths
        BY <3>2 DEF SharesPath
      <4> QED BY <2>2, <3>2, <4>1 DEF BackgroundInv, OwnSeen
    <3> QED BY <3>1, <3>2
  <2>4. ~SharesPath(c) => wrong' = wrong
    <3> SUFFICES ASSUME ~SharesPath(c)  PROVE wrong' = wrong
      OBVIOUS
    <3>1. seen[c.path] = own[c]
      BY DEF BackgroundInv, OwnSeen
    <3> QED BY <2>1, <3>1 DEF WouldReload
  <2>5. wrong' \subseteq Contexts /\ ReportsOwnChanges'
    BY <2>1, <2>4 DEF BackgroundInv, ReportsOwnChanges, SharesPath
  <2> QED BY <1>2, <2>2, <2>3, <2>5 DEF BackgroundInv
<1> QED BY <1>3, <1>4

LEMMA BackgroundSteps == BackgroundInv /\ [BgNext]_bgVars => BackgroundInv'
<1> SUFFICES ASSUME BackgroundInv, [BgNext]_bgVars  PROVE BackgroundInv'
  OBVIOUS
<1>1. ASSUME UNCHANGED <<mtime, seen, own, wrong>>  PROVE BackgroundInv'
  BY <1>1 DEF BackgroundInv, OwnSeen, ReportsOwnChanges, SharesPath
<1>2. ASSUME NEW c \in Contexts, Touch(c)  PROVE BackgroundInv'
  <2>1. mtime' \in [Contexts -> Nat] /\ UNCHANGED <<seen, own, wrong>>
    BY <1>2 DEF Touch, BackgroundInv
  <2> QED BY <2>1 DEF BackgroundInv, OwnSeen, ReportsOwnChanges, SharesPath
<1>3. ASSUME NEW c \in Contexts, Redeploy(c)  PROVE BackgroundInv'
  BY <1>1, <1>3 DEF Redeploy
<1>4. ASSUME NEW c \in Contexts, Process(c)  PROVE BackgroundInv'
  BY <1>4, ProcessKept
<1>5. CASE BackgroundTick \/ EndTick \/ SeeShutdown
  BY <1>1, <1>5 DEF BackgroundTick, EndTick, SeeShutdown
<1>6. ASSUME NEW what, Signal(what)  PROVE BackgroundInv'
  BY <1>1, <1>6 DEF Signal
<1>7. CASE UNCHANGED bgVars
  BY <1>1, <1>7 DEF bgVars
<1> QED BY <1>2, <1>3, <1>4, <1>5, <1>6, <1>7 DEF BgNext

(* For any hosts and contexts, through deployments and undeployments at any *)
(* time: a context is reported when and only when its WEB-INF differs from  *)
(* what the last tick saw of it, unless another host has its path too.      *)
THEOREM BackgroundReports == BgSpec => []ReportsOwnChanges
<1>1. BgInit => BackgroundInv
  BY BackgroundInitial
<1>2. BackgroundInv /\ [BgNext]_bgVars => BackgroundInv'
  BY BackgroundSteps
<1>3. BackgroundInv => ReportsOwnChanges
  BY DEF BackgroundInv
<1> QED BY <1>1, <1>2, <1>3, PTL DEF BgSpec
=============================================================================
