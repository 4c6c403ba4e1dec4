------------------------ MODULE SessionManagerProofs ------------------------
(***************************************************************************)
(* What SessionManager keeps whatever its tasks, its clock and its bounds: *)
(* the types, and Tracked under a store on which nothing races a delete.   *)
(* The code promises no more: once saves of a known session or invalidate  *)
(* run beside a delete, the deleter unindexes a session that another task  *)
(* has just stored again, and a crash loses the index of a store that does *)
(* not enumerate itself or has one torn file.  TLC finds each of these on  *)
(* two sessions; the two regimes below are the largest without them.       *)
(***************************************************************************)
EXTENDS SessionManager, FiniteSetTheorems, TLAPS

(* A session is saved once, by its create, however often it is reaped.     *)
SavedOnce(k) == Does[k] \subseteq {"create", "find", "reap"}

(* A session is saved again and again, and nothing deletes one.            *)
Undeleted(k) == Does[k] \subseteq {"create", "find", "touch", "persist"}

Steady(k) == SavedOnce(k) \/ Undeleted(k)

(* Where an actor has a session in hand. *)
Busy == {"save", "write", "insert", "found", "have", "delete", "unindex"}

Inhand == \A a \in Actor : pc[a] \in Busy => sid[a] \in Sid

-----------------------------------------------------------------------------
(* The invariant of the first regime. *)

Writing(t) == pc[t] \in {"save", "write"}

SavedOncePlaces ==
    /\ crashes = 0
    /\ pc["persister"] = "idle"
    /\ pc["reaper"] \in {"idle", "walk", "delete", "unindex"}
    /\ \A t \in Task : pc[t] \in {"idle", "save", "write", "insert", "found", "have"}

BornInOrder == born = 1..Cardinality(born)

(* Nothing knows an id before create has handed it out.                    *)
Fresh(s) ==
    /\ store[s] = Absent /\ s \notin index /\ s \notin todo["reaper"]
    /\ \A a \in Actor : sid[a] # s

Unborn == \A s \in Sid \ born : Fresh(s)

(* A session that is being saved for the first time is its creator's own.  *)
Owned(t) ==
    /\ ~Present(sid[t]) /\ sid[t] \notin index /\ sid[t] \notin todo["reaper"]
    /\ \A a \in Actor \ {t} : sid[a] # sid[t]

CreatorsOwn == \A t \in Task : Writing(t) => Owned(t)

(* A stored session is indexed or about to be.                             *)
Reached(s) == s \in index \/ \E t \in Task : pc[t] = "insert" /\ sid[t] = s
StoredReached == \A s \in Sid : Present(s) => Reached(s)

(* What the reaper unindexes is gone for good.                             *)
UnindexedGone == pc["reaper"] = "unindex" => ~Present(sid["reaper"])

SavedOnceParts ==
    /\ SavedOncePlaces /\ BornInOrder /\ Unborn
    /\ CreatorsOwn /\ StoredReached /\ UnindexedGone

SavedOnceInv == (kind # "memory" /\ SavedOnce(kind)) => SavedOnceParts

-----------------------------------------------------------------------------
(* The invariant of the second. *)

UndeletedPlaces ==
    /\ crashes = 0
    /\ pc["reaper"] = "idle"
    /\ pc["persister"] \in {"idle", "walk", "save", "write"}
    /\ \A t \in Task : pc[t] \in {"idle", "save", "write", "insert", "found", "have"}

(* Only a session with a time in it is ever saved.                         *)
SavesSomething == \A a \in Actor : pc[a] \in {"save", "write"} => data[a] >= 0

(* What the index or a walk has, or a task has been given, is stored.      *)
Kept(s) == store[s] # Absent
IndexKept ==
    /\ \A s \in index \cup todo["persister"] : Kept(s)
    /\ \A a \in Actor : pc[a] \in {"write", "insert", "found", "have"} => Kept(sid[a])

(* The persister only rewrites what is indexed.                            *)
PersistsIndexed ==
    /\ todo["persister"] \subseteq index
    /\ pc["persister"] \in {"save", "write"} => sid["persister"] \in index

(* Whatever the store has, whole or torn, is indexed or about to be.       *)
Arriving(s) == s \in index \/ \E t \in Task : pc[t] \in {"write", "insert"} /\ sid[t] = s
KeptArrives == \A s \in Sid : Kept(s) => Arriving(s)

UndeletedParts ==
    /\ UndeletedPlaces /\ SavesSomething /\ IndexKept
    /\ PersistsIndexed /\ KeptArrives

UndeletedInv == (kind # "memory" /\ Undeleted(kind)) => UndeletedParts

-----------------------------------------------------------------------------
(* The types. *)

LEMMA InitTypes == ASSUME Init PROVE TypeOK /\ Inhand
  <1>1. Inhand
    BY DEF Init, Inhand, Busy
  <1>2. crashes \in 0..(2 * MaxCrash) /\ now \in 0..MaxTime /\ since \in 0..MaxTime
    BY TimeAssumption DEF Init
  <1>3. Absent \in Cell
    BY DEF Cell, Absent
  <1> QED
    BY <1>1, <1>2, <1>3 DEF Init, TypeOK, NoSid

(* The reaper and the persister are not tasks. *)
LEMMA TaskActors ==
    /\ Task \subseteq Actor /\ "reaper" \in Actor /\ "persister" \in Actor
    /\ "reaper" \notin Task /\ "persister" \notin Task
  BY TaskAssumption DEF Actor

(* The store a server runs over is settled when it starts. *)
LEMMA KindFixed == Next => UNCHANGED kind
  BY DEF Next, Create, Find, Invalidate, Use, IndexInsert, Common, Truncate, StoreSave,
         StoreDelete, IndexRemove, Reap, ReapStep, ReapStart, EvictDone, Evict, ReapOne, PruneOne,
         Persist, PersistStart, PersistOne, WalkDone, Tick, Crash, Restart

LEMMA NoSidOutside == NoSid \notin Sid
  BY SidAssumption DEF NoSid, Sid

LEMMA RequestTypes ==
    ASSUME TypeOK, Inhand, NEW t \in Task, NEW s \in Sid,
           Create(t, s) \/ Find(t, s) \/ Invalidate(t, s)
    PROVE  TypeOK' /\ Inhand'
  <1> USE TaskActors, TimeAssumption DEF TypeOK, Inhand, Busy, Goto, Holding, Release
  <1>1. Absent \in Cell /\ now \in Cell
    BY DEF Cell, Absent
  <1>2. CASE Create(t, s)
    BY <1>1, <1>2 DEF Create
  <1>3. CASE Find(t, s)
    BY <1>1, <1>3 DEF Find
  <1>4. CASE Invalidate(t, s)
    BY <1>1, <1>4 DEF Invalidate
  <1> QED
    BY <1>2, <1>3, <1>4

LEMMA SessionTypes ==
    ASSUME TypeOK, Inhand, NEW t \in Task, Use(t) \/ IndexInsert(t)
    PROVE  TypeOK' /\ Inhand'
  <1> USE TaskActors, TimeAssumption DEF TypeOK, Inhand, Busy, Goto, Holding, Release
  <1>1. Absent \in Cell /\ now \in Cell
    BY DEF Cell, Absent
  <1>2. CASE Use(t)
    BY <1>1, <1>2 DEF Use
  <1>3. CASE IndexInsert(t)
    BY <1>1, <1>3 DEF IndexInsert
  <1> QED
    BY <1>2, <1>3

LEMMA CommonTypes ==
    ASSUME TypeOK, Inhand, NEW a \in Actor, Common(a)
    PROVE  TypeOK' /\ Inhand'
  <1> USE DEF TypeOK, Inhand, Busy, Goto, Holding, Release
  <1>1. Absent \in Cell /\ Torn \in Cell /\ data[a] \in Cell
    BY DEF Cell, Absent, Torn
  <1>2. CASE Truncate(a)
    BY <1>1, <1>2 DEF Truncate
  <1>3. CASE StoreSave(a)
    BY <1>1, <1>3 DEF StoreSave
  <1>4. CASE StoreDelete(a)
    BY <1>1, <1>4 DEF StoreDelete
  <1>5. CASE IndexRemove(a)
    BY <1>1, <1>5 DEF IndexRemove, After
  <1> QED
    BY <1>2, <1>3, <1>4, <1>5 DEF Common

LEMMA ReapTypes ==
    ASSUME TypeOK, Inhand, Reap
    PROVE  TypeOK' /\ Inhand'
  <1> USE TaskActors DEF TypeOK, Inhand, Busy, Goto, Holding, Release
  <1>1. Absent \in Cell
    BY DEF Cell, Absent
  <1>2. CASE ReapStart
    BY <1>1, <1>2 DEF ReapStart
  <1>3. CASE EvictDone
    BY <1>1, <1>3 DEF EvictDone
  <1>4. ASSUME NEW s \in Sid, Evict(s) PROVE TypeOK' /\ Inhand'
    BY <1>1, <1>4 DEF Evict
  <1>5. ASSUME NEW s \in Sid, ReapOne(s) PROVE TypeOK' /\ Inhand'
    BY <1>1, <1>5 DEF ReapOne
  <1>6. ASSUME NEW s \in Sid, PruneOne(s) PROVE TypeOK' /\ Inhand'
    BY <1>1, <1>6 DEF PruneOne
  <1> QED
    BY <1>2, <1>3, <1>4, <1>5, <1>6 DEF Reap, ReapStep

LEMMA PersistTypes ==
    ASSUME TypeOK, Inhand, Persist \/ WalkDone("reaper") \/ WalkDone("persister")
    PROVE  TypeOK' /\ Inhand'
  <1> USE TaskActors DEF TypeOK, Inhand, Busy, Goto, Holding, Release
  <1>1. CASE PersistStart
    BY <1>1 DEF PersistStart
  <1>2. ASSUME NEW s \in Sid, PersistOne(s) PROVE TypeOK' /\ Inhand'
    BY <1>2 DEF PersistOne
  <1>3. CASE WalkDone("reaper") \/ WalkDone("persister")
    BY <1>3 DEF WalkDone
  <1> QED
    BY <1>1, <1>2, <1>3 DEF Persist

(* A process that is down has not yet used up its last restart. *)
LEMMA ProcessTypes ==
    ASSUME TypeOK, Inhand, Tick \/ Crash \/ Restart
    PROVE  TypeOK' /\ Inhand'
  <1>1. CASE Tick
    BY <1>1, TimeAssumption DEF Tick, TypeOK, Inhand
  <1>2. CASE Crash
    <2>1. crashes' \in 0..(2 * MaxCrash)
      BY <1>2, TimeAssumption DEF Crash, TypeOK
    <2> QED
      BY <1>2, <2>1, TimeAssumption
         DEF Crash, TypeOK, Inhand, Busy, Cell, Absent, Torn, NoSid
  <1>3. CASE Restart
    <2>1. crashes % 2 # 0
      BY <1>3 DEF Restart, Running
    <2>2. crashes # 2 * MaxCrash
      BY <2>1, TimeAssumption
    <2>3. crashes' \in 0..(2 * MaxCrash)
      BY <1>3, <2>2, TimeAssumption DEF Restart, TypeOK
    <2> QED
      BY <1>3, <2>3 DEF Restart, TypeOK, Inhand
  <1> QED
    BY <1>1, <1>2, <1>3

LEMMA NextTypes ==
    ASSUME TypeOK, Inhand, [Next]_vars
    PROVE  TypeOK' /\ Inhand'
  <1>1. CASE Next
    <2>1. CASE \E t \in Task, s \in Sid : Create(t, s) \/ Find(t, s) \/ Invalidate(t, s)
      BY <2>1, RequestTypes
    <2>2. CASE \E t \in Task : Use(t) \/ IndexInsert(t)
      BY <2>2, SessionTypes
    <2>3. CASE \E a \in Actor : Common(a)
      BY <2>3, CommonTypes
    <2> QED
      BY <1>1, <2>1, <2>2, <2>3, ReapTypes, PersistTypes, ProcessTypes DEF Next
  <1>2. CASE UNCHANGED vars
    BY <1>2 DEF vars, TypeOK, Inhand
  <1> QED
    BY <1>1, <1>2

(* Every action leaves every variable in its type: what the reaper and a   *)
(* stored session know of the clock is never ahead of its last reading,    *)
(* and only what create has an id for is ever stored or indexed.           *)
THEOREM SessionManagerTypes == Spec => []TypeOK
  <1>1. Init => TypeOK /\ Inhand
    BY InitTypes
  <1>2. TypeOK /\ Inhand /\ [Next]_vars => (TypeOK /\ Inhand)'
    BY NextTypes
  <1> QED
    BY <1>1, <1>2, PTL DEF Spec

-----------------------------------------------------------------------------
(* The first regime: the steps of tasks.                                   *)

(* create takes an id that nothing knows yet. *)
LEMMA CreateFresh ==
    ASSUME TypeOK, BornInOrder, NEW t \in Task, NEW s \in Sid, Create(t, s)
    PROVE  s \in Sid \ born /\ BornInOrder'
  <1> DEFINE n == Cardinality(born)
  <1>1. born = 1..n /\ s = n + 1 /\ born' = born \cup {s}
    BY DEF BornInOrder, Create
  <1>2. IsFiniteSet(born)
    <2>1. IsFiniteSet(Sid)
      BY FS_Interval, SidAssumption DEF Sid
    <2> QED
      BY <2>1, FS_Subset DEF TypeOK
  <1>3. n \in Nat
    BY <1>2, FS_CardinalityType
  <1> HIDE DEF n
  <1>4. s \notin born /\ born' = 1..(n + 1)
    BY <1>1, <1>3
  <1>5. Cardinality(1..(n + 1)) = n + 1
    BY <1>3, FS_Interval
  <1> QED
    BY <1>4, <1>5 DEF BornInOrder

LEMMA OnceRequests ==
    ASSUME TypeOK, Inhand, kind # "memory", SavedOnce(kind), SavedOnceParts,
           NEW t \in Task, NEW s \in Sid,
           Create(t, s) \/ Find(t, s) \/ Invalidate(t, s)
    PROVE  SavedOnceParts'
  <1> USE TaskActors, NoSidOutside
      DEF TypeOK, Inhand, Busy, Goto, Holding, SavedOnceParts, SavedOncePlaces,
          Unborn, Fresh, CreatorsOwn, Writing, Owned, StoredReached, Reached,
          UnindexedGone, Present, Absent
  <1>1. CASE Create(t, s)
    <2>1. s \in Sid \ born /\ BornInOrder'
      BY <1>1, CreateFresh
    <2>2. Fresh(s)
      BY <2>1
    <2> QED
      BY <1>1, <2>1, <2>2 DEF Create
  <1>2. CASE Find(t, s)
    BY <1>2 DEF Find, BornInOrder
  <1>3. ~Invalidate(t, s)
    BY DEF Invalidate, On, SavedOnce
  <1> QED
    BY <1>1, <1>2, <1>3

LEMMA OnceSessions ==
    ASSUME TypeOK, Inhand, kind # "memory", SavedOnce(kind), SavedOnceParts,
           NEW t \in Task, Use(t) \/ IndexInsert(t)
    PROVE  SavedOnceParts'
  <1> USE TaskActors, NoSidOutside
      DEF TypeOK, Inhand, Busy, Goto, Holding, Release, SavedOnceParts,
          SavedOncePlaces, BornInOrder, Unborn, Fresh, CreatorsOwn, Writing, Owned,
          StoredReached, Reached, UnindexedGone, Present
  <1>1. CASE Use(t)
    BY <1>1 DEF Use, On, SavedOnce
  <1>2. CASE IndexInsert(t)
    BY <1>2 DEF IndexInsert
  <1> QED
    BY <1>1, <1>2

(* The steps that tasks and the reaper share. *)
LEMMA OnceCommon ==
    ASSUME TypeOK, Inhand, kind # "memory", SavedOnce(kind), SavedOnceParts,
           NEW a \in Actor, Common(a)
    PROVE  SavedOnceParts'
  <1> USE TaskActors, NoSidOutside
      DEF TypeOK, Inhand, Busy, Goto, Holding, Release, SavedOnceParts,
          SavedOncePlaces, BornInOrder, Unborn, Fresh, CreatorsOwn, Writing, Owned,
          StoredReached, Reached, UnindexedGone, Present, Absent, Torn
  <1>1. a \in Task \/ a = "reaper" \/ a = "persister"
    BY DEF Actor
  <1>2. CASE Truncate(a)
    BY <1>1, <1>2 DEF Truncate
  <1>3. CASE StoreSave(a)
    BY <1>1, <1>3 DEF StoreSave
  <1>4. CASE StoreDelete(a)
    BY <1>1, <1>4 DEF StoreDelete
  <1>5. CASE IndexRemove(a)
    BY <1>1, <1>5 DEF IndexRemove, After
  <1> QED
    BY <1>2, <1>3, <1>4, <1>5 DEF Common

(* The reaper's walk along the index. *)
LEMMA OnceReap ==
    ASSUME TypeOK, Inhand, kind # "memory", SavedOnce(kind), SavedOnceParts,
           Reap \/ WalkDone("reaper")
    PROVE  SavedOnceParts'
  <1> USE TaskActors, NoSidOutside
      DEF TypeOK, Inhand, Busy, Goto, Holding, SavedOnceParts, SavedOncePlaces,
          BornInOrder, Unborn, Fresh, CreatorsOwn, Writing, Owned, StoredReached,
          Reached, UnindexedGone, Present, Absent
  <1>1. CASE ReapStart
    BY <1>1 DEF ReapStart
  <1>2. ASSUME NEW s \in Sid, ReapOne(s) PROVE SavedOnceParts'
    BY <1>2 DEF ReapOne
  <1>3. CASE WalkDone("reaper")
    BY <1>3 DEF WalkDone
  <1>4. ~EvictDone /\ \A s \in Sid : ~Evict(s) /\ ~PruneOne(s)
    BY DEF EvictDone, Evict, PruneOne
  <1> QED
    BY <1>1, <1>2, <1>3, <1>4 DEF Reap, ReapStep

(* Neither the persister nor a crash has a part in this regime. *)
LEMMA OnceElse ==
    ASSUME TypeOK, SavedOnce(kind), SavedOnceParts,
           Persist \/ WalkDone("persister") \/ Tick \/ Crash \/ Restart
    PROVE  SavedOnceParts'
  <1> USE DEF SavedOnceParts, SavedOncePlaces
  <1>1. ~Persist /\ ~WalkDone("persister")
    BY DEF Persist, PersistStart, PersistOne, WalkDone, On, SavedOnce
  <1>2. ~Crash /\ ~Restart
    BY DEF Crash, Restart, Running, On, SavedOnce
  <1>3. CASE Tick
    BY <1>3 DEF Tick, BornInOrder, Unborn, Fresh, CreatorsOwn, Writing, Owned,
                StoredReached, Reached, UnindexedGone, Present
  <1> QED
    BY <1>1, <1>2, <1>3

LEMMA OnceNext ==
    ASSUME TypeOK, Inhand, SavedOnceInv, [Next]_vars
    PROVE  SavedOnceInv'
  <1>1. CASE UNCHANGED vars
    BY <1>1
       DEF vars, SavedOnceInv, SavedOnceParts, SavedOncePlaces, BornInOrder, Unborn,
           Fresh, CreatorsOwn, Writing, Owned, StoredReached, Reached, UnindexedGone,
           Present
  <1>2. CASE Next
    <2> SUFFICES ASSUME kind # "memory", SavedOnce(kind) PROVE SavedOnceParts'
      BY <1>2, KindFixed DEF SavedOnceInv
    <2>1. SavedOnceParts
      BY DEF SavedOnceInv
    <2>2. CASE \E t \in Task, s \in Sid : Create(t, s) \/ Find(t, s) \/ Invalidate(t, s)
      BY <2>1, <2>2, OnceRequests
    <2>3. CASE \E t \in Task : Use(t) \/ IndexInsert(t)
      BY <2>1, <2>3, OnceSessions
    <2>4. CASE \E a \in Actor : Common(a)
      BY <2>1, <2>4, OnceCommon
    <2> QED
      BY <1>2, <2>1, <2>2, <2>3, <2>4, OnceReap, OnceElse DEF Next
  <1> QED
    BY <1>1, <1>2

-----------------------------------------------------------------------------
(* The second regime.  What is stored stays stored, and the index only     *)
(* grows, so that a saved session is found at its place at every step.     *)

LEMMA KeptRequests ==
    ASSUME TypeOK, Inhand, kind # "memory", Undeleted(kind), UndeletedParts,
           NEW t \in Task, NEW s \in Sid,
           Create(t, s) \/ Find(t, s) \/ Invalidate(t, s)
    PROVE  UndeletedParts'
  <1> USE TaskActors
      DEF TypeOK, Inhand, Busy, Goto, Holding, UndeletedParts, UndeletedPlaces,
          SavesSomething, IndexKept, Kept, PersistsIndexed, KeptArrives, Arriving,
          Present, Absent
  <1>1. CASE Create(t, s)
    BY <1>1 DEF Create
  <1>2. CASE Find(t, s)
    BY <1>2 DEF Find
  <1>3. ~Invalidate(t, s)
    BY DEF Invalidate, On, Undeleted
  <1> QED
    BY <1>1, <1>2, <1>3

LEMMA KeptSessions ==
    ASSUME TypeOK, Inhand, kind # "memory", Undeleted(kind), UndeletedParts,
           NEW t \in Task, Use(t) \/ IndexInsert(t)
    PROVE  UndeletedParts'
  <1> USE TaskActors
      DEF TypeOK, Inhand, Busy, Goto, Holding, Release, UndeletedParts,
          UndeletedPlaces, SavesSomething, IndexKept, Kept, PersistsIndexed,
          KeptArrives, Arriving, Absent
  <1>1. CASE Use(t)
    BY <1>1 DEF Use
  <1>2. CASE IndexInsert(t)
    BY <1>2 DEF IndexInsert
  <1> QED
    BY <1>1, <1>2

LEMMA KeptCommon ==
    ASSUME TypeOK, Inhand, kind # "memory", Undeleted(kind), UndeletedParts,
           NEW a \in Actor, Common(a)
    PROVE  UndeletedParts'
  <1> USE TaskActors
      DEF TypeOK, Inhand, Busy, Goto, Holding, Release, UndeletedParts,
          UndeletedPlaces, SavesSomething, IndexKept, Kept, PersistsIndexed,
          KeptArrives, Arriving, Absent, Torn
  <1>1. a \in Task \/ a = "reaper" \/ a = "persister"
    BY DEF Actor
  <1>2. CASE Truncate(a)
    BY <1>1, <1>2 DEF Truncate
  <1>3. CASE StoreSave(a)
    BY <1>1, <1>3 DEF StoreSave
  <1>4. ~StoreDelete(a) /\ ~IndexRemove(a)
    BY <1>1 DEF StoreDelete, IndexRemove
  <1> QED
    BY <1>2, <1>3, <1>4 DEF Common

LEMMA KeptPersist ==
    ASSUME TypeOK, Inhand, kind # "memory", Undeleted(kind), UndeletedParts,
           Persist \/ WalkDone("persister")
    PROVE  UndeletedParts'
  <1> USE TaskActors
      DEF TypeOK, Inhand, Busy, Goto, Holding, UndeletedParts, UndeletedPlaces,
          SavesSomething, IndexKept, Kept, PersistsIndexed, KeptArrives, Arriving,
          Present, Absent
  <1>1. CASE PersistStart
    BY <1>1 DEF PersistStart
  <1>2. ASSUME NEW s \in Sid, PersistOne(s) PROVE UndeletedParts'
    BY <1>2 DEF PersistOne, Cell, Torn
  <1>3. CASE WalkDone("persister")
    BY <1>3 DEF WalkDone
  <1> QED
    BY <1>1, <1>2, <1>3 DEF Persist

(* Neither the reaper nor a crash has a part in this regime. *)
LEMMA KeptElse ==
    ASSUME TypeOK, Undeleted(kind), UndeletedParts,
           Reap \/ WalkDone("reaper") \/ Tick \/ Crash \/ Restart
    PROVE  UndeletedParts'
  <1> USE DEF UndeletedParts, UndeletedPlaces
  <1>1. ~Reap /\ ~WalkDone("reaper")
    BY DEF Reap, ReapStep, ReapStart, EvictDone, Evict, ReapOne, PruneOne, WalkDone, On, Undeleted
  <1>2. ~Crash /\ ~Restart
    BY DEF Crash, Restart, Running, On, Undeleted
  <1>3. CASE Tick
    BY <1>3 DEF Tick, SavesSomething, IndexKept, Kept, PersistsIndexed, KeptArrives,
                Arriving
  <1> QED
    BY <1>1, <1>2, <1>3

LEMMA KeptNext ==
    ASSUME TypeOK, Inhand, UndeletedInv, [Next]_vars
    PROVE  UndeletedInv'
  <1>1. CASE UNCHANGED vars
    BY <1>1
       DEF vars, UndeletedInv, UndeletedParts, UndeletedPlaces, SavesSomething,
           IndexKept, Kept, PersistsIndexed, KeptArrives, Arriving
  <1>2. CASE Next
    <2> SUFFICES ASSUME kind # "memory", Undeleted(kind) PROVE UndeletedParts'
      BY <1>2, KindFixed DEF UndeletedInv
    <2>1. UndeletedParts
      BY DEF UndeletedInv
    <2>2. CASE \E t \in Task, s \in Sid : Create(t, s) \/ Find(t, s) \/ Invalidate(t, s)
      BY <2>1, <2>2, KeptRequests
    <2>3. CASE \E t \in Task : Use(t) \/ IndexInsert(t)
      BY <2>1, <2>3, KeptSessions
    <2>4. CASE \E a \in Actor : Common(a)
      BY <2>1, <2>4, KeptCommon
    <2> QED
      BY <1>2, <2>1, <2>2, <2>3, <2>4, KeptPersist, KeptElse DEF Next
  <1> QED
    BY <1>1, <1>2

-----------------------------------------------------------------------------
LEMMA InitRegimes == Init => SavedOnceInv /\ UndeletedInv
  <1> SUFFICES ASSUME Init PROVE SavedOnceParts /\ UndeletedParts
    BY DEF SavedOnceInv, UndeletedInv
  <1> USE TaskActors, NoSidOutside DEF Init, Absent
  <1>1. BornInOrder
    <2>1. Cardinality(born) = 0 /\ 1..0 = {}
      BY FS_EmptySet
    <2> QED
      BY <2>1 DEF BornInOrder
  <1>2. SavedOncePlaces /\ Unborn /\ CreatorsOwn /\ StoredReached /\ UnindexedGone
    BY DEF SavedOncePlaces, Unborn, Fresh, CreatorsOwn, Writing, StoredReached, Present,
           UnindexedGone
  <1>3. UndeletedParts
    BY DEF UndeletedParts, UndeletedPlaces, SavesSomething, IndexKept, Kept,
           PersistsIndexed, KeptArrives
  <1> QED
    BY <1>1, <1>2, <1>3 DEF SavedOnceParts

(* When nothing is under way nobody is inserting or writing: what is on    *)
(* its way to the index has arrived.                                       *)
LEMMA RegimesTrack ==
    ASSUME \A k \in Kinds \ {"memory"} : Steady(k), TypeOK, SavedOnceInv, UndeletedInv
    PROVE  Tracked
  <1> SUFFICES ASSUME kind # "memory", Idle, NEW s \in Sid, Present(s) PROVE s \in index
    BY DEF Tracked
  <1> USE TaskActors DEF Idle, Present
  <1>1. CASE SavedOnce(kind)
    BY <1>1 DEF SavedOnceInv, SavedOnceParts, StoredReached, Reached
  <1>2. CASE Undeleted(kind)
    BY <1>2 DEF UndeletedInv, UndeletedParts, KeptArrives, Kept, Arriving, Absent
  <1> QED
    BY <1>1, <1>2 DEF Steady, TypeOK

(* create, save and find leave the store and the index in agreement, so    *)
(* that a reap along the index reaches every stored session, as long as no *)
(* delete of a session can race with a save of it.                         *)
THEOREM SessionsTracked ==
    ASSUME \A k \in Kinds \ {"memory"} : Steady(k)
    PROVE  Spec => []Tracked
  <1> DEFINE IInv == TypeOK /\ Inhand /\ SavedOnceInv /\ UndeletedInv
  <1>1. Init => IInv
    BY InitTypes, InitRegimes
  <1>2. IInv /\ [Next]_vars => IInv'
    BY NextTypes, OnceNext, KeptNext
  <1>3. IInv => Tracked
    BY RegimesTrack
  <1> QED
    BY <1>1, <1>2, <1>3, PTL DEF Spec
=============================================================================
