--------------------------- MODULE SessionManager ---------------------------
(***************************************************************************)
(* SessionManager of tomcatrs-session (manager.rs) over one of its stores: *)
(* the memory store, the file store, or one that cannot enumerate itself   *)
(* (Redis).  Every call of the store and every critical section of the     *)
(* index is one step; requests, the reaper and persist_all interleave      *)
(* between them.                                                           *)
(*                                                                         *)
(* A stored session is abstracted to its last_accessed time.               *)
(***************************************************************************)
EXTENDS Integers, FiniteSets

CONSTANTS
    MaxSid,     \* bound: session ids
    Task,       \* tasks serving requests
    Kinds,      \* the stores a server may be configured with
    Does,       \* what goes on under each of them
    MaxBorn,    \* bound: sessions created under each of them
    Lifetime,   \* max_inactive_interval of every session
    MaxTime,    \* bound: the last clock reading
    MaxCrash    \* bound: process crashes

Activity == {"create", "find", "touch", "invalidate", "reap", "persist", "crash"}

ASSUME KindAssumption ==
    Kinds \subseteq {"memory", "file", "redis"} /\ Does \in [Kinds -> SUBSET Activity]
ASSUME TimeAssumption ==
    MaxBorn \in [Kinds -> Nat] /\ Lifetime \in Nat /\ MaxTime \in Nat /\ MaxCrash \in Nat
ASSUME SidAssumption == MaxSid \in Nat
ASSUME TaskAssumption == {"reaper", "persister"} \cap Task = {}

VARIABLES
    kind,     \* the configured store; never changes
    store,    \* the backend: each session's last_accessed, or Absent or Torn
    index,    \* the ids this manager knows of
    now,      \* the clock
    born,     \* the ids create has handed out
    pc,       \* where each actor is
    sid,      \* the session an actor works on
    data,     \* the SessionData an actor has loaded or is about to save
    todo,     \* the ids a walk has still to visit
    since,    \* the clock reading reap_expired took when it began
    removed,  \* whether the memory store's reap evicted anything
    crashes   \* crashes so far; odd while the process is down

Sid == 1..MaxSid    \* in the order they are generated

vars == <<kind, store, index, now, born, pc, sid, data, todo, since, removed, crashes>>

Actor == Task \cup {"reaper", "persister"}
Absent == -1
Torn == -2    \* a file that was truncated and never rewritten
Cell == {Absent, Torn} \cup 0..MaxTime
NoSid == 0

Present(s) == store[s] >= 0
Running == crashes % 2 = 0
On(activity) == activity \in Does[kind]

(* SessionData::is_expired: zero means immortal; idle strictly longer. *)
IsExpired(last, at) == Lifetime # 0 /\ at - last > Lifetime

Init ==
    /\ kind \in Kinds
    /\ store = [s \in Sid |-> Absent]
    /\ index = {} /\ now = 0 /\ born = {} /\ crashes = 0 /\ removed = FALSE
    /\ pc = [a \in Actor |-> "idle"]
    /\ sid = [a \in Actor |-> NoSid]
    /\ data = [a \in Actor |-> Absent]
    /\ todo = [a \in Actor |-> {}]
    /\ since = 0

Goto(a, l) == pc' = [pc EXCEPT ![a] = l]
Holding(a, s, d) ==
    /\ sid' = [sid EXCEPT ![a] = s]
    /\ data' = [data EXCEPT ![a] = d]

Release(a, l) == Goto(a, l) /\ Holding(a, NoSid, Absent)

(* Where an actor goes on once its session is dealt with. *)
After(a) == IF a \in Task THEN "idle" ELSE "walk"

-----------------------------------------------------------------------------
(* Requests. *)

(* create: a fresh id and a SessionData stamped with the time. *)
Create(t, s) ==
    /\ Running /\ On("create") /\ pc[t] = "idle"
    /\ s = Cardinality(born) + 1 /\ s <= MaxBorn[kind]
    /\ born' = born \cup {s}
    /\ Holding(t, s, now)
    /\ Goto(t, "save")
    /\ UNCHANGED <<kind, store, index, now, todo, since, removed, crashes>>

(* find: load from the store; an error or an unknown id ends it. *)
Find(t, s) ==
    /\ Running /\ On("find") /\ pc[t] = "idle" /\ s \in born
    /\ IF Present(s) THEN Holding(t, s, store[s]) /\ Goto(t, "found")
                     ELSE UNCHANGED <<sid, data, pc>>
    /\ UNCHANGED <<kind, store, index, now, born, todo, since, removed,
                    crashes>>

(* A request that holds a found session refreshes and saves it, or is done. *)
Use(t) ==
    /\ pc[t] = "have"
    /\ \/ On("touch") /\ Holding(t, sid[t], now) /\ Goto(t, "save")
       \/ Release(t, "idle")
    /\ UNCHANGED <<kind, store, index, now, born, todo, since, removed,
                    crashes>>

(* invalidate: delete from the store, then drop from the index. *)
Invalidate(t, s) ==
    /\ Running /\ On("invalidate") /\ pc[t] = "idle" /\ s \in born
    /\ Holding(t, s, Absent)
    /\ Goto(t, "delete")
    /\ UNCHANGED <<kind, store, index, now, born, todo, since, removed,
                    crashes>>

-----------------------------------------------------------------------------
(* Steps shared by every caller. *)

(* The file store's save truncates the file before it writes it. *)
Truncate(a) ==
    /\ kind = "file" /\ pc[a] = "save"
    /\ store' = [store EXCEPT ![sid[a]] = Torn]
    /\ Goto(a, "write")
    /\ UNCHANGED <<kind, index, now, born, sid, data, todo, since, removed,
                    crashes>>

(* store.save; a file unlinked since it was opened stays unlinked.         *)
(* persist_all does not touch the index afterwards.                        *)
StoreSave(a) ==
    /\ pc[a] = IF kind = "file" THEN "write" ELSE "save"
    /\ store' = [store EXCEPT ![sid[a]] =
                    IF kind = "file" /\ @ = Absent THEN Absent ELSE data[a]]
    /\ IF a \in Task THEN Goto(a, "insert") /\ UNCHANGED <<sid, data>>
                     ELSE Release(a, "walk")
    /\ UNCHANGED <<kind, index, now, born, todo, since, removed, crashes>>

(* Mutant: a session that create or save stored is not tracked. *)
IndexInsertOnFind(a) ==
    /\ pc[a] \in {"insert", "found"}
    /\ index' = IF pc[a] = "found" THEN index \cup {sid[a]} ELSE index
    /\ IF pc[a] = "found" THEN Goto(a, "have") /\ UNCHANGED <<sid, data>>
                          ELSE Release(a, "idle")
    /\ UNCHANGED <<kind, store, now, born, todo, since, removed, crashes>>

(* index.insert, after a save or after a successful find. *)
IndexInsert(a) ==
    /\ pc[a] \in {"insert", "found"}
    /\ index' = index \cup {sid[a]}
    /\ IF pc[a] = "found" THEN Goto(a, "have") /\ UNCHANGED <<sid, data>>
                          ELSE Release(a, "idle")
    /\ UNCHANGED <<kind, store, now, born, todo, since, removed, crashes>>

(* store.delete, by invalidate and by the generic reap. *)
StoreDelete(a) ==
    /\ pc[a] = "delete"
    /\ store' = [store EXCEPT ![sid[a]] = Absent]
    /\ Goto(a, "unindex")
    /\ UNCHANGED <<kind, index, now, born, sid, data, todo, since, removed,
                    crashes>>

(* index.remove *)
IndexRemove(a) ==
    /\ pc[a] = "unindex"
    /\ index' = index \ {sid[a]}
    /\ Release(a, After(a))
    /\ UNCHANGED <<kind, store, now, born, todo, since, removed, crashes>>

-----------------------------------------------------------------------------
(* Mutant: the reaper rounds its clock reading up. *)
ReapStartLate ==
    /\ Running /\ On("reap") /\ pc["reaper"] = "idle"
    /\ since' = now + 1
    /\ removed' = FALSE
    /\ todo' = [todo EXCEPT !["reaper"] = index]
    /\ Goto("reaper", "walk")
    /\ UNCHANGED <<kind, store, index, now, born, sid, data, crashes>>

(* Mutant: the memory store is reaped along the index as well. *)
ReapStartIndexed ==
    /\ Running /\ On("reap") /\ pc["reaper"] = "idle"
    /\ since' = now
    /\ removed' = FALSE
    /\ todo' = [todo EXCEPT !["reaper"] =
                  {s \in index : Present(s) /\ IsExpired(store[s], now)}]
    /\ Goto("reaper", "evict")
    /\ UNCHANGED <<kind, store, index, now, born, sid, data, crashes>>

(* reap_expired.  The memory store collects its expired ids and evicts     *)
(* them; any other store is walked along the index.                        *)
ReapStart ==
    /\ Running /\ On("reap") /\ pc["reaper"] = "idle"
    /\ since' = now
    /\ removed' = FALSE
    /\ todo' = [todo EXCEPT !["reaper"] =
                  IF kind = "memory"
                    THEN {s \in Sid : Present(s) /\ IsExpired(store[s], now)}
                    ELSE index]
    /\ Goto("reaper", IF kind = "memory" THEN "evict" ELSE "walk")
    /\ UNCHANGED <<kind, store, index, now, born, sid, data, crashes>>

(* sessions.remove(id): no second look at the session. *)
Evict(s) ==
    /\ pc["reaper"] = "evict" /\ s \in todo["reaper"]
    /\ store' = [store EXCEPT ![s] = Absent]
    /\ todo' = [todo EXCEPT !["reaper"] = @ \ {s}]
    /\ removed' = TRUE
    /\ UNCHANGED <<kind, index, now, born, pc, sid, data, since, crashes>>

(* The index is pruned against the store only when something was evicted. *)
EvictDone ==
    /\ pc["reaper"] = "evict" /\ todo["reaper"] = {}
    /\ todo' = [todo EXCEPT !["reaper"] = IF removed THEN index ELSE {}]
    /\ Goto("reaper", IF removed THEN "walk" ELSE "idle")
    /\ UNCHANGED <<kind, store, index, now, born, sid, data, since, removed,
                    crashes>>

(* Mutant: an id the store no longer has stays in the index. *)
ReapOneKeepsDead(s) ==
    /\ kind # "memory" /\ pc["reaper"] = "walk" /\ s \in todo["reaper"]
    /\ todo' = [todo EXCEPT !["reaper"] = @ \ {s}]
    /\ IF Present(s) /\ IsExpired(store[s], since)
         THEN Holding("reaper", s, Absent) /\ Goto("reaper", "delete")
         ELSE UNCHANGED <<sid, data, pc>>
    /\ UNCHANGED <<kind, store, index, now, born, since, removed, crashes>>

(* One id of the reaper's walk: a vanished session is dropped from the     *)
(* index, an expired one deleted first, a store error abandons the reap.   *)
ReapOne(s) ==
    /\ kind # "memory" /\ pc["reaper"] = "walk" /\ s \in todo["reaper"]
    /\ todo' = [todo EXCEPT !["reaper"] = IF store[s] = Torn THEN {} ELSE @ \ {s}]
    /\ IF store[s] = Absent \/ (Present(s) /\ IsExpired(store[s], since))
         THEN /\ Holding("reaper", s, Absent)
              /\ Goto("reaper", IF Present(s) THEN "delete" ELSE "unindex")
         ELSE UNCHANGED <<sid, data, pc>>
    /\ UNCHANGED <<kind, store, index, now, born, since, removed, crashes>>

(* prune_index_against_store: only the index changes. *)
PruneOne(s) ==
    /\ kind = "memory" /\ pc["reaper"] = "walk" /\ s \in todo["reaper"]
    /\ todo' = [todo EXCEPT !["reaper"] = @ \ {s}]
    /\ IF ~Present(s) \/ IsExpired(store[s], since)
         THEN Holding("reaper", s, Absent) /\ Goto("reaper", "unindex")
         ELSE UNCHANGED <<sid, data, pc>>
    /\ UNCHANGED <<kind, store, index, now, born, since, removed, crashes>>

(* persist_all: load each tracked session and write it straight back. *)
PersistStart ==
    /\ Running /\ On("persist") /\ pc["persister"] = "idle"
    /\ todo' = [todo EXCEPT !["persister"] = index]
    /\ Goto("persister", "walk")
    /\ UNCHANGED <<kind, store, index, now, born, sid, data, since, removed,
                    crashes>>

PersistOne(s) ==
    /\ pc["persister"] = "walk" /\ s \in todo["persister"]
    /\ todo' = [todo EXCEPT !["persister"] = IF store[s] = Torn THEN {} ELSE @ \ {s}]
    /\ IF store[s] = Torn
         THEN UNCHANGED <<sid, data, pc>>
         ELSE /\ Holding("persister", s, store[s])
              /\ Goto("persister", IF Present(s) THEN "save" ELSE "unindex")
    /\ UNCHANGED <<kind, store, index, now, born, since, removed, crashes>>

WalkDone(a) ==
    /\ pc[a] = "walk" /\ todo[a] = {}
    /\ Goto(a, "idle")
    /\ UNCHANGED <<kind, store, index, now, born, sid, data, todo, since,
                    removed, crashes>>

-----------------------------------------------------------------------------
Tick ==
    /\ now < MaxTime
    /\ now' = now + 1
    /\ UNCHANGED <<kind, store, index, born, pc, sid, data, todo, since,
                    removed, crashes>>

(* The process dies: the index and the memory store die with it. *)
Crash ==
    /\ Running /\ On("crash") /\ crashes < 2 * MaxCrash
    /\ crashes' = crashes + 1
    /\ store' = IF kind = "memory" THEN [s \in Sid |-> Absent] ELSE store
    /\ index' = {} /\ removed' = FALSE
    /\ pc' = [a \in Actor |-> "idle"]
    /\ sid' = [a \in Actor |-> NoSid]
    /\ data' = [a \in Actor |-> Absent]
    /\ todo' = [a \in Actor |-> {}]
    /\ UNCHANGED <<kind, now, born, since>>

(* A new process calls reload_all before it serves.  One unreadable file   *)
(* fails the whole enumeration; a store that cannot enumerate is skipped.  *)
Restart ==
    /\ ~Running
    /\ crashes' = crashes + 1
    /\ index' = IF kind = "redis" \/ \E s \in Sid : store[s] = Torn THEN index
                ELSE index \cup {s \in Sid : Present(s)}
    /\ UNCHANGED <<kind, store, now, born, pc, sid, data, todo, since,
                    removed>>

-----------------------------------------------------------------------------
ReapStep == EvictDone \/ \E s \in Sid : Evict(s) \/ ReapOne(s) \/ PruneOne(s)
Reap == ReapStart \/ ReapStep
Persist == PersistStart \/ (\E s \in Sid : PersistOne(s))
Common(a) == Truncate(a) \/ StoreSave(a) \/ StoreDelete(a) \/ IndexRemove(a)

Next ==
    \/ \E t \in Task, s \in Sid : Create(t, s) \/ Find(t, s) \/ Invalidate(t, s)
    \/ \E t \in Task : Use(t) \/ IndexInsert(t)
    \/ \E a \in Actor : Common(a)
    \/ Reap \/ Persist \/ WalkDone("reaper") \/ WalkDone("persister")
    \/ Tick \/ Crash \/ Restart

Spec == Init /\ [][Next]_vars

(* A caller that has begun an operation is polled to its end.  Nobody has  *)
(* to begin one: no task of the repository calls reap_expired, persist_all *)
(* or the request operations on a schedule.                                *)
FairSpec ==
    /\ Spec
    /\ \A t \in Task : WF_vars(Use(t)) /\ WF_vars(IndexInsert(t))
    /\ \A a \in Actor : WF_vars(Common(a))
    /\ WF_vars(ReapStep) /\ WF_vars(WalkDone("reaper")) /\ WF_vars(WalkDone("persister"))
    /\ WF_vars(\E s \in Sid : PersistOne(s))

-----------------------------------------------------------------------------
(* The types: in particular no clock reading taken by the reaper or stored  *)
(* in a session is ahead of the clock's last one.                          *)
TypeOK ==
    /\ kind \in Kinds
    /\ store \in [Sid -> Cell]
    /\ index \subseteq Sid /\ born \subseteq Sid
    /\ now \in 0..MaxTime /\ since \in 0..MaxTime
    /\ pc \in [Actor -> {"idle", "save", "write", "insert", "found", "have",
                         "delete", "unindex", "evict", "walk"}]
    /\ sid \in [Actor -> Sid \cup {NoSid}]
    /\ data \in [Actor -> Cell]
    /\ todo \in [Actor -> SUBSET Sid]
    /\ removed \in BOOLEAN /\ crashes \in 0..(2 * MaxCrash)

Idle == \A a \in Actor : pc[a] = "idle"

(* The embedder calls reap_expired again and again. *)
ReapsForEver == []<><<ReapStart>>_vars

(* reap_expired, "Remove every expired session": for an embedder that keeps *)
(* calling it, whatever requests, persist_all and crashes do in between, a  *)
(* session that has expired does not stay stored.                           *)
ExpiredGoes ==
    ReapsForEver =>
        \A s \in Sid : (Present(s) /\ IsExpired(store[s], now))
                          ~> (~Present(s) \/ ~IsExpired(store[s], now))

(* A store that is walked along the index: for such an embedder, the index  *)
(* does not keep the id of a session the store has lost.                    *)
DeadIdsGo ==
    ReapsForEver =>
        \A s \in Sid : (kind # "memory" /\ s \in index /\ store[s] = Absent)
                          ~> (s \notin index \/ store[s] # Absent)

(* ... and create, save and find leave store and index in agreement: when  *)
(* nothing is under way, every stored session is one reap_expired reaches. *)
Tracked ==
    (kind # "memory" /\ Idle /\ Running) => \A s \in Sid : Present(s) => s \in index
=============================================================================
