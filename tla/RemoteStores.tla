---------------------------- MODULE RemoteStores -----------------------------
(***************************************************************************)
(* The session stores that keep a session in another process, statement by *)
(* statement: JdbcSessionStore (store_jdbc.rs) saves with an UPDATE and,   *)
(* when no row matched, an INSERT; RedisSessionStore (store_redis.rs) with *)
(* SETEX or, for an interval without whole seconds, SET and PERSIST.  One  *)
(* session, several tasks; the database and Redis are external and execute *)
(* each statement atomically.  Times are in half seconds.                  *)
(***************************************************************************)
EXTENDS Integers, Sequences, FiniteSets

CONSTANTS
    Clients,        \* concurrent users of the store
    Intervals,      \* max_inactive_interval of a saved session, half seconds
    MaxOps,         \* bound on the operations of a run
    MaxFaults       \* bound on failed statements and lost connections

ASSUME StoresAssumption ==
    Intervals \subseteq Nat /\ MaxOps \in Nat /\ MaxFaults \in Nat

VARIABLES
    row,        \* tomcatrs_sessions where session_id = id, at most one record
    key,        \* tomcatrs:session:<id> in Redis: at most one [data, interval, ttl]
    conn,       \* RedisSessionStore.conn: "none", "live", "dead"
    task,       \* per task: the operation under way and how the last one ended
    ops, faults,
    \* history
    deleted,    \* a delete took effect with no save under way, and none began since
    mixed       \* a save took effect between the SET and the PERSIST of another

storeVars == <<row, key, conn, task, ops, faults, deleted, mixed>>

NoTtl == -1
Resting(t) == task[t].at = "idle"
SavesUnderWay == {t \in Clients : task[t].at \in {"update", "insert", "set", "persist"}}
\* whoever is under way now has seen another operation during its own
End(t, result) ==
    [u \in Clients |-> IF u = t THEN [task[t] EXCEPT !.at = "idle", !.result = result]
                     ELSE [task[u] EXCEPT !.shared = @ \/ task[u].at # "idle"]]
StepTo(t, at) == [task EXCEPT ![t].at = at]

\* at is the first statement
BeginOp(t, at, interval) ==
    /\ Resting(t) /\ ops < MaxOps
    /\ ops' = ops + 1
    /\ task' = [u \in Clients |->
                  IF u = t THEN [op |-> at, at |-> at, data |-> ops + 1, interval |-> interval,
                                 result |-> "none", shared |-> \E o \in Clients : ~Resting(o)]
                  ELSE [task[u] EXCEPT !.shared = @ \/ task[u].at # "idle"]]
    /\ deleted' = (deleted /\ at \in {"delete", "del"})
    /\ UNCHANGED <<row, key, conn, faults, mixed>>

(***************************************************************************)
(* JdbcSessionStore.  A failed statement, or command of Redis, may or may  *)
(* not have been executed.                                                 *)
(***************************************************************************)
WholeSeconds(interval) == interval \div 2
Expires(t) == WholeSeconds(task[t].interval) > 0
OtherPersists(t) == {u \in Clients \ {t} : task[u].at = "persist"}
\* a SETEX in the middle of a SET and PERSIST
Mixes(t) == task[t].at = "set" /\ Expires(t) /\ OtherPersists(t) # {}

Executed(t) ==
    CASE task[t].at = "update" /\ row # <<>> -> <<task[t].data>>
      [] task[t].at = "insert" /\ row = <<>> -> <<task[t].data>>
      [] task[t].at = "delete" -> <<>>
      [] OTHER -> row

\* SETEX, or SET, which drops a TTL the key had
Written(t) ==
    <<[data |-> task[t].data, interval |-> task[t].interval,
       ttl |-> IF Expires(t) THEN 2 * WholeSeconds(task[t].interval) ELSE NoTtl]>>
Commanded(t) ==
    CASE task[t].at = "set" -> Written(t)
      [] task[t].at = "persist" /\ key # <<>> -> <<[key[1] EXCEPT !.ttl = NoTtl]>>
      [] task[t].at = "del" -> <<>>
      [] OTHER -> key

Fault(t) ==
    /\ ~Resting(t) /\ faults < MaxFaults
    /\ faults' = faults + 1
    /\ \/ row' \in {row, Executed(t)} /\ UNCHANGED <<key, mixed>>
       \/ row' = row /\ conn = "live" /\ key' = Commanded(t) /\ mixed' = (mixed \/ Mixes(t))
    /\ task' = End(t, "error")
    /\ conn' = IF conn = "live" THEN "dead" ELSE conn
    /\ UNCHANGED <<ops, deleted>>

\* a slip: the row count is not looked at
UpdateAlone(t) ==
    /\ task[t].at = "update"
    /\ row' = IF row = <<>> THEN row ELSE <<task[t].data>>
    /\ task' = End(t, "ok")
    /\ UNCHANGED <<key, conn, ops, faults, deleted, mixed>>

Update(t) ==
    /\ task[t].at = "update"
    /\ IF row = <<>> THEN row' = row /\ task' = StepTo(t, "insert")
       ELSE row' = <<task[t].data>> /\ task' = End(t, "ok")
    /\ UNCHANGED <<key, conn, ops, faults, deleted, mixed>>

\* session_id is the primary key
Insert(t) ==
    /\ task[t].at = "insert"
    /\ IF row = <<>> THEN row' = <<task[t].data>> /\ task' = End(t, "ok")
       ELSE row' = row /\ task' = End(t, "duplicate")
    /\ UNCHANGED <<key, conn, ops, faults, deleted, mixed>>

(***************************************************************************)
(* RedisSessionStore.  connection() keeps the first connection for ever.   *)
(***************************************************************************)
Connection(t) ==
    /\ task[t].at \in {"set", "del"} /\ conn = "none"
    /\ conn' = "live"
    /\ UNCHANGED <<row, key, task, ops, faults, deleted, mixed>>

\* a command on a connection that broke
CommandFails(t) ==
    /\ task[t].at \in {"set", "persist", "del"} /\ conn = "dead"
    /\ task' = End(t, "error")
    /\ UNCHANGED <<row, key, conn, ops, faults, deleted, mixed>>

\* a slip: a TTL the key has is kept
SetExKeeps(t) ==
    /\ task[t].at = "set" /\ conn = "live" /\ Expires(t)
    /\ key' = <<[data |-> task[t].data, interval |-> task[t].interval,
                 ttl |-> IF key = <<>> THEN 2 * WholeSeconds(task[t].interval) ELSE key[1].ttl]>>
    /\ mixed' = (mixed \/ OtherPersists(t) # {})
    /\ task' = End(t, "ok")
    /\ UNCHANGED <<row, conn, ops, faults, deleted>>

SetEx(t) ==
    /\ task[t].at = "set" /\ conn = "live" /\ Expires(t)
    /\ key' = Written(t)
    /\ mixed' = (mixed \/ Mixes(t))
    /\ task' = End(t, "ok")
    /\ UNCHANGED <<row, conn, ops, faults, deleted>>

SetPlain(t) ==
    /\ task[t].at = "set" /\ conn = "live" /\ ~Expires(t)
    /\ key' = Written(t)
    /\ task' = StepTo(t, "persist")
    /\ UNCHANGED <<row, conn, ops, faults, deleted, mixed>>

Persist(t) ==
    /\ task[t].at = "persist" /\ conn = "live"
    /\ key' = Commanded(t)
    /\ task' = End(t, "ok")
    /\ UNCHANGED <<row, conn, ops, faults, deleted, mixed>>

\* half a second passes in Redis
Evict ==
    /\ key # <<>> /\ key[1].ttl # NoTtl
    /\ key' = IF key[1].ttl = 1 THEN <<>> ELSE <<[key[1] EXCEPT !.ttl = @ - 1]>>
    /\ UNCHANGED <<row, conn, task, ops, faults, deleted, mixed>>

\* DELETE; no match is no error
SqlDelete(t) ==
    /\ task[t].at = "delete"
    /\ row' = <<>>
    /\ deleted' = (SavesUnderWay = {})
    /\ task' = End(t, "ok")
    /\ UNCHANGED <<key, conn, ops, faults, mixed>>

\* a slip: the id without its prefix
DelBare(t) ==
    /\ task[t].at = "del" /\ conn = "live"
    /\ deleted' = (SavesUnderWay = {})
    /\ task' = End(t, "ok")
    /\ UNCHANGED <<row, key, conn, ops, faults, mixed>>

Del(t) ==
    /\ task[t].at = "del" /\ conn = "live"
    /\ key' = <<>>
    /\ deleted' = (SavesUnderWay = {})
    /\ task' = End(t, "ok")
    /\ UNCHANGED <<row, conn, ops, faults, mixed>>

StoreInit ==
    /\ row = <<>> /\ key = <<>> /\ conn = "none" /\ ops = 0 /\ faults = 0
    /\ task = [t \in Clients |-> [op |-> "none", at |-> "idle", data |-> 0, interval |-> 0, result |-> "none",
                                shared |-> FALSE]]
    /\ deleted = TRUE /\ mixed = FALSE

JdbcNext ==
    \E t \in Clients :
        \/ BeginOp(t, "update", 0) \/ BeginOp(t, "delete", 0)
        \/ Update(t) \/ Insert(t) \/ SqlDelete(t) \/ Fault(t)

RedisNext ==
    \/ \E t \in Clients :
        \/ \E i \in Intervals : BeginOp(t, "set", i)
        \/ BeginOp(t, "del", 0)
        \/ Connection(t) \/ CommandFails(t) \/ SetEx(t) \/ SetPlain(t) \/ Persist(t)
        \/ Del(t) \/ Fault(t)
    \/ Evict

JdbcSpec == StoreInit /\ [][JdbcNext]_storeVars
RedisSpec == StoreInit /\ [][RedisNext]_storeVars

(***************************************************************************)
(* Properties.                                                             *)
(***************************************************************************)
\* A save that succeeds leaves the session in the store until another operation
\* or, in Redis, its TTL takes it away; and only a save that ran beside another
\* operation can fail for a duplicate key (store_jdbc.rs save, store_redis.rs
\* save).
SavedIsThere ==
    \A t \in Clients :
        /\ task[t].result = "duplicate" => task[t].shared
        /\ (task[t].result = "ok" /\ task[t].data = ops /\ ~task[t].shared) =>
              CASE task[t].op = "update" -> row = <<ops>>
                [] task[t].op = "set" -> key = <<>> \/ key[1].data = ops
                [] OTHER -> TRUE

\* A deleted session stays away unless a save was under way or began afterwards:
\* the INSERT of a save whose UPDATE came before the delete brings it back
\* (store_jdbc.rs l.240-270).
DeletedStaysAway == deleted => row = <<>> /\ key = <<>>

\* Redis evicts every session whose interval has a whole second: a key without
\* a TTL is one saved with less than a second, or one whose save fell between
\* the SET and the PERSIST of another (store_redis.rs l.158-173).
RedisEvicts ==
    key # <<>> /\ key[1].ttl = NoTtl => WholeSeconds(key[1].interval) = 0 \/ mixed
\* The stores in a database and in Redis keep what was saved, lose what was
\* deleted and let what has an interval expire, up to the races they have.
RemoteStoresKeep == SavedIsThere /\ DeletedStaysAway /\ RedisEvicts
=============================================================================
