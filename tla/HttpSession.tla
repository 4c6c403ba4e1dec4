----------------------------- MODULE HttpSession -----------------------------
(***************************************************************************)
(* The HttpSession bridge of tomcatrs-servlet-bridge (session_bridge.rs):  *)
(* requests resolve a session through SessionBinder and work on it through *)
(* a SessionHandle, each accessor a load, a change and a save against the  *)
(* webapp's memory store.  A load and a save are one step each; requests   *)
(* on different worker threads interleave between them.                    *)
(*                                                                         *)
(* A session is abstracted to its attributes; that its times and interval  *)
(* are rewritten by a load and a save of the whole session is kept.        *)
(* Accessors that only read (getAttribute, getCreationTime, isNew ...)     *)
(* change nothing and have no action.                                      *)
(***************************************************************************)
EXTENDS Integers, FiniteSets

CONSTANTS
    Sid,       \* ids that generate_session_id can return
    Req,       \* requests; each is served once
    Name,      \* attribute names
    Workers    \* the worker pool sizes a server may have

ASSUME WorkersAssumption == Workers \subseteq Nat \ {0}

VARIABLES
    workers, \* worker threads; never changes
    store,   \* the memory store of the webapp's SessionManager
    minted,  \* ids create has handed out
    pc,      \* where each request is
    handle,  \* the SessionHandle each request has registered, if any
    buf,     \* the SessionData a request has loaded and will save
    gone,    \* sessions invalidate has returned for
    op,      \* the attribute change each request is making
    want     \* history: the attributes had every accessor run alone

vars == <<workers, store, minted, pc, handle, buf, gone, op, want>>

NoSid == "none"
Null == "null"     \* an attribute that is not set
Val == Req         \* a request sets its own value
Attrs == [Name -> Val \cup {Null}]
Absent == <<>>
NoOp == [name |-> Null, value |-> Null]
NoHandle == [id |-> NoSid, new |-> FALSE]
Handles == [id : Sid \cup {NoSid}, new : BOOLEAN]

(* An id, a value and an attribute name are real ones; a session holds     *)
(* attributes even when none is set; the requests of a run can be counted. *)
ASSUME SessionAssumption ==
    /\ NoSid \notin Sid /\ Null \notin Req /\ Null \notin Name
    /\ Name # {} /\ IsFiniteSet(Req)

Present(s) == store[s] # Absent
Fresh == [n \in Name |-> Null]

Init ==
    /\ workers \in Workers
    /\ store = [s \in Sid |-> Absent]
    /\ minted = {} /\ gone = {}
    /\ pc = [r \in Req |-> "new"]
    /\ handle = [r \in Req |-> NoHandle]
    /\ buf = [r \in Req |-> Absent]
    /\ op = [r \in Req |-> NoOp]
    /\ want = [s \in Sid |-> Fresh]

Goto(r, l) == pc' = [pc EXCEPT ![r] = l]
Live(r) == pc[r] \notin {"new", "done"}

(* A free worker thread takes up a request. *)
Begin(r) ==
    /\ pc[r] = "new"
    /\ Cardinality({q \in Req : Live(q)}) < workers
    /\ Goto(r, "servlet")
    /\ UNCHANGED <<workers, store, minted, handle, buf, gone, op, want>>

-----------------------------------------------------------------------------
(* getSession. *)

(* Mutant: the handle of a created session is not marked new. *)
CreateUnmarked(r, s) ==
    /\ s \notin minted
    /\ minted' = minted \cup {s}
    /\ store' = [store EXCEPT ![s] = Fresh]
    /\ handle' = [handle EXCEPT ![r] = [id |-> s, new |-> FALSE]]
    /\ UNCHANGED <<pc, buf, want>>

(* The binder's create branch: a new id, an empty session, a handle marked *)
(* new (for which getSession sends the Set-Cookie), registered at once.    *)
CreateBound(r, s) ==
    /\ s \notin minted
    /\ minted' = minted \cup {s}
    /\ store' = [store EXCEPT ![s] = Fresh]
    /\ handle' = [handle EXCEPT ![r] = [id |-> s, new |-> TRUE]]
    /\ UNCHANGED <<pc, buf, want>>

(* nativeResolveOrCreateSession for a request without a JSESSIONID. *)
ResolveNone(r, create) ==
    /\ pc[r] = "servlet" /\ handle[r] = NoHandle
    /\ IF create THEN \E s \in Sid : CreateBound(r, s)
                 ELSE UNCHANGED <<store, minted, handle, want, pc, buf>>
    /\ UNCHANGED <<workers, gone, op>>

(* Mutant: an unknown id is adopted for the new session. *)
ResolveAdopt(r, c) ==
    /\ pc[r] = "servlet" /\ handle[r] = NoHandle /\ c \in minted
    /\ store' = [store EXCEPT ![c] = IF Present(c) THEN store[c] ELSE Fresh]
    /\ handle' = [handle EXCEPT ![r] = [id |-> c, new |-> FALSE]]
    /\ UNCHANGED <<workers, minted, want, pc, buf, gone, op>>

(* ... and for one that presents the cookie c: an existing session is      *)
(* loaded to be refreshed, an unknown one replaced by a new one (the       *)
(* create flag is not looked at).                                          *)
ResolveCookie(r, c) ==
    /\ pc[r] = "servlet" /\ handle[r] = NoHandle /\ c \in minted
    /\ IF Present(c)
         THEN /\ buf' = [buf EXCEPT ![r] = store[c]]
              /\ handle' = [handle EXCEPT ![r] = [id |-> c, new |-> FALSE]]
              /\ Goto(r, "touch")
              /\ UNCHANGED <<store, minted, want>>
         ELSE \E s \in Sid : CreateBound(r, s)
    /\ UNCHANGED <<workers, gone, op>>

-----------------------------------------------------------------------------
(* SessionHandle. *)

(* mutate up to its save: load, and fail if the session is gone. *)
Load(r, d, change) ==
    /\ pc[r] = "servlet" /\ handle[r] # NoHandle /\ Present(handle[r].id)
    /\ buf' = [buf EXCEPT ![r] = d]
    /\ op' = [op EXCEPT ![r] = change]
    /\ Goto(r, "save")
    /\ UNCHANGED <<workers, store, minted, handle, gone, want>>

(* set_attribute and remove_attribute (v = Null). *)
SetAttribute(r, n, v) ==
    Load(r, [store[handle[r].id] EXCEPT ![n] = v], [name |-> n, value |-> v])

(* set_max_inactive_interval. *)
SetMaxInactiveInterval(r) == Load(r, store[handle[r].id], NoOp)

(* What the change a request is making does to a set of attributes. *)
Apply(r, attrs) ==
    [n \in Name |-> IF n = op[r].name THEN op[r].value ELSE attrs[n]]

(* Mutant: the save carries nothing but the attribute it sets. *)
SaveOwnOnly(r) ==
    /\ pc[r] \in {"touch", "save"}
    /\ store' = [store EXCEPT ![handle[r].id] = Apply(r, Fresh)]
    /\ want' = [want EXCEPT ![handle[r].id] = Apply(r, @)]
    /\ buf' = [buf EXCEPT ![r] = Absent]
    /\ op' = [op EXCEPT ![r] = NoOp]
    /\ Goto(r, "servlet")
    /\ UNCHANGED <<workers, minted, handle, gone>>

(* Mutant: the save goes to any session the webapp has. *)
SaveAnywhere(r) ==
    /\ pc[r] \in {"touch", "save"}
    /\ \E s \in minted : store' = [store EXCEPT ![s] = buf[r]]
    /\ want' = [want EXCEPT ![handle[r].id] = Apply(r, @)]
    /\ buf' = [buf EXCEPT ![r] = Absent]
    /\ op' = [op EXCEPT ![r] = NoOp]
    /\ Goto(r, "servlet")
    /\ UNCHANGED <<workers, minted, handle, gone>>

(* manager.save: an unconditional insert, of a session gone since, too. *)
Save(r) ==
    /\ pc[r] \in {"touch", "save"}
    /\ store' = [store EXCEPT ![handle[r].id] = buf[r]]
    /\ want' = [want EXCEPT ![handle[r].id] = Apply(r, @)]
    /\ buf' = [buf EXCEPT ![r] = Absent]
    /\ op' = [op EXCEPT ![r] = NoOp]
    /\ Goto(r, "servlet")
    /\ UNCHANGED <<workers, minted, handle, gone>>

Invalidate(r) ==
    /\ pc[r] = "servlet" /\ handle[r] # NoHandle
    /\ store' = [store EXCEPT ![handle[r].id] = Absent]
    /\ gone' = gone \cup {handle[r].id}
    /\ UNCHANGED <<workers, minted, pc, handle, buf, op, want>>

(* Mutant: the end of a request is not recorded as such. *)
FinishIdle(r) ==
    /\ pc[r] = "servlet"
    /\ Goto(r, "idle")
    /\ UNCHANGED <<workers, store, minted, handle, buf, gone, op, want>>

(* The request ends; nothing unregisters its handle. *)
Finish(r) ==
    /\ pc[r] = "servlet"
    /\ Goto(r, "done")
    /\ UNCHANGED <<workers, store, minted, handle, buf, gone, op, want>>

Next ==
    \E r \in Req :
         \/ Begin(r) \/ Save(r) \/ Invalidate(r) \/ Finish(r)
         \/ \E create \in BOOLEAN : ResolveNone(r, create)
         \/ \E c \in Sid : ResolveCookie(r, c)
         \/ \E n \in Name, v \in {r, Null} : SetAttribute(r, n, v)
         \/ SetMaxInactiveInterval(r)

Spec == Init /\ [][Next]_vars

-----------------------------------------------------------------------------
(* The types: every request is at a place of its servlet or over, and what *)
(* it holds and stores is a whole session.                                 *)
TypeOK ==
    /\ workers \in Workers
    /\ store \in [Sid -> Attrs \cup {Absent}] /\ buf \in [Req -> Attrs \cup {Absent}]
    /\ minted \subseteq Sid /\ gone \subseteq Sid
    /\ pc \in [Req -> {"new", "servlet", "touch", "save", "done"}]
    /\ handle \in [Req -> Handles]
    /\ op \in [Req -> [name : Name \cup {Null}, value : Val \cup {Null}]]
    /\ want \in [Sid -> Attrs]

(* SessionHandle: "concurrent requests for the same session observe each   *)
(* other's writes", so a stored session carries every change that returned.*)
WritesKept == \A s \in Sid : Present(s) => store[s] = want[s]

(* With one worker, requests that follow each other lose nothing.          *)
SerialWritesKept == workers = 1 => WritesKept

(* SessionHandle::invalidate: once it has returned, every accessor on any  *)
(* handle of the session fails; with one worker no later request stores    *)
(* the session again, whatever cookie it presents.                         *)
SerialGone == workers = 1 => \A s \in gone : ~Present(s)

(* Requests that run at the same time never leak a value into a session it *)
(* was not set on: every value found in a session was put there by a       *)
(* request whose handle names that session.                                *)
OwnValues ==
    \A s \in Sid, n \in Name :
       (Present(s) /\ store[s][n] # Null) => handle[store[s][n]].id = s

(* isNew and with it the Set-Cookie: every session that exists has been    *)
(* announced to a client, by the one request that created it.              *)
NewOnce ==
    \A s \in minted : Cardinality({r \in Req : handle[r] = [id |-> s, new |-> TRUE]}) = 1
(* Together: with one worker no attribute change is lost and an invalidated*)
(* session stays gone; with any number a request sees and saves only values*)
(* that were set in its own session, and a session is new to the one       *)
(* request that made it.                                                   *)
SessionsSerial == TypeOK /\ SerialWritesKept /\ SerialGone /\ OwnValues /\ NewOnce
=============================================================================
