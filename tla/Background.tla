----------------------------- MODULE Background ------------------------------
(***************************************************************************)
(* The container's background thread (tomcatrs-catalina background.rs): at *)
(* every interval it collects the deployed contexts of all hosts and       *)
(* compares the modification time of each WEB-INF with the one it          *)
(* remembers under the context's path.  It stops when the owner signals or *)
(* drops the channel.  Files and deployments change while a tick runs.     *)
(***************************************************************************)
EXTENDS Integers, FiniteSets

CONSTANTS
    Contexts,       \* contexts of all hosts, records [host, path]
    MaxTime,        \* bound on modification times; 0 is "no WEB-INF"
    MaxChanges,     \* bound on changes to files and deployments
    MaxTicks        \* bound on the ticks of a run

VARIABLES
    deployed,   \* contexts their hosts list; all reloadable
    mtime,      \* of WEB-INF on disk
    seen,       \* ReloadTracker.seen: path -> time, 0 when absent
    loop,       \* "idle", "tick", "stopped": where BackgroundEngine::run is
    round,      \* processors of the current tick still to be called
    bgsignal,     \* the watch channel: "none", "true", "dropped"
    changes, ticks,
    \* what the comparison of a context with its own past would have said
    own,        \* the time the last processor of this context read, 0 if none
    wrong       \* contexts once reported unchanged, or not reported changed

bgVars == <<deployed, mtime, seen, loop, round, bgsignal, changes, ticks, own, wrong>>

Touch(c) ==
    /\ changes < MaxChanges
    /\ \E t \in 0..MaxTime : t # mtime[c] /\ mtime' = [mtime EXCEPT ![c] = t]
    /\ changes' = changes + 1
    /\ UNCHANGED <<deployed, seen, loop, round, bgsignal, ticks, own, wrong>>

Redeploy(c) ==
    /\ changes < MaxChanges
    /\ deployed' = IF c \in deployed THEN deployed \ {c} ELSE deployed \cup {c}
    /\ changes' = changes + 1
    /\ UNCHANGED <<mtime, seen, loop, round, bgsignal, ticks, own, wrong>>

\* the timer: collect_processors keeps an Arc of every context
BackgroundTick ==
    /\ loop = "idle" /\ ticks < MaxTicks
    /\ loop' = "tick" /\ round' = deployed
    /\ ticks' = ticks + 1
    /\ UNCHANGED <<deployed, mtime, seen, bgsignal, changes, own, wrong>>

\* a slip: only the first time is kept
TrackerUpdateFirst(path, time) == IF seen[path] = 0 THEN [seen EXCEPT ![path] = time] ELSE seen

\* ReloadTracker::update: insert, and the value that was there
TrackerUpdate(path, time) == [seen EXCEPT ![path] = time]

WouldReload(path, time) == seen[path] \notin {0, time}

\* ContextBackgroundProcessor::background_process
Process(c) ==
    LET time == mtime[c]
        changed == own[c] \notin {0, time}
    IN  /\ loop = "tick" /\ c \in round
        /\ round' = round \ {c}
        /\ IF time = 0 THEN UNCHANGED <<seen, own, wrong>>
           ELSE /\ seen' = TrackerUpdate(c.path, time)
                /\ own' = [own EXCEPT ![c] = time]
                /\ wrong' = IF WouldReload(c.path, time) # changed
                            THEN wrong \cup {c} ELSE wrong
        /\ UNCHANGED <<deployed, mtime, loop, bgsignal, changes, ticks>>

\* the Periodic event, and back to select!
EndTick ==
    /\ loop = "tick" /\ round = {}
    /\ loop' = "idle"
    /\ UNCHANGED <<deployed, mtime, seen, round, bgsignal, changes, ticks, own, wrong>>

Signal(what) ==
    /\ bgsignal = "none"
    /\ bgsignal' = what
    /\ UNCHANGED <<deployed, mtime, seen, loop, round, changes, ticks, own, wrong>>

\* a slip: a failed changed() is taken for no change
SeeShutdownValue ==
    /\ loop = "idle" /\ bgsignal = "true"
    /\ loop' = "stopped"
    /\ UNCHANGED <<deployed, mtime, seen, round, bgsignal, changes, ticks, own, wrong>>

\* shutdown.changed(): true, or the sender is gone
SeeShutdown ==
    /\ loop = "idle" /\ bgsignal \in {"true", "dropped"}
    /\ loop' = "stopped"
    /\ UNCHANGED <<deployed, mtime, seen, round, bgsignal, changes, ticks, own, wrong>>

BgInit ==
    /\ deployed = Contexts
    /\ mtime \in [Contexts -> 0..1]
    /\ seen = [p \in {c.path : c \in Contexts} |-> 0]
    /\ loop = "idle" /\ round = {} /\ bgsignal = "none"
    /\ changes = 0 /\ ticks = 0
    /\ own = [c \in Contexts |-> 0] /\ wrong = {}

BgNext ==
    \/ \E c \in Contexts : Touch(c) \/ Redeploy(c) \/ Process(c)
    \/ BackgroundTick \/ EndTick \/ SeeShutdown
    \/ \E what \in {"true", "dropped"} : Signal(what)

(***************************************************************************)
(* The thread is scheduled, and select! picks among ready branches at      *)
(* random, so the channel is not passed over for ever.                     *)
(***************************************************************************)
BgFairness ==
    /\ WF_bgVars(EndTick \/ \E c \in Contexts : Process(c))
    /\ SF_bgVars(SeeShutdown)

BgSpec == BgInit /\ [][BgNext]_bgVars /\ BgFairness

(***************************************************************************)
(* Properties.                                                             *)
(***************************************************************************)
\* A context is reported when and only when its WEB-INF differs from what the
\* previous tick saw of it, through deletions and redeployments; only a context
\* whose path another host uses too may be misjudged, since the tracker is keyed
\* by path (background.rs l.150-155).
ReportsOwnChanges ==
    \A c \in wrong : \E d \in Contexts \ {c} : d.path = c.path

\* The loop ends once the owner signals or drops its handle, also in the middle
\* of a tick (background.rs run).
Signalled == bgsignal # "none"
LoopEnded == loop = "stopped"
=============================================================================
