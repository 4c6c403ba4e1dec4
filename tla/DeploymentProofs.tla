-------------------------- MODULE DeploymentProofs --------------------------
(***************************************************************************)
(* Theorems about Deployment, for any paths, descriptors, background       *)
(* actors and manager requests, and any changes of the disk.               *)
(***************************************************************************)
EXTENDS Deployment, FiniteSetTheorems, FunctionTheorems, SequenceTheorems, TLAPS

(***************************************************************************)
(* The inductive invariant: what the disk, the registry and the actors     *)
(* hold, and what each place of an actor says of its registers.            *)
(***************************************************************************)
ContextRec == [path : Apps, reloadable : BOOLEAN, state : States,
               wired : BOOLEAN, wrappers : Seq(States)]
Unit == [kind : {"absent", "dir", "war"}, xml : Descriptors \cup {"none"}, mtime : Nat]
JobOps == {"none", "init", "start", "stop", "destroy"}
JobRets == {"idle", "reopen", "observe", "initing", "starting", "stopping", "destroying"}
JobRec == [op : JobOps, id : Nat, n : Nat, step : Nat, ret : JobRets]
Places == {"init", "initing", "start", "starting", "running", "stop", "stopping", "destroy",
           "destroying", "exit", "idle", "unit", "open", "deploy", "observe", "reopen"}
Scanning == {"unit", "open", "deploy"}

DiskOK ==
  /\ clock \in 0 .. MaxClock
  /\ disk \in [Apps -> Unit] /\ \A p \in Apps : disk[p].mtime <= clock
  /\ seen \in [Apps -> Int] /\ \A p \in Apps : seen[p] = NoTime \/ seen[p] \in 0 .. clock

\* A path leads to a context that was built for it.
RegistryOK ==
  /\ contexts \in Seq(ContextRec)
  /\ host \in [Apps -> Nat]
  /\ \A p \in Apps : host[p] # None => host[p] \in Ids /\ contexts[host[p]].path = p

LocalsOK ==
  /\ pc \in [Actors -> Places] /\ job \in [Actors -> JobRec]
  /\ todo \in [Actors -> SUBSET Nat] /\ cur \in [Actors -> Nat \cup SUBSET Nat]

\* Who scans, reopens or is in a cascade works on a path or a context there is.
ActorOK(a) ==
  /\ pc[a] \in Scanning => \/ a = "watcher"
                           \/ a = "manager" /\ "deploy" \in Requests
  /\ pc[a] \in Scanning => todo[a] \subseteq Apps
  /\ pc[a] = "open" => cur[a] \in Apps
  /\ pc[a] = "deploy" => cur[a] \in Ids
  /\ job[a].op = "none" => job[a] = NoJob
  /\ job[a].op # "none" => job[a].id \in Ids
  /\ a = "main" => cur[a] \subseteq Apps
  /\ a = "watcher" => job[a] = NoJob
  /\ a = "redeployer" =>
       /\ pc[a] \in {"idle", "observe", "reopen"}
       /\ job[a].ret \in {"idle", "observe", "reopen"}
       /\ pc[a] = "reopen" \/ job[a].ret = "reopen" => cur[a] \in Ids
       /\ pc[a] = "reopen" => job[a] = NoJob
  /\ a # "redeployer" => pc[a] # "reopen" /\ job[a].ret # "reopen"

DeployInv == DiskOK /\ RegistryOK /\ LocalsOK /\ \A a \in Actors : ActorOK(a)

\* What every step does to the contexts: none is lost or moved to another path,
\* and a wired one keeps its wrappers.
Grows(before, after) ==
  /\ after \in Seq(ContextRec)
  /\ Len(before) <= Len(after)
  /\ \A i \in 1 .. Len(before) :
       /\ after[i].path = before[i].path
       /\ before[i].wired => Len(after[i].wrappers) = Len(before[i].wrappers)

(* Replacing one context by one of the same path, and of as many wrappers  *)
(* if it was wired, is such a step.                                        *)
LEMMA ReplacedGrows ==
  ASSUME NEW cs \in Seq(ContextRec), NEW i \in 1 .. Len(cs), NEW c \in ContextRec,
         c.path = cs[i].path,
         cs[i].wired => Len(c.wrappers) = Len(cs[i].wrappers)
  PROVE  Grows(cs, [cs EXCEPT ![i] = c])
<1> DEFINE ds == [cs EXCEPT ![i] = c]
<1>1. /\ ds \in Seq(ContextRec) /\ Len(ds) = Len(cs)
      /\ \A j \in 1 .. Len(cs) : ds[j] = IF j = i THEN c ELSE cs[j]
  BY ExceptSeq
<1> QED
  BY <1>1 DEF Grows

Kept == DeployInv' /\ Grows(contexts, contexts')

(* Nothing changes in what an actor's place says when another one moves.   *)
LEMMA OthersOK ==
  ASSUME DeployInv, Grows(contexts, contexts'), NEW b \in Actors,
         pc'[b] = pc[b], todo'[b] = todo[b], cur'[b] = cur[b], job'[b] = job[b]
  PROVE  ActorOK(b)'
<1>1. ActorOK(b) /\ contexts \in Seq(ContextRec) /\ contexts' \in Seq(ContextRec)
  BY DEF DeployInv, RegistryOK, Grows
<1>2. Len(contexts) \in Nat /\ Len(contexts') \in Nat /\ Len(contexts) <= Len(contexts')
  BY <1>1, LenProperties DEF Grows
<1>3. Ids \subseteq Ids'
  BY <1>2 DEF Ids
<1> QED
  BY <1>1, <1>3 DEF ActorOK

(* A path keeps leading to its context when the contexts only grow.        *)
LEMMA RegistryKept ==
  ASSUME RegistryOK, Grows(contexts, contexts'), host' = host
  PROVE  RegistryOK'
<1>1. Len(contexts) \in Nat /\ Len(contexts') \in Nat /\ Len(contexts) <= Len(contexts')
  BY LenProperties DEF RegistryOK, Grows
<1> QED
  BY <1>1 DEF RegistryOK, Grows, Ids

LEMMA Unmoved ==
  ASSUME RegistryOK, contexts' = contexts
  PROVE  Grows(contexts, contexts')
BY LenProperties DEF RegistryOK, Grows

(* A step of one actor that leaves the disk and the map alone is judged by *)
(* the contexts it leaves and by what its own place then says.             *)
LEMMA OwnStep ==
  ASSUME DeployInv, NEW a \in Actors, UNCHANGED <<disk, clock, seen, host>>,
         Grows(contexts, contexts'), LocalsOK', ActorOK(a)',
         \A b \in Actors : b # a => /\ pc'[b] = pc[b] /\ todo'[b] = todo[b]
                                    /\ cur'[b] = cur[b] /\ job'[b] = job[b]
  PROVE  Kept
<1>1. DiskOK'
  BY DEF DeployInv, DiskOK
<1>2. RegistryOK'
  BY RegistryKept DEF DeployInv
<1>3. \A b \in Actors : ActorOK(b)'
  BY OthersOK
<1> QED
  BY <1>1, <1>2, <1>3 DEF Kept, DeployInv

(***************************************************************************)
(* The cascade over one context.                                           *)
(***************************************************************************)
LEMMA CascadeKeeps ==
  ASSUME DeployInv, NEW a \in Actors, Cascade(a)
  PROVE  Kept
<1> DEFINE j == job[a]
           c == contexts[j.id]
<1>1. /\ contexts \in Seq(ContextRec) /\ j \in JobRec /\ j.op # "none" /\ j.id \in Ids
      /\ c \in ContextRec /\ j.step \in Nat /\ j.n \in Nat
      /\ a # "watcher" /\ ActorOK(a) /\ LocalsOK
  <2>1. /\ contexts \in Seq(ContextRec) /\ j \in JobRec /\ j.op # "none" /\ ActorOK(a)
        /\ LocalsOK
    BY DEF Cascade, JobEnter, JobWrapper, JobLeave, DeployInv, RegistryOK, LocalsOK
  <2>2. j.id \in Ids
    BY <2>1 DEF ActorOK
  <2>3. c \in ContextRec
    BY <2>1, <2>2, ElementOfSeq DEF Ids
  <2>4. a # "watcher"
    BY <2>1 DEF ActorOK, NoJob
  <2> QED
    BY <2>1, <2>2, <2>3, <2>4 DEF JobRec
<1>2. UNCHANGED <<disk, clock, seen, host, todo, cur>>
  BY DEF Cascade, JobEnter, JobWrapper, JobLeave
<1>3. Grows(contexts, contexts')
  <2>1. ASSUME NEW st \in States
        PROVE  Grows(contexts, [contexts EXCEPT ![j.id].state = st])
    <3> DEFINE d == [c EXCEPT !.state = st]
    <3>1. d \in ContextRec /\ d.path = c.path /\ d.wrappers = c.wrappers
      BY <1>1 DEF ContextRec
    <3> HIDE DEF d
    <3>2. Grows(contexts, [contexts EXCEPT ![j.id] = d])
      BY <1>1, <3>1, ReplacedGrows DEF Ids
    <3> QED
      BY <3>2 DEF d
  <2>2. CASE JobEnter(a)
    BY <1>1, <2>1, <2>2, Unmoved DEF JobEnter, DeployInv, Transitional, States
  <2>3. CASE JobWrapper(a)
    <3> DEFINE ws == [c.wrappers EXCEPT ![j.step] = Final(j.op)]
               d == [c EXCEPT !.wrappers = ws]
    <3>1. Final(j.op) \in States /\ c.wrappers \in Seq(States)
      BY <1>1 DEF Final, States, JobRec, JobOps, ContextRec
    <3>2. ws \in Seq(States) /\ Len(ws) = Len(c.wrappers)
      <4>1. CASE j.step \in 1 .. Len(c.wrappers)
        BY <3>1, <4>1, ExceptSeq
      <4>2. CASE j.step \notin 1 .. Len(c.wrappers)
        <5>1. DOMAIN c.wrappers = 1 .. Len(c.wrappers)
          BY <3>1, LenProperties
        <5>2. ws = c.wrappers
          BY <3>1, <4>2, <5>1
        <5> QED
          BY <3>1, <5>2
      <4> QED
        BY <4>1, <4>2
    <3> HIDE DEF ws
    <3>3. d \in ContextRec /\ d.path = c.path /\ Len(d.wrappers) = Len(c.wrappers)
      BY <1>1, <3>2 DEF ContextRec
    <3> HIDE DEF d
    <3>4. Grows(contexts, [contexts EXCEPT ![j.id] = d])
      BY <1>1, <3>3, ReplacedGrows DEF Ids
    <3>5. contexts' = [contexts EXCEPT ![j.id] = d]
      BY <2>3 DEF JobWrapper, d, ws
    <3> QED
      BY <3>4, <3>5
  <2>4. CASE JobLeave(a)
    BY <1>1, <2>1, <2>4 DEF JobLeave, Final, States, JobRec, JobOps
  <2> QED
    BY <2>2, <2>3, <2>4 DEF Cascade
<1>4. Ids \subseteq Ids'
  <2>1. Len(contexts) \in Nat /\ Len(contexts') \in Nat /\ Len(contexts) <= Len(contexts')
    BY <1>1, <1>3, LenProperties DEF Grows
  <2> QED
    BY <2>1 DEF Ids
<1>5. CASE JobEnter(a) \/ JobWrapper(a)
  <2> DEFINE q == job'[a]
  <2>1. /\ job' = [job EXCEPT ![a] = q] /\ pc' = pc
        /\ q \in JobRec /\ q.op = j.op /\ q.id = j.id /\ q.ret = j.ret
    <3>1. CASE JobEnter(a)
      <4>1. Len(c.wrappers) \in Nat
        BY <1>1, LenProperties DEF ContextRec
      <4>2. job' = [job EXCEPT ![a] = [j EXCEPT !.n = Len(c.wrappers), !.step = 1]] /\ pc' = pc
        BY <1>1, <3>1 DEF JobEnter, LocalsOK
      <4>3. q = [j EXCEPT !.n = Len(c.wrappers), !.step = 1] /\ j \in JobRec
        BY <1>1, <4>2 DEF LocalsOK
      <4>4. job' = [job EXCEPT ![a] = q]
        BY <4>2, <4>3
      <4> HIDE DEF j, c, q
      <4>5. q \in JobRec /\ q.op = j.op /\ q.id = j.id /\ q.ret = j.ret
        BY <4>1, <4>3 DEF JobRec
      <4> QED
        BY <4>2, <4>4, <4>5
    <3>2. CASE JobWrapper(a)
      <4>1. job' = [job EXCEPT ![a] = [j EXCEPT !.step = @ + 1]] /\ pc' = pc
        BY <1>1, <3>2 DEF JobWrapper, LocalsOK
      <4>2. /\ q = [j EXCEPT !.step = j.step + 1] /\ j.step + 1 \in Nat
            /\ j \in JobRec /\ 0 \in Nat
        BY <1>1, <4>1 DEF LocalsOK
      <4>3. job' = [job EXCEPT ![a] = q]
        BY <4>1, <4>2
      <4> HIDE DEF j, c, q
      <4>4. q \in JobRec /\ q.op = j.op /\ q.id = j.id /\ q.ret = j.ret
        BY <4>2 DEF JobRec
      <4> QED
        BY <4>1, <4>3, <4>4
    <3> QED
      BY <1>5, <3>1, <3>2
  <2> HIDE DEF q
  <2>2. LocalsOK'
    BY <1>1, <1>2, <2>1 DEF LocalsOK
  <2>3. ActorOK(a)'
    <3>1. job'[a] = q /\ pc'[a] = pc[a] /\ todo'[a] = todo[a] /\ cur'[a] = cur[a]
      BY <1>1, <1>2, <2>1 DEF LocalsOK
    <3>2. pc[a] # "reopen"
      BY <1>1 DEF ActorOK, NoJob
    <3> QED
      BY <1>1, <1>4, <2>1, <3>1, <3>2 DEF ActorOK
  <2> QED
    BY <1>1, <1>2, <1>3, <2>1, <2>2, <2>3, OwnStep DEF LocalsOK
<1>6. CASE JobLeave(a)
  <2>1. /\ job' = [job EXCEPT ![a] = NoJob] /\ pc' = [pc EXCEPT ![a] = j.ret]
        /\ j.ret \in Places \ Scanning /\ NoJob \in JobRec
    BY <1>1, <1>6 DEF JobLeave, JobRec, JobOps, JobRets, Places, Scanning, NoJob, None
  <2>2. LocalsOK'
    BY <1>1, <1>2, <2>1 DEF LocalsOK
  <2>3. ActorOK(a)'
    <3>1. job'[a] = NoJob /\ pc'[a] = j.ret /\ todo'[a] = todo[a] /\ cur'[a] = cur[a]
      BY <1>1, <1>2, <2>1 DEF LocalsOK
    <3> QED
      BY <1>1, <1>4, <2>1, <3>1 DEF ActorOK, NoJob, Scanning
  <2> QED
    BY <1>1, <1>2, <1>3, <2>1, <2>2, <2>3, OwnStep DEF LocalsOK
<1> QED
  BY <1>5, <1>6 DEF Cascade

(***************************************************************************)
(* main's walk over the host.                                              *)
(***************************************************************************)
LEMMA JobBegun ==
  ASSUME NEW op \in JobOps, NEW id \in Nat, NEW ret \in JobRets
  PROVE  [op |-> op, id |-> id, n |-> 0, step |-> 0, ret |-> ret] \in JobRec
BY DEF JobRec

(* What a registered path leads to.                                        *)
LEMMA FoundContext ==
  ASSUME DeployInv, NEW p \in Apps, host[p] # None
  PROVE  host[p] \in Ids /\ host[p] \in Nat /\ host[p] \in 1 .. Len(contexts)
BY DEF DeployInv, RegistryOK, Ids

LEMMA MainKeeps ==
  ASSUME DeployInv,
         \/ HostBegin \/ Signal
         \/ \E op \in {"init", "start", "stop", "destroy"} :
              (\E p \in Apps : HostVisit(op, p)) \/ HostEnd(op)
  PROVE  Kept
<1>1. "main" \in Actors /\ ActorOK("main") /\ LocalsOK
  BY DEF Actors, DeployInv
<1>2. UNCHANGED <<disk, clock, host, contexts, seen>>
  BY DEF HostBegin, Signal, HostVisit, HostEnd
<1>3. Grows(contexts, contexts')
  BY <1>2, Unmoved DEF DeployInv
<1>4. Ids' = Ids
  BY <1>2 DEF Ids
<1>5. ASSUME NEW x \in Places \ (Scanning \cup {"reopen"}), pc' = [pc EXCEPT !["main"] = x],
             NEW t \in SUBSET Nat, todo' = [todo EXCEPT !["main"] = t] \/ todo' = todo,
             NEW v, cur' = [cur EXCEPT !["main"] = {}] \/ cur' = cur, job' = job
      PROVE  Kept
  <2>1. LocalsOK'
    <3>1. todo' \in [Actors -> SUBSET Nat]
      BY <1>1, <1>5 DEF LocalsOK
    <3>2. cur' \in [Actors -> Nat \cup SUBSET Nat]
      BY <1>1, <1>5 DEF LocalsOK
    <3> QED
      BY <1>1, <1>5, <3>1, <3>2 DEF LocalsOK
  <2>2. pc'["main"] = x
    BY <1>1, <1>5 DEF LocalsOK
  <2>3. ActorOK("main")'
    <3>1. cur'["main"] = {} \/ cur'["main"] = cur["main"]
      BY <1>1, <1>5 DEF LocalsOK
    <3> QED
      BY <1>1, <1>4, <1>5, <2>2, <3>1 DEF ActorOK, Scanning
  <2>4. \A b \in Actors : b # "main" => /\ pc'[b] = pc[b] /\ todo'[b] = todo[b]
                                       /\ cur'[b] = cur[b] /\ job'[b] = job[b]
    BY <1>1, <1>5 DEF LocalsOK
  <2> QED
    BY <1>1, <1>2, <1>3, <2>1, <2>3, <2>4, OwnStep
<1>6. CASE HostBegin
  <2> DEFINE x == CASE pc["main"] = "init" -> "initing" [] pc["main"] = "start" -> "starting"
                    [] pc["main"] = "stop" -> "stopping" [] pc["main"] = "destroy" -> "destroying"
  <2>1. /\ pc' = [pc EXCEPT !["main"] = x] /\ todo' = [todo EXCEPT !["main"] = Registered]
        /\ cur' = [cur EXCEPT !["main"] = {}] /\ job' = job
    BY <1>6 DEF HostBegin
  <2>2. x \in Places \ (Scanning \cup {"reopen"})
    BY <1>6 DEF HostBegin, Places, Scanning
  <2>3. Registered \in SUBSET Nat
    BY DeploymentAssumption DEF Registered
  <2> HIDE DEF x
  <2> QED
    BY <1>5, <2>1, <2>2, <2>3
<1>7. CASE Signal
  <2>1. "stop" \in Places \ (Scanning \cup {"reopen"}) /\ {} \in SUBSET Nat
    BY DEF Places, Scanning
  <2> QED
    BY <1>5, <1>7, <2>1 DEF Signal
<1>8. ASSUME NEW op \in {"init", "start", "stop", "destroy"}, HostEnd(op)
      PROVE  Kept
  <2>1. Following(op) \in Places \ (Scanning \cup {"reopen"}) /\ {} \in SUBSET Nat
    BY DEF Following, Places, Scanning
  <2> QED
    BY <1>5, <1>8, <2>1 DEF HostEnd
<1>9. ASSUME NEW op \in {"init", "start", "stop", "destroy"}, NEW p \in Apps, HostVisit(op, p)
      PROVE  Kept
  <2> DEFINE q == [op |-> op, id |-> host[p], n |-> 0, step |-> 0, ret |-> pc["main"]]
             v == cur["main"] \cup {p}
  <2>1. /\ job' = [job EXCEPT !["main"] = q] /\ cur' = [cur EXCEPT !["main"] = v]
        /\ UNCHANGED <<pc, todo>>
    BY <1>9 DEF HostVisit, BeginJob
  <2>2. op \in JobOps /\ pc["main"] \in JobRets \ {"reopen"} /\ pc["main"] \notin Scanning
    BY <1>9 DEF HostVisit, Walking, JobOps, JobRets, Scanning
  <2>3. host[p] # None /\ host[p] \in Ids /\ host[p] \in Nat
    BY <1>9, FoundContext DEF HostVisit, Registered
  <2>4. q \in JobRec /\ q.op = op /\ q.id = host[p] /\ q.ret = pc["main"]
    BY <2>2, <2>3, JobBegun
  <2>5. v \in Nat \cup SUBSET Nat /\ v \subseteq Apps
    BY <1>1, DeploymentAssumption DEF ActorOK
  <2> HIDE DEF q, v
  <2>6. LocalsOK'
    BY <1>1, <2>1, <2>4, <2>5 DEF LocalsOK
  <2>7. job'["main"] = q /\ pc'["main"] = pc["main"] /\ op # "none" /\ cur'["main"] = v
    BY <1>1, <2>1 DEF LocalsOK
  <2>8. ActorOK("main")'
    BY <1>1, <1>4, <2>1, <2>5, <2>2, <2>3, <2>4, <2>7 DEF ActorOK, Scanning
  <2>9. \A b \in Actors : b # "main" => /\ pc'[b] = pc[b] /\ todo'[b] = todo[b]
                                       /\ cur'[b] = cur[b] /\ job'[b] = job[b]
    BY <1>1, <2>1 DEF LocalsOK
  <2> QED
    BY <1>1, <1>2, <1>3, <2>6, <2>8, <2>9, OwnStep
<1> QED
  BY <1>6, <1>7, <1>8, <1>9

(***************************************************************************)
(* HostDeployer::deploy_all, by whoever runs it.                           *)
(***************************************************************************)

(* Context::deploy gives back the context it got, or that context wired    *)
(* for the first time.                                                     *)
LEMMA DescriptorDeployed ==
  ASSUME NEW c \in ContextRec
  PROVE  /\ DeployDescriptor(c) \in ContextRec /\ DeployDescriptor(c).path = c.path
         /\ Deploy(c) \in ContextRec /\ Deploy(c).path = c.path
         /\ c.wired => Deploy(c) = c
<1>1. Declared(c.path) \in Seq(States)
  <2>1. CASE disk[c.path].xml = "good"
    <3>1. \A i \in 1 .. Servlets : "New" \in States
      BY DEF States
    <3>2. [i \in 1 .. Servlets |-> "New"] \in Seq(States)
      BY <3>1, DeploymentAssumption, IsASeq
    <3> QED
      BY <2>1, <3>2 DEF Declared
  <2>2. CASE disk[c.path].xml # "good"
    BY <2>2 DEF Declared
  <2> QED
    BY <2>1, <2>2
<1>2. DeployDescriptor(c) \in ContextRec /\ DeployDescriptor(c).path = c.path
  <2> DEFINE ws == Declared(c.path)
  <2>1. DeployDescriptor(c) = [c EXCEPT !.wired = TRUE, !.wrappers = ws]
    BY DEF DeployDescriptor
  <2> HIDE DEF ws
  <2> QED
    BY <1>1, <2>1 DEF ContextRec, ws
<1>3. c.wired => Deploy(c) = c
  BY DEF Deploy, DeploySucceeds, Wires
<1> QED
  BY <1>2, <1>3 DEF Deploy

(* Context::deploy on a context of the host, in place.                     *)
LEMMA DeployGrows ==
  ASSUME RegistryOK, NEW i \in Ids
  PROVE  Grows(contexts, [contexts EXCEPT ![i] = Deploy(@)])
<1>1. contexts[i] \in ContextRec /\ contexts \in Seq(ContextRec) /\ i \in 1 .. Len(contexts)
  BY ElementOfSeq DEF RegistryOK, Ids
<1> DEFINE d == Deploy(contexts[i])
<1>2. /\ d \in ContextRec /\ d.path = contexts[i].path
      /\ contexts[i].wired => Len(d.wrappers) = Len(contexts[i].wrappers)
  BY <1>1, DescriptorDeployed
<1> HIDE DEF d
<1>3. Grows(contexts, [contexts EXCEPT ![i] = d])
  BY <1>1, <1>2, ReplacedGrows
<1> QED
  BY <1>3 DEF d

(* The steps of a scan leave its actor a scanner, or send it back to rest. *)
LEMMA ScanKeeps ==
  ASSUME DeployInv, NEW a \in Actors,
         \/ DeployAll(a)
         \/ (a = "watcher" \/ (a = "manager" /\ "deploy" \in Requests)) /\ Scan(a)
  PROVE  Kept
<1>1. /\ ActorOK(a) /\ LocalsOK /\ RegistryOK /\ UNCHANGED <<disk, clock, seen>>
      /\ contexts \in Seq(ContextRec) /\ Len(contexts) \in Nat
  BY LenProperties DEF DeployInv, RegistryOK, Scan, DeployAll, NextUnit, OpenUnit, DeployUnit,
     ScanDone
<1>2. a = "watcher" \/ (a = "manager" /\ "deploy" \in Requests)
  <2>1. CASE DeployAll(a)
    <3>1. pc[a] \in Scanning
      BY <2>1 DEF DeployAll, NextUnit, OpenUnit, DeployUnit, ScanDone, Scanning
    <3> QED
      BY <1>1, <3>1 DEF ActorOK
  <2>2. CASE ~DeployAll(a)
    BY <2>2
  <2> QED
    BY <2>1, <2>2
<1>3. /\ "idle" \in Places /\ "unit" \in Places /\ "open" \in Places /\ "deploy" \in Places
      /\ SUBSET Apps \subseteq SUBSET Nat /\ Apps \subseteq Nat
  BY DeploymentAssumption DEF Places
<1>4. ASSUME NEW x \in Scanning \cup {"idle"}, pc'[a] = x, todo'[a] \subseteq Apps,
             x = "open" => cur'[a] \in Apps, x = "deploy" => cur'[a] \in Ids',
             job'[a] = job[a], Grows(contexts, contexts')
      PROVE  ActorOK(a)'
  <2>1. Ids \subseteq Ids'
    BY <1>1, <1>4, LenProperties DEF Grows, Ids
  <2> QED
    BY <1>1, <1>2, <1>4, <2>1 DEF ActorOK, Scanning
<1>5. CASE Scan(a) \/ ScanDone(a) \/ NextUnit(a)
  <2>1. Grows(contexts, contexts') /\ UNCHANGED <<contexts, host, job>>
    BY <1>1, <1>5, Unmoved DEF Scan, ScanDone, NextUnit
  <2>2. CASE Scan(a)
    <3> DEFINE t == {p \in Apps : disk[p].kind # "absent"}
    <3>1. pc' = [pc EXCEPT ![a] = "unit"] /\ todo' = [todo EXCEPT ![a] = t] /\ cur' = cur
      BY <2>2 DEF Scan
    <3>2. t \in SUBSET Apps /\ "unit" \in Scanning \cup {"idle"}
      BY DEF Scanning
    <3>3. cur[a] \in Nat \cup SUBSET Nat
      BY <1>1 DEF LocalsOK
    <3> HIDE DEF t
    <3>4. /\ LocalsOK' /\ pc'[a] = "unit" /\ todo'[a] = t /\ job'[a] = job[a]
          /\ \A b \in Actors : b # a => /\ pc'[b] = pc[b] /\ todo'[b] = todo[b]
                                        /\ cur'[b] = cur[b] /\ job'[b] = job[b]
      BY <1>1, <1>3, <2>1, <3>1, <3>2, <3>3 DEF LocalsOK
    <3>5. ActorOK(a)'
      BY <1>4, <2>1, <3>2, <3>4
    <3> QED
      BY <1>1, <2>1, <3>4, <3>5, OwnStep
  <2>3. CASE ScanDone(a)
    <3>1. pc' = [pc EXCEPT ![a] = "idle"] /\ todo' = todo /\ cur' = cur /\ todo[a] = {}
      BY <2>3 DEF ScanDone
    <3>2. todo[a] \in SUBSET Apps /\ "idle" \in Scanning \cup {"idle"}
      BY <3>1
    <3>3. cur[a] \in Nat \cup SUBSET Nat
      BY <1>1 DEF LocalsOK
    <3>4. /\ LocalsOK' /\ pc'[a] = "idle" /\ todo'[a] = todo[a] /\ job'[a] = job[a]
          /\ \A b \in Actors : b # a => /\ pc'[b] = pc[b] /\ todo'[b] = todo[b]
                                        /\ cur'[b] = cur[b] /\ job'[b] = job[b]
      BY <1>1, <1>3, <2>1, <3>1, <3>2, <3>3 DEF LocalsOK
    <3>5. ActorOK(a)'
      BY <1>4, <2>1, <3>2, <3>4
    <3> QED
      BY <1>1, <2>1, <3>4, <3>5, OwnStep
  <2>4. CASE NextUnit(a)
    <3>1. PICK p \in todo[a] :
            /\ todo' = [todo EXCEPT ![a] = @ \ {p}]
            /\ IF host[p] # None THEN UNCHANGED <<pc, cur>>
               ELSE cur' = [cur EXCEPT ![a] = p] /\ pc' = [pc EXCEPT ![a] = "open"]
      BY <2>4 DEF NextUnit
    <3> DEFINE t == todo[a] \ {p}
    <3>2. /\ pc[a] = "unit" /\ todo[a] \subseteq Apps /\ p \in Apps
          /\ p \in Nat \cup SUBSET Nat /\ t \in SUBSET Apps
          /\ todo' = [todo EXCEPT ![a] = t] /\ pc = [pc EXCEPT ![a] = "unit"]
      BY <1>1, <2>4, <3>1, DeploymentAssumption DEF NextUnit, ActorOK, Scanning, LocalsOK
    <3>3. cur[a] \in Nat \cup SUBSET Nat /\ {"open", "unit"} \subseteq Scanning \cup {"idle"}
      BY <1>1 DEF LocalsOK, Scanning
    <3> HIDE DEF t
    <3>4. CASE host[p] # None
      <4>1. /\ LocalsOK' /\ pc'[a] = "unit" /\ todo'[a] = t /\ job'[a] = job[a]
            /\ \A b \in Actors : b # a => /\ pc'[b] = pc[b] /\ todo'[b] = todo[b]
                                          /\ cur'[b] = cur[b] /\ job'[b] = job[b]
        BY <1>1, <1>3, <2>1, <3>1, <3>2, <3>3, <3>4 DEF LocalsOK
      <4>2. ActorOK(a)'
        BY <1>4, <2>1, <3>2, <3>3, <4>1
      <4> QED
        BY <1>1, <2>1, <4>1, <4>2, OwnStep
    <3>5. CASE host[p] = None
      <4>1. /\ LocalsOK' /\ pc'[a] = "open" /\ todo'[a] = t /\ job'[a] = job[a] /\ cur'[a] = p
            /\ \A b \in Actors : b # a => /\ pc'[b] = pc[b] /\ todo'[b] = todo[b]
                                          /\ cur'[b] = cur[b] /\ job'[b] = job[b]
        BY <1>1, <1>3, <2>1, <3>1, <3>2, <3>3, <3>5 DEF LocalsOK
      <4>2. ActorOK(a)'
        BY <1>4, <2>1, <3>2, <3>3, <4>1
      <4> QED
        BY <1>1, <2>1, <4>1, <4>2, OwnStep
    <3> QED
      BY <3>4, <3>5
  <2> QED
    BY <1>5, <2>2, <2>3, <2>4
<1>6. CASE DeployUnit(a)
  <2>1. /\ pc[a] = "deploy" /\ cur[a] \in Ids /\ todo[a] \subseteq Apps
        /\ contexts' = [contexts EXCEPT ![cur[a]] = Deploy(@)]
        /\ pc' = [pc EXCEPT ![a] = "unit"] /\ cur' = [cur EXCEPT ![a] = None]
        /\ UNCHANGED <<host, job, todo>>
    BY <1>1, <1>6 DEF DeployUnit, ActorOK, Scanning
  <2>2. Grows(contexts, contexts')
    BY <1>1, <2>1, DeployGrows
  <2>3. None \in Nat \cup SUBSET Nat /\ "unit" \in Scanning \cup {"idle"}
    BY DEF None, Scanning
  <2>4. /\ LocalsOK' /\ pc'[a] = "unit" /\ todo'[a] = todo[a] /\ job'[a] = job[a]
        /\ \A b \in Actors : b # a => /\ pc'[b] = pc[b] /\ todo'[b] = todo[b]
                                      /\ cur'[b] = cur[b] /\ job'[b] = job[b]
    BY <1>1, <1>3, <2>1, <2>3 DEF LocalsOK
  <2>5. ActorOK(a)'
    BY <1>4, <2>1, <2>2, <2>3, <2>4
  <2> QED
    BY <1>1, <2>1, <2>2, <2>4, <2>5, OwnStep
<1>7. CASE OpenUnit(a)
  <2> DEFINE p == cur[a]
             c == NewContext(p, FALSE)
  <2>1. /\ pc[a] = "open" /\ p \in Apps /\ todo[a] \subseteq Apps /\ p \in Nat
        /\ UNCHANGED <<job, todo>>
    BY <1>1, <1>7, DeploymentAssumption DEF OpenUnit, ActorOK, Scanning
  <2>2. CASE ~Opens(p)
    <3>1. pc' = [pc EXCEPT ![a] = "unit"] /\ cur' = [cur EXCEPT ![a] = None]
          /\ UNCHANGED <<host, contexts>>
      BY <1>7, <2>2 DEF OpenUnit
    <3>2. None \in Nat \cup SUBSET Nat /\ "unit" \in Scanning \cup {"idle"}
      BY DEF None, Scanning
    <3>3. /\ LocalsOK' /\ pc'[a] = "unit" /\ todo'[a] = todo[a] /\ job'[a] = job[a]
          /\ \A b \in Actors : b # a => /\ pc'[b] = pc[b] /\ todo'[b] = todo[b]
                                        /\ cur'[b] = cur[b] /\ job'[b] = job[b]
      BY <1>1, <1>3, <2>1, <3>1, <3>2 DEF LocalsOK
    <3>4. Grows(contexts, contexts')
      BY <1>1, <3>1, Unmoved
    <3>5. ActorOK(a)'
      BY <1>4, <2>1, <3>2, <3>3, <3>4
    <3> QED
      BY <1>1, <3>1, <3>3, <3>4, <3>5, OwnStep
  <2>3. CASE Opens(p)
    <3> DEFINE n == Len(contexts')
    <3>1. /\ contexts' = Append(contexts, c) /\ host' = [host EXCEPT ![p] = n]
          /\ cur' = [cur EXCEPT ![a] = n] /\ pc' = [pc EXCEPT ![a] = "deploy"]
      BY <1>7, <2>3 DEF OpenUnit
    <3>2. c \in ContextRec /\ c.path = p
      BY <2>1 DEF NewContext, ContextRec, States
    <3> HIDE DEF c, p
    <3>3. /\ contexts' \in Seq(ContextRec) /\ n = Len(contexts) + 1 /\ contexts'[n] = c
          /\ \A i \in 1 .. Len(contexts) : contexts'[i] = contexts[i]
      BY <1>1, <3>1, <3>2, AppendProperties
    <3>4. n \in Ids' /\ n \in Nat /\ n \in Nat \cup SUBSET Nat /\ Ids \subseteq Ids'
      BY <1>1, <3>3 DEF Ids
    <3>5. Grows(contexts, contexts')
      BY <1>1, <3>3 DEF Grows
    <3>6. "deploy" \in Scanning \cup {"idle"} /\ todo[a] \in SUBSET Apps
      BY <2>1 DEF Scanning
    <3> HIDE DEF n
    <3>7. /\ LocalsOK' /\ pc'[a] = "deploy" /\ todo'[a] = todo[a] /\ job'[a] = job[a]
          /\ cur'[a] = n
          /\ \A b \in Actors : b # a => /\ pc'[b] = pc[b] /\ todo'[b] = todo[b]
                                        /\ cur'[b] = cur[b] /\ job'[b] = job[b]
      BY <1>1, <1>3, <2>1, <3>1, <3>4, <3>6 DEF LocalsOK
    <3>8. ActorOK(a)'
      BY <1>4, <2>1, <3>4, <3>5, <3>6, <3>7
    <3>9. \A b \in Actors : ActorOK(b)'
      BY <3>5, <3>7, <3>8, OthersOK
    <3>10. RegistryOK'
      <4>1. host' \in [Apps -> Nat]
        BY <1>1, <3>1, <3>4 DEF RegistryOK
      <4>2. ASSUME NEW r \in Apps, host'[r] # None
            PROVE  host'[r] \in Ids' /\ contexts'[host'[r]].path = r
        <5>1. CASE r = p
          BY <1>1, <3>1, <3>2, <3>3, <3>4, <5>1 DEF RegistryOK
        <5>2. CASE r # p
          BY <1>1, <3>1, <3>3, <3>4, <4>2, <5>2 DEF RegistryOK, Ids
        <5> QED
          BY <5>1, <5>2
      <4> QED
        BY <3>3, <4>1, <4>2 DEF RegistryOK
    <3>11. DiskOK'
      BY <1>1 DEF DeployInv, DiskOK
    <3> QED
      BY <3>5, <3>7, <3>9, <3>10, <3>11 DEF Kept, DeployInv
  <2> QED
    BY <2>2, <2>3
<1> QED
  BY <1>5, <1>6, <1>7 DEF DeployAll

(***************************************************************************)
(* HotRedeployer::tick.                                                    *)
(***************************************************************************)
LEMMA RedeployerKeeps ==
  ASSUME DeployInv, "redeployer" \in Roles,
         RedeployTick \/ (\E id \in Ids : Observe(id)) \/ Reopen \/ TickDone
  PROVE  Kept
<1> DEFINE r == "redeployer"
<1>1. /\ r \in Actors /\ ActorOK(r) /\ LocalsOK /\ RegistryOK /\ UNCHANGED <<disk, clock, host>>
      /\ contexts \in Seq(ContextRec) /\ Len(contexts) \in Nat /\ Ids \subseteq Nat
  BY LenProperties DEF DeployInv, RegistryOK, RedeployTick, Observe, Reopen, TickDone, Actors, Ids
<1>2. /\ "idle" \in Places /\ "observe" \in Places
      /\ "observe" \in JobRets /\ "reopen" \in JobRets /\ {"start", "stop"} \subseteq JobOps
      /\ {"idle", "observe", "reopen"} \cap Scanning = {}
  BY DEF Places, JobRets, JobOps, Scanning
<1>3. CASE RedeployTick \/ TickDone
  <2>1. /\ Grows(contexts, contexts') /\ Ids' = Ids
        /\ UNCHANGED <<contexts, job, cur, seen>>
    BY <1>1, <1>3, Unmoved DEF RedeployTick, TickDone, Ids
  <2>2. /\ pc[r] \in {"idle", "observe"}
        /\ pc' = [pc EXCEPT ![r] = "observe"] \/ pc' = [pc EXCEPT ![r] = "idle"]
    BY <1>3 DEF RedeployTick, TickDone
  <2>3. todo' = todo \/ \E t \in SUBSET Nat : todo' = [todo EXCEPT ![r] = t]
    <3>1. {host[p] : p \in {q \in Registered : contexts[host[q]].reloadable}} \in SUBSET Nat
      BY <1>1 DEF RegistryOK, Registered
    <3> QED
      BY <1>3, <3>1 DEF RedeployTick, TickDone
  <2>4. LocalsOK'
    <3>1. todo' \in [Actors -> SUBSET Nat]
      BY <1>1, <2>3 DEF LocalsOK
    <3> QED
      BY <1>1, <1>2, <2>1, <2>2, <3>1 DEF LocalsOK
  <2>5. /\ pc'[r] \in {"idle", "observe"}
        /\ \A b \in Actors : b # r => pc'[b] = pc[b] /\ todo'[b] = todo[b]
    BY <1>1, <2>2, <2>3 DEF LocalsOK
  <2>6. ActorOK(r)'
    BY <1>1, <1>2, <2>1, <2>2, <2>5 DEF ActorOK
  <2> QED
    BY <1>1, <2>1, <2>4, <2>5, <2>6, OwnStep
<1>4. ASSUME NEW id \in Ids, Observe(id)
      PROVE  Kept
  <2> DEFINE p == contexts[id].path
             q == [op |-> "stop", id |-> id, n |-> 0, step |-> 0, ret |-> "reopen"]
  <2>1. /\ Grows(contexts, contexts') /\ Ids' = Ids /\ UNCHANGED <<contexts, pc>>
        /\ pc[r] = "observe" /\ job[r] = NoJob /\ todo' = [todo EXCEPT ![r] = @ \ {id}]
    BY <1>1, <1>4, Unmoved DEF Observe, Ids
  <2>2. \/ UNCHANGED <<cur, job>>
        \/ cur' = [cur EXCEPT ![r] = id] /\ job' = [job EXCEPT ![r] = q]
    BY <1>4 DEF Observe, BeginJob
  <2>3. q \in JobRec /\ q.op = "stop" /\ q.id = id /\ q.ret = "reopen"
    BY <1>1, <1>2, JobBegun
  <2> HIDE DEF q
  <2>4. LocalsOK'
    <3>1. todo' \in [Actors -> SUBSET Nat]
      BY <1>1, <2>1 DEF LocalsOK
    <3>2. cur' \in [Actors -> Nat \cup SUBSET Nat] /\ job' \in [Actors -> JobRec]
      BY <1>1, <2>2, <2>3 DEF LocalsOK
    <3> QED
      BY <1>1, <2>1, <3>1, <3>2 DEF LocalsOK
  <2>5. \A b \in Actors : b # r => todo'[b] = todo[b] /\ cur'[b] = cur[b] /\ job'[b] = job[b]
    BY <1>1, <2>1, <2>2 DEF LocalsOK
  <2>6. ActorOK(r)'
    <3>1. CASE UNCHANGED <<cur, job>>
      BY <1>1, <1>2, <2>1, <3>1 DEF ActorOK
    <3>2. CASE cur' = [cur EXCEPT ![r] = id] /\ job' = [job EXCEPT ![r] = q]
      <4>1. cur'[r] = id /\ job'[r] = q
        BY <1>1, <3>2 DEF LocalsOK
      <4> QED
        BY <1>1, <1>2, <2>1, <2>3, <4>1 DEF ActorOK
    <3> QED
      BY <2>2, <3>1, <3>2
  <2>7. DiskOK'
    <3>1. p \in Apps
      <4>1. contexts[id] \in ContextRec
        BY <1>1, ElementOfSeq DEF Ids
      <4> QED
        BY <4>1 DEF ContextRec
    <3>2. CombinedMtime(p) = NoTime \/ (CombinedMtime(p) \in 0 .. clock /\ CombinedMtime(p) \in Int)
      BY <3>1 DEF CombinedMtime, DeployInv, DiskOK, Unit
    <3>3. seen' = seen \/ (CombinedMtime(p) # NoTime /\ seen' = [seen EXCEPT ![p] = CombinedMtime(p)])
      BY <1>4 DEF Observe
    <3> HIDE DEF p
    <3> QED
      BY <1>1, <3>1, <3>2, <3>3 DEF DeployInv, DiskOK
  <2>8. RegistryOK' /\ \A b \in Actors : ActorOK(b)'
    BY <1>1, <2>1, <2>5, <2>6, RegistryKept, OthersOK
  <2> QED
    BY <2>1, <2>4, <2>7, <2>8 DEF Kept, DeployInv
<1>5. CASE Reopen
  <2> DEFINE i == cur[r]
             c == contexts[i]
             q == [op |-> "start", id |-> i, n |-> 0, step |-> 0, ret |-> "observe"]
  <2>1. /\ i \in Ids /\ i \in Nat /\ pc[r] = "reopen" /\ job[r] = NoJob
        /\ pc' = [pc EXCEPT ![r] = "observe"] /\ cur' = [cur EXCEPT ![r] = None]
        /\ UNCHANGED <<todo, seen>> /\ c \in ContextRec
    <3>1. i \in Ids /\ i \in Nat /\ pc[r] = "reopen" /\ job[r] = NoJob
      BY <1>1, <1>5 DEF Reopen, ActorOK
    <3> QED
      BY <1>1, <1>5, <3>1, ElementOfSeq DEF Reopen, Ids
  <2>2. job' = job \/ job' = [job EXCEPT ![r] = q]
    BY <1>5 DEF Reopen, BeginJob
  <2>3. q \in JobRec /\ q.op = "start" /\ q.id = i /\ q.ret = "observe"
    BY <1>2, <2>1, JobBegun
  <2>4. Grows(contexts, contexts')
    <3>1. \/ contexts' = contexts
          \/ contexts' = [contexts EXCEPT ![i] = DeployDescriptor(c)] /\ ~c.wired
      BY <1>5 DEF Reopen, Wires
    <3>2. CASE contexts' = contexts
      BY <1>1, <3>2, Unmoved
    <3>3. CASE contexts' = [contexts EXCEPT ![i] = DeployDescriptor(c)] /\ ~c.wired
      <4> DEFINE d == DeployDescriptor(c)
      <4>1. d \in ContextRec /\ d.path = c.path
        BY <2>1, DescriptorDeployed
      <4> HIDE DEF d
      <4>2. Grows(contexts, [contexts EXCEPT ![i] = d])
        BY <1>1, <2>1, <3>3, <4>1, ReplacedGrows DEF Ids
      <4> QED
        BY <3>3, <4>2 DEF d
    <3> QED
      BY <3>1, <3>2, <3>3
  <2>5. Ids \subseteq Ids' /\ None \in Nat
    BY <1>1, <2>4, LenProperties DEF Grows, Ids, None
  <2> HIDE DEF q, i
  <2>6. LocalsOK'
    <3>1. cur' \in [Actors -> Nat \cup SUBSET Nat] /\ job' \in [Actors -> JobRec]
      BY <1>1, <2>1, <2>2, <2>3, <2>5 DEF LocalsOK
    <3> QED
      BY <1>1, <1>2, <2>1, <3>1 DEF LocalsOK
  <2>7. \A b \in Actors : b # r => /\ pc'[b] = pc[b] /\ todo'[b] = todo[b]
                                  /\ cur'[b] = cur[b] /\ job'[b] = job[b]
    BY <1>1, <2>1, <2>2 DEF LocalsOK
  <2>8. ActorOK(r)'
    <3>1. pc'[r] = "observe" /\ (job'[r] = NoJob \/ job'[r] = q)
      BY <1>1, <2>1, <2>2 DEF LocalsOK
    <3> QED
      BY <1>1, <1>2, <2>1, <2>3, <2>5, <3>1 DEF ActorOK, NoJob
  <2> QED
    BY <1>1, <2>1, <2>4, <2>6, <2>7, <2>8, OwnStep
<1> QED
  BY <1>3, <1>4, <1>5

(***************************************************************************)
(* The requests of ManagerService, and the operator at the disk.           *)
(***************************************************************************)
LEMMA ManagerKeeps ==
  ASSUME DeployInv, NEW p \in Apps,
         \/ \E op \in {"start", "stop"} : HandleStartStop(op, p)
         \/ HandleReload(p) \/ HandleUndeploy(p)
  PROVE  Kept
<1> DEFINE m == "manager"
<1>1. /\ m \in Actors /\ ActorOK(m) /\ LocalsOK /\ RegistryOK
      /\ UNCHANGED <<disk, clock, seen, pc, todo, cur>>
      /\ host[p] # None /\ host[p] \in Ids /\ host[p] \in Nat
  <2>1. m \in Actors /\ host[p] # None
    BY DEF Actors, HandleStartStop, HandleReload, HandleUndeploy, ManagerReady
  <2> QED
    BY <2>1, FoundContext DEF DeployInv, HandleStartStop, HandleReload, HandleUndeploy, local
<1>2. ASSUME NEW op \in {"start", "stop"}, HandleStartStop(op, p)
      PROVE  Kept
  <2> DEFINE q == [op |-> op, id |-> host[p], n |-> 0, step |-> 0, ret |-> "idle"]
  <2>1. /\ Grows(contexts, contexts') /\ Ids' = Ids /\ host' = host
        /\ job' = [job EXCEPT ![m] = q]
    BY <1>1, <1>2, Unmoved DEF HandleStartStop, BeginJob, Ids
  <2>2. pc[m] = "idle"
    BY <1>2 DEF HandleStartStop, ManagerReady
  <2>3. q \in JobRec /\ q.op = op /\ q.id = host[p] /\ q.ret = "idle"
    BY <1>1, JobBegun DEF JobOps, JobRets
  <2> HIDE DEF q
  <2>4. LocalsOK'
    BY <1>1, <2>1, <2>3 DEF LocalsOK
  <2>5. job'[m] = q /\ \A b \in Actors : b # m => job'[b] = job[b]
    BY <1>1, <2>1 DEF LocalsOK
  <2>6. ActorOK(m)'
    BY <1>1, <2>1, <2>2, <2>3, <2>5 DEF ActorOK, Scanning
  <2> QED
    BY <1>1, <2>1, <2>4, <2>5, <2>6, OwnStep
<1>3. CASE HandleReload(p)
  <2>1. contexts' = [contexts EXCEPT ![host[p]] = Deploy(@)] /\ host' = host /\ job' = job
    BY <1>3 DEF HandleReload, local
  <2>2. Grows(contexts, contexts')
    BY <1>1, <2>1, DeployGrows
  <2>3. LocalsOK'
    BY <1>1, <2>1 DEF LocalsOK
  <2>4. ActorOK(m)'
    BY <1>1, <2>1, <2>2, OthersOK
  <2> QED
    BY <1>1, <2>1, <2>2, <2>3, <2>4, OwnStep
<1>4. CASE HandleUndeploy(p)
  <2>1. /\ host' = [host EXCEPT ![p] = None] /\ contexts' = contexts /\ job' = job
        /\ Grows(contexts, contexts')
    BY <1>1, <1>4, Unmoved DEF HandleUndeploy, local
  <2>2. RegistryOK'
    BY <1>1, <2>1 DEF RegistryOK, Ids, None
  <2>3. \A b \in Actors : ActorOK(b)'
    BY <1>1, <2>1, OthersOK
  <2>4. LocalsOK' /\ DiskOK'
    BY <1>1, <2>1 DEF LocalsOK, DeployInv, DiskOK
  <2> QED
    BY <2>1, <2>2, <2>3, <2>4 DEF Kept, DeployInv
<1> QED
  BY <1>2, <1>3, <1>4

LEMMA OperatorKeeps ==
  ASSUME DeployInv, NEW p \in Apps, DropApp(p) \/ EditApp(p) \/ RemoveApp(p)
  PROVE  Kept
<1>1. /\ RegistryOK /\ DiskOK /\ clock \in Int /\ clock + 1 \in Nat
      /\ UNCHANGED <<host, contexts, pc, todo, cur, job, seen>>
      /\ clock < MaxClock /\ clock' = clock + 1 /\ clock >= 0
  BY DeploymentAssumption DEF DeployInv, DiskOK, DropApp, EditApp, RemoveApp, local
<1>2. Grows(contexts, contexts')
  BY <1>1, Unmoved
<1>3. RegistryOK' /\ LocalsOK' /\ \A b \in Actors : ActorOK(b)'
  BY <1>1, <1>2, RegistryKept, OthersOK DEF LocalsOK, DeployInv
<1>4. ASSUME NEW u \in Unit, disk' = [disk EXCEPT ![p] = u], u.mtime <= clock'
      PROVE  DiskOK'
  <2>1. disk' \in [Apps -> Unit] /\ \A r \in Apps : disk'[r] = IF r = p THEN u ELSE disk[r]
    BY <1>1, <1>4 DEF DiskOK
  <2>2. \A r \in Apps : disk[r].mtime \in Int /\ disk'[r].mtime <= clock'
    BY <1>1, <1>4, <2>1 DEF DiskOK, Unit
  <2>3. seen' \in [Apps -> Int] /\ \A r \in Apps : seen'[r] = NoTime \/ seen'[r] \in 0 .. clock'
    BY <1>1 DEF DiskOK
  <2>4. clock' \in 0 .. MaxClock
    BY <1>1, DeploymentAssumption
  <2> QED
    BY <2>1, <2>2, <2>3, <2>4 DEF DiskOK
<1>5. ASSUME NEW k \in {"absent", "dir", "war"}, NEW x \in Descriptors \cup {"none"},
             NEW t \in Nat, t <= clock',
             disk' = [disk EXCEPT ![p] = [kind |-> k, xml |-> x, mtime |-> t]]
      PROVE  DiskOK'
  <2> DEFINE u == [kind |-> k, xml |-> x, mtime |-> t]
  <2>1. u \in Unit /\ u.mtime = t
    BY DEF Unit
  <2>2. disk' = [disk EXCEPT ![p] = u]
    BY <1>5
  <2> HIDE DEF u
  <2> QED
    BY <1>4, <1>5, <2>1, <2>2
<1>6. DiskOK'
  <2>0. 0 \in Nat /\ 0 <= clock' /\ clock' \in Nat /\ clock' <= clock'
    BY <1>1
  <2>1. CASE DropApp(p)
    <3>1. CASE disk' = [disk EXCEPT ![p] = [kind |-> "war", xml |-> "none", mtime |-> 0]]
      BY <1>5, <2>0, <3>1
    <3>2. ASSUME NEW xml \in Descriptors,
                 NEW t \in IF "redeployer" \in Roles THEN {0, clock'} ELSE {0},
                 disk' = [disk EXCEPT ![p] = [kind |-> "dir", xml |-> xml, mtime |-> t]]
          PROVE  DiskOK'
      <4>1. t \in Nat /\ t <= clock' /\ xml \in Descriptors \cup {"none"}
        BY <2>0
      <4> QED
        BY <1>5, <3>2, <4>1
    <3> QED
      BY <2>1, <3>1, <3>2 DEF DropApp
  <2>2. CASE EditApp(p)
    <3>1. PICK xml \in Descriptors : disk' = [disk EXCEPT ![p].xml = xml, ![p].mtime = clock']
      BY <2>2 DEF EditApp
    <3> DEFINE u == [disk[p] EXCEPT !.xml = xml, !.mtime = clock']
    <3>2. disk[p] \in Unit
      BY <1>1 DEF DiskOK
    <3>3. u \in Unit /\ u.mtime = clock'
      BY <1>1, <3>2 DEF Unit
    <3>4. disk' = [disk EXCEPT ![p] = u]
      BY <1>1, <3>1 DEF DiskOK
    <3> HIDE DEF u
    <3> QED
      BY <1>4, <2>0, <3>3, <3>4
  <2>3. CASE RemoveApp(p)
    <3>1. disk' = [disk EXCEPT ![p] = [kind |-> "absent", xml |-> "none", mtime |-> 0]]
      BY <2>3 DEF RemoveApp
    <3> QED
      BY <1>5, <2>0, <3>1
  <2> QED
    BY <2>1, <2>2, <2>3
<1> QED
  BY <1>2, <1>3, <1>6 DEF Kept, DeployInv

(***************************************************************************)
(* The tree that Host::from_config builds: the declared paths in order,    *)
(* each one leading to its context.                                        *)
(***************************************************************************)
LEMMA OrderComplete ==
  ASSUME NEW order \in [1 .. Cardinality(Configured) -> Configured],
         \A i, j \in DOMAIN order : i < j => order[i] < order[j]
  PROVE  /\ Cardinality(Configured) \in Nat
         /\ \A p \in Configured : \E i \in DOMAIN order : order[i] = p
<1> DEFINE N == Cardinality(Configured)
<1>1. /\ IsFiniteSet(Configured) /\ N \in Nat /\ Configured \subseteq Nat
      /\ N = Cardinality(Configured)
  BY DeploymentAssumption, FS_Subset, FS_CardinalityType
<1>a. order \in [1 .. N -> Configured] /\ DOMAIN order = 1 .. N
  OBVIOUS
<1> HIDE DEF N
<1>2. order \in Injection(1 .. N, Configured)
  <2>1. \A i, j \in 1 .. N : order[i] = order[j] => i = j
    <3> SUFFICES ASSUME NEW i \in 1 .. N, NEW j \in 1 .. N, order[i] = order[j], i # j
                 PROVE  FALSE
      OBVIOUS
    <3>0. order[i] \in Configured /\ order[j] \in Configured
      BY <1>a
    <3>a. Configured \subseteq Nat /\ N \in Nat
      BY <1>1
    <3>b. order[i] \in Nat /\ order[j] \in Nat
      BY <3>0, <3>a, Zenon
    <3>c. i \in Int /\ j \in Int
      BY <3>a
    <3>1. order[i] \in Int /\ order[j] \in Int /\ i \in Int /\ j \in Int
      BY <3>b, <3>c
    <3>2. i < j \/ j < i
      BY <3>1
    <3> QED
      BY <1>a, <3>1, <3>2
  <2> QED
    BY <1>a, <2>1, Fun_IsInj
<1>3. Cardinality(1 .. N) = N
  BY <1>1, FS_Interval
<1>4. order \in Surjection(1 .. N, Configured)
  BY <1>1, <1>2, <1>3, FS_Injection
<1> QED
  BY <1>1, <1>a, <1>4, Fun_SurjectionProperties DEF N

LEMMA DeployInit == Init => DeployInv
<1> SUFFICES ASSUME Init PROVE DeployInv
  OBVIOUS
<1>1. DiskOK
  <2>1. PICK xml \in [Configured -> Descriptors \ {"bad"}] :
          disk = [p \in Apps |->
                    IF p \in Configured
                      THEN [kind |-> "dir", xml |-> xml[p], mtime |-> 0]
                      ELSE [kind |-> "absent", xml |-> "none", mtime |-> 0]]
    BY DEF Init
  <2>2. \A p \in Apps : disk[p] \in Unit /\ disk[p].mtime = 0
    BY <2>1 DEF Unit
  <2>3. disk \in [Apps -> Unit] /\ clock = 0 /\ clock \in 0 .. MaxClock
    BY <2>1, <2>2, DeploymentAssumption DEF Init
  <2>4. seen \in [Apps -> Int] /\ \A p \in Apps : seen[p] = NoTime
    BY DEF Init, NoTime
  <2> QED
    BY <2>2, <2>3, <2>4 DEF DiskOK
<1>2. RegistryOK
  <2>1. PICK order \in [1 .. Cardinality(Configured) -> Configured] :
          /\ \A i, j \in DOMAIN order : i < j => order[i] < order[j]
          /\ contexts = [i \in DOMAIN order |-> NewContext(order[i], TRUE)]
          /\ host = [p \in Apps |->
                       IF p \in Configured
                         THEN CHOOSE i \in DOMAIN order : order[i] = p
                         ELSE None]
    BY DEF Init
  <2> DEFINE N == Cardinality(Configured)
             c(i) == NewContext(order[i], TRUE)
  <2>2. /\ N \in Nat /\ DOMAIN order = 1 .. N
        /\ \A p \in Configured : \E i \in 1 .. N : order[i] = p
    BY <2>1, OrderComplete
  <2>3. \A i \in 1 .. N : c(i) \in ContextRec /\ c(i).path = order[i]
    <3> TAKE i \in 1 .. N
    <3>1. order[i] \in Apps
      BY <2>2, DeploymentAssumption
    <3> QED
      BY <3>1 DEF NewContext, ContextRec, States
  <2>4. contexts = [i \in 1 .. N |-> c(i)]
    BY <2>1, <2>2
  <2>5. contexts \in Seq(ContextRec) /\ Len(contexts) = N
    <3> HIDE DEF c, N
    <3>1. [i \in 1 .. N |-> c(i)] \in Seq(ContextRec)
      BY <2>2, <2>3, IsASeq
    <3> QED
      BY <2>2, <2>4, <3>1, LenProperties
  <2>6. ASSUME NEW p \in Configured
        PROVE  host[p] \in 1 .. N /\ contexts[host[p]].path = p
    <3>1. host[p] = CHOOSE i \in 1 .. N : order[i] = p
      BY <2>1, <2>2, DeploymentAssumption
    <3>2. host[p] \in 1 .. N /\ order[host[p]] = p
      BY <2>2, <3>1
    <3> QED
      BY <2>3, <2>4, <3>2
  <2>7. \A p \in Apps \ Configured : host[p] = None
    BY <2>1
  <2>8. host \in [Apps -> Nat]
    <3>1. \A p \in Apps : host[p] \in Nat
      BY <2>2, <2>6, <2>7 DEF None
    <3> QED
      BY <2>1, <3>1
  <2> QED
    BY <2>5, <2>6, <2>7, <2>8 DEF RegistryOK, Ids
<1>3. LocalsOK
  <2>1. NoJob \in JobRec
    BY JobBegun DEF NoJob, JobOps, JobRets, None
  <2>2. pc \in [Actors -> Places] /\ job \in [Actors -> JobRec]
    BY <2>1 DEF Init, Places
  <2>3. todo \in [Actors -> SUBSET Nat]
    BY DEF Init
  <2>4. cur \in [Actors -> Nat \cup SUBSET Nat]
    BY DEF Init, None
  <2> QED
    BY <2>2, <2>3, <2>4 DEF LocalsOK
<1>4. \A a \in Actors : ActorOK(a)
  <2> TAKE a \in Actors
  <2>1. /\ pc[a] \in {"init", "idle"} /\ job[a] = NoJob
        /\ a = "main" => cur[a] = {}
        /\ a = "redeployer" => pc[a] = "idle"
    BY DEF Init
  <2>2. NoJob.op = "none" /\ NoJob.ret = "idle"
    BY DEF NoJob
  <2> QED
    BY <2>1, <2>2 DEF ActorOK, Scanning
<1> QED
  BY <1>1, <1>2, <1>3, <1>4 DEF DeployInv

LEMMA StepKeeps == DeployInv /\ [Next]_vars => Kept
<1> SUFFICES ASSUME DeployInv, [Next]_vars PROVE Kept
  OBVIOUS
<1>1. CASE Main
  <2>1. CASE Cascade("main")
    BY <2>1, CascadeKeeps DEF Actors
  <2>2. CASE ~Cascade("main")
    BY <1>1, <2>2, MainKeeps DEF Main
  <2> QED
    BY <2>1, <2>2
<1>2. CASE Signal
  BY <1>2, MainKeeps
<1>3. CASE Watcher
  BY <1>3, ScanKeeps DEF Watcher, WatcherTick, Actors
<1>4. CASE Redeployer
  <2>1. CASE "redeployer" \in Roles /\ Cascade("redeployer")
    BY <2>1, CascadeKeeps DEF Actors
  <2>2. CASE ~("redeployer" \in Roles /\ Cascade("redeployer"))
    <3>1. "redeployer" \in Roles
      BY <1>4 DEF Redeployer, RedeployTick
    <3> QED
      BY <1>4, <2>2, <3>1, RedeployerKeeps DEF Redeployer
  <2> QED
    BY <2>1, <2>2
<1>5. CASE Manager
  <2>1. CASE HandleDeploy
    BY <2>1, ScanKeeps DEF HandleDeploy, ManagerReady, Actors
  <2>2. CASE "manager" \in Roles /\ DeployAll("manager")
    BY <2>2, ScanKeeps DEF Actors
  <2>3. CASE "manager" \in Roles /\ Cascade("manager")
    BY <2>3, CascadeKeeps DEF Actors
  <2>4. ASSUME NEW p \in Apps,
               \/ \E op \in {"start", "stop"} : HandleStartStop(op, p)
               \/ HandleReload(p) \/ HandleUndeploy(p)
        PROVE  Kept
    BY <2>4, ManagerKeeps
  <2> QED
    BY <1>5, <2>1, <2>2, <2>3, <2>4 DEF Manager
<1>6. CASE Operator
  BY <1>6, OperatorKeeps DEF Operator
<1>7. CASE UNCHANGED vars
  <2>1. Grows(contexts, contexts')
    BY <1>7, Unmoved DEF vars, DeployInv
  <2>2. DiskOK' /\ RegistryOK' /\ LocalsOK' /\ \A a \in Actors : ActorOK(a)'
    BY <1>7, <2>1, OthersOK, RegistryKept DEF vars, DeployInv, DiskOK, LocalsOK
  <2> QED
    BY <2>1, <2>2 DEF Kept, DeployInv
<1> QED
  BY <1>1, <1>2, <1>3, <1>4, <1>5, <1>6, <1>7 DEF Next

(* Whatever the lifecycle, the watcher, the redeployer, the manager and    *)
(* the operator do, Host.contexts never leads from a path to a context     *)
(* built for another one or to none, and every state and time of the tree  *)
(* is one there is.                                                        *)
THEOREM DeploymentTypes == Spec => []TypeOK
<1>1. DeployInv => TypeOK
  <2> SUFFICES ASSUME DeployInv PROVE TypeOK
    OBVIOUS
  <2>1. ASSUME NEW p \in Apps
        PROVE  /\ disk[p].kind \in {"absent", "dir", "war"}
               /\ disk[p].xml \in Descriptors \cup {"none"}
               /\ disk[p].mtime \in 0 .. clock
               /\ host[p] \in {None} \cup Ids
               /\ seen[p] \in {NoTime} \cup 0 .. clock
    <3>1. disk[p] \in Unit /\ disk[p].mtime <= clock /\ clock \in Int
      BY DEF DeployInv, DiskOK
    <3>2. disk[p].mtime \in Nat
      BY <3>1 DEF Unit
    <3> QED
      BY <3>1, <3>2 DEF DeployInv, DiskOK, RegistryOK, Unit
  <2>2. ASSUME NEW i \in Ids
        PROVE  /\ contexts[i].state \in States
               /\ \A k \in DOMAIN contexts[i].wrappers : contexts[i].wrappers[k] \in States
    <3>1. contexts[i] \in ContextRec
      BY ElementOfSeq DEF DeployInv, RegistryOK, Ids
    <3>2. contexts[i].state \in States /\ contexts[i].wrappers \in Seq(States)
      BY <3>1 DEF ContextRec
    <3>3. DOMAIN contexts[i].wrappers = 1 .. Len(contexts[i].wrappers)
      BY <3>2, LenProperties
    <3> QED
      BY <3>2, <3>3, ElementOfSeq
  <2>3. \A p \in Registered : contexts[host[p]].path = p
    BY DEF DeployInv, RegistryOK, Registered
  <2>4. \A a \in Actors : job[a] = NoJob \/ job[a].id \in Ids
    BY DEF DeployInv, ActorOK
  <2> QED
    BY <2>1, <2>2, <2>3, <2>4 DEF TypeOK, DeployInv, DiskOK
<1>2. DeployInv /\ [Next]_vars => DeployInv'
  BY StepKeeps DEF Kept
<1> QED
  BY <1>1, <1>2, DeployInit, PTL DEF Spec

(* Context::deploy_descriptor's OnceLock, of whoever of deployer, manager  *)
(* and redeployer comes second: a wired context keeps its wrappers.        *)
THEOREM WrappersWiredOnce == Spec => WiredOnce
<1>1. DeployInv /\ [Next]_vars
        => [\A i \in Ids : contexts[i].wired =>
              Len(contexts'[i].wrappers) = Len(contexts[i].wrappers)]_vars
  BY StepKeeps DEF Kept, Grows, Ids
<1>2. DeployInv /\ [Next]_vars => DeployInv'
  BY StepKeeps DEF Kept
<1> QED
  BY <1>1, <1>2, DeployInit, PTL DEF Spec, WiredOnce

(***************************************************************************)
(* deploy_all looks whether a path is free, opens the application and only *)
(* then registers it.  Where only one actor runs it, the path it opens     *)
(* stays free; a watcher and a deploy request of the manager could both    *)
(* find it free.                                                           *)
(***************************************************************************)
OneDeployer == ~({"watcher", "manager"} \subseteq Roles /\ "deploy" \in Requests)

Vacant == \A a \in Actors : pc[a] = "open" => host[cur[a]] = None

LEMMA SoleScanner ==
  ASSUME DeployInv, OneDeployer, NEW a \in Actors, NEW b \in Actors,
         pc[a] \in Scanning, pc[b] \in Scanning
  PROVE  a = b
BY DEF OneDeployer, DeployInv, ActorOK, Actors

\* Nobody begins to open a path, and none is registered.
Undisturbed ==
  /\ host' = host
  /\ \A a \in Actors : pc'[a] = "open" => pc[a] = "open" /\ cur'[a] = cur[a]

LEMMA VacantKept ==
  ASSUME DeployInv, Vacant, OneDeployer, [Next]_vars
  PROVE  /\ Vacant'
         /\ \A p \in Apps : host[p] # None => host'[p] \in {host[p], None}
<1> DEFINE Goal == /\ Vacant'
                   /\ \A p \in Apps : host[p] # None => host'[p] \in {host[p], None}
<1>0. LocalsOK /\ RegistryOK /\ \A a \in Actors : ActorOK(a)
  BY DEF DeployInv
<1>1. ASSUME Undisturbed PROVE Goal
  BY <1>1 DEF Undisturbed, Vacant
<1>2. ASSUME NEW a \in Actors, Cascade(a)
      PROVE  Undisturbed
  <2>1. CASE JobLeave(a)
    <3>1. job[a].ret # "open"
      BY <1>0 DEF LocalsOK, JobRec, JobRets
    <3> QED
      BY <1>0, <2>1, <3>1 DEF JobLeave, Undisturbed, LocalsOK
  <2>2. CASE JobEnter(a) \/ JobWrapper(a)
    BY <2>2 DEF JobEnter, JobWrapper, Undisturbed
  <2> QED
    BY <1>2, <2>1, <2>2 DEF Cascade
<1>3. ASSUME HostBegin \/ Signal
      PROVE  Undisturbed
  <2>1. pc'["main"] # "open" /\ \A a \in Actors : a # "main" => pc'[a] = pc[a] /\ cur'[a] = cur[a]
    BY <1>0, <1>3 DEF HostBegin, Signal, LocalsOK, Actors
  <2> QED
    BY <1>3, <2>1 DEF Undisturbed, HostBegin, Signal
<1>4. ASSUME NEW op \in {"init", "start", "stop", "destroy"},
             HostEnd(op) \/ \E p \in Apps : HostVisit(op, p)
      PROVE  Undisturbed
  <2>1. pc'["main"] # "open" /\ \A a \in Actors : a # "main" => pc'[a] = pc[a] /\ cur'[a] = cur[a]
    BY <1>0, <1>4 DEF HostEnd, HostVisit, Walking, Following, LocalsOK, Actors
  <2> QED
    BY <1>4, <2>1 DEF Undisturbed, HostEnd, HostVisit
<1>5. ASSUME RedeployTick \/ (\E id \in Ids : Observe(id)) \/ Reopen \/ TickDone
      PROVE  Undisturbed
  <2>1. /\ host' = host
        /\ \/ pc' = pc /\ pc["redeployer"] = "observe"
           \/ pc' = [pc EXCEPT !["redeployer"] = "observe"]
           \/ pc' = [pc EXCEPT !["redeployer"] = "idle"]
        /\ \/ cur' = cur
           \/ \E v : cur' = [cur EXCEPT !["redeployer"] = v]
    BY <1>5 DEF RedeployTick, Observe, Reopen, TickDone
  <2> QED
    BY <1>0, <2>1 DEF Undisturbed, LocalsOK
<1>6. ASSUME NEW p \in Apps,
             \/ \E op \in {"start", "stop"} : HandleStartStop(op, p)
             \/ HandleReload(p) \/ DropApp(p) \/ EditApp(p) \/ RemoveApp(p)
      PROVE  Undisturbed
  BY <1>6 DEF HandleStartStop, HandleReload, DropApp, EditApp, RemoveApp, local, Undisturbed
<1>7. ASSUME NEW p \in Apps, HandleUndeploy(p)
      PROVE  Goal
  <2>1. host' = [host EXCEPT ![p] = None] /\ UNCHANGED <<pc, cur>>
    BY <1>7 DEF HandleUndeploy, local
  <2>2. \A r \in Apps : host'[r] = None \/ host'[r] = host[r]
    BY <1>0, <2>1 DEF RegistryOK
  <2>3. Vacant'
    BY <1>0, <2>1, <2>2 DEF Vacant, ActorOK
  <2> QED
    BY <2>2, <2>3
<1>8. ASSUME NEW a \in Actors, Scan(a) \/ ScanDone(a) \/ DeployUnit(a)
      PROVE  Undisturbed
  BY <1>0, <1>8 DEF Scan, ScanDone, DeployUnit, Undisturbed, LocalsOK
<1>9. ASSUME NEW a \in Actors, NextUnit(a)
      PROVE  Goal
  <2>1. PICK p \in todo[a] :
          IF host[p] # None THEN UNCHANGED <<pc, cur>>
          ELSE cur' = [cur EXCEPT ![a] = p] /\ pc' = [pc EXCEPT ![a] = "open"]
    BY <1>9 DEF NextUnit
  <2>2. host' = host
    BY <1>9 DEF NextUnit
  <2>3. Vacant'
    BY <1>0, <2>1, <2>2 DEF Vacant, LocalsOK
  <2> QED
    BY <2>2, <2>3
<1>10. ASSUME NEW a \in Actors, OpenUnit(a)
       PROVE  Goal
  <2>1. pc[a] = "open" /\ cur[a] \in Apps /\ host[cur[a]] = None
    BY <1>0, <1>10 DEF OpenUnit, ActorOK, Vacant
  <2>2. \A b \in Actors : pc'[b] # "open"
    <3>1. pc'[a] # "open" /\ \A b \in Actors : b # a => pc'[b] = pc[b]
      BY <1>0, <1>10 DEF OpenUnit, LocalsOK
    <3>2. \A b \in Actors : b # a => pc[b] # "open"
      BY <2>1, SoleScanner DEF Scanning
    <3> QED
      BY <3>1, <3>2
  <2>3. \A p \in Apps : p # cur[a] => host'[p] = host[p]
    BY <1>0, <1>10 DEF OpenUnit, RegistryOK
  <2> QED
    BY <2>1, <2>2, <2>3 DEF Vacant
<1>11. CASE UNCHANGED vars
  BY <1>1, <1>11 DEF vars, Undisturbed
<1>12. ASSUME NEW a \in Actors, DeployAll(a)
       PROVE  Goal
  BY <1>1, <1>8, <1>9, <1>10, <1>12 DEF DeployAll
<1>13. CASE Main \/ Signal
  BY <1>1, <1>2, <1>3, <1>4, <1>13 DEF Main, Actors
<1>14. CASE Watcher
  BY <1>1, <1>8, <1>12, <1>14 DEF Watcher, WatcherTick, Actors
<1>15. CASE Redeployer
  BY <1>1, <1>2, <1>5, <1>15 DEF Redeployer, Actors
<1>16. CASE Manager
  BY <1>1, <1>2, <1>6, <1>7, <1>8, <1>12, <1>16 DEF Manager, HandleDeploy, ManagerReady, Actors
<1>17. CASE Operator
  BY <1>1, <1>6, <1>17 DEF Operator
<1> QED
  BY <1>11, <1>13, <1>14, <1>15, <1>16, <1>17 DEF Next

(* "A context whose path is already deployed is left untouched": with one  *)
(* deployer at work (the watcher, or deploy requests of the manager), a    *)
(* path's context gives way to another one only through an undeploy,       *)
(* whatever starts, stops, reloads, undeploys and changes of the disk come *)
(* between the look at the map and the registration.                       *)
THEOREM DeployedUntouched ==
  ASSUME OneDeployer
  PROVE  Spec => NeverReplaced
<1>1. Init => DeployInv /\ Vacant
  BY DeployInit DEF Init, Vacant
<1>2. DeployInv /\ Vacant /\ [Next]_vars => DeployInv' /\ Vacant'
  BY StepKeeps, VacantKept DEF Kept
<1>3. DeployInv /\ Vacant /\ [Next]_vars
        => [\A p \in Apps : host[p] # None => host'[p] \in {host[p], None}]_vars
  BY VacantKept
<1> QED
  BY <1>1, <1>2, <1>3, PTL DEF Spec, NeverReplaced

-----------------------------------------------------------------------------
(***************************************************************************)
(* Started contexts.  Where no two actors can be starting and changing     *)
(* contexts at the same time, a started context has its children started.  *)
(* main starts the tree before the others begin; afterwards only the       *)
(* redeployer starts contexts, so nobody stops them beside it, and nobody  *)
(* reloads one that is up.                                                 *)
(***************************************************************************)
OneStarter ==
  /\ Requests \cap {"start", "reload"} = {}
  /\ "redeployer" \in Roles => ~Stops /\ "stop" \notin Requests

Walks == {"initing", "starting", "stopping", "destroying"}
Ending == {"stop", "stopping", "destroy", "destroying", "exit"}
Begun == {"running"} \cup Ending

\* Who may be in which cascade, when.
StartersApart ==
  /\ \A a \in Roles : pc[a] # "idle" \/ job[a].op # "none" => pc["main"] \in Begun
  /\ "redeployer" \in Roles => pc["main"] \notin Ending
  /\ job["main"].op # "none" => pc["main"] \in Walks /\ job["main"].ret = pc["main"]
  /\ job["main"].op = "start" => pc["main"] = "starting"
  /\ "manager" \in Roles =>
       job["manager"].op = "none" \/ (job["manager"].op = "stop" /\ "redeployer" \notin Roles)

\* What is being deployed is new, and no redeployer's business.
UnitsFresh ==
  \A a \in Actors : pc[a] = "deploy" =>
    ~contexts[cur[a]].reloadable /\ contexts[cur[a]].state # "Started"

\* The redeployer works on reloadable contexts, and reopens what it stopped.
ReloadsOwn ==
  "redeployer" \in Roles =>
    /\ \A i \in todo["redeployer"] : i \in Ids /\ contexts[i].reloadable
    /\ job["redeployer"].op # "none" =>
         pc["redeployer"] = "observe" /\ contexts[job["redeployer"].id].reloadable
    /\ job["redeployer"].ret = "reopen" =>
         job["redeployer"].op = "stop" /\ cur["redeployer"] = job["redeployer"].id
    /\ pc["redeployer"] = "reopen" =>
         /\ contexts[cur["redeployer"]].reloadable
         /\ contexts[cur["redeployer"]].state = "Stopped"

\* A start cascade has started the wrappers it has been through.
Progressed(a) ==
  job[a].op = "start" /\ job[a].step > 0 =>
    /\ job[a].n = Len(contexts[job[a].id].wrappers)
    /\ \A k \in 1 .. (job[a].step - 1) : contexts[job[a].id].wrappers[k] = "Started"
StartsProgress == \A a \in Actors : Progressed(a)

AllStarted(c) == \A k \in 1 .. Len(c.wrappers) : c.wrappers[k] = "Started"
ChildrenStarted ==
  \A i \in Ids : contexts[i].state = "Started" /\ Quiet(i) => AllStarted(contexts[i])

StartInv == StartersApart /\ UnitsFresh /\ ReloadsOwn /\ StartsProgress /\ ChildrenStarted

(* Whoever starts is alone in a cascade.                                   *)
LEMMA SoleStarter ==
  ASSUME DeployInv, StartersApart, NEW a \in Actors, job[a].op = "start",
         NEW b \in Actors, b # a
  PROVE  job[b].op = "none"
<1>1. job["watcher"].op = "none" \/ "watcher" \notin Actors
  BY DEF DeployInv, ActorOK, NoJob
<1>2. CASE a = "main"
  <2>1. pc["main"] \notin Begun
    BY <1>2 DEF StartersApart, Begun, Ending
  <2>2. b \in Roles
    BY <1>2 DEF Actors
  <2> QED
    BY <2>1, <2>2 DEF StartersApart
<1>3. CASE a # "main"
  <2>1. a = "redeployer" /\ a \in Roles
    BY <1>1, <1>3, DeploymentAssumption DEF StartersApart, Actors
  <2>2. pc["main"] \notin Walks
    BY <2>1 DEF StartersApart, Begun, Ending, Walks
  <2>3. job["main"].op = "none"
    BY <2>2 DEF StartersApart
  <2> QED
    BY <1>1, <2>1, <2>3, DeploymentAssumption DEF StartersApart, Actors
<1> QED
  BY <1>2, <1>3

(* A step that leaves the contexts alone, and at most begins a cascade     *)
(* where there was none or gives one up, leaves every cascade and every    *)
(* started context as they were.                                           *)
LEMMA NoneTouched ==
  ASSUME DeployInv, StartInv, NEW b \in Actors, contexts' = contexts,
         job[b].op = "none", job'[b].step = 0 \/ job'[b] = job[b],
         \A a \in Actors : a # b => job'[a] = job[a]
  PROVE  StartsProgress' /\ ChildrenStarted'
<1>1. job[b] = NoJob
  BY DEF DeployInv, ActorOK
<1>2. StartsProgress'
  <2> SUFFICES ASSUME NEW a \in Actors PROVE Progressed(a)'
    BY DEF StartsProgress
  <2>1. CASE a = b
    BY <1>1, <2>1 DEF Progressed, NoJob
  <2>2. CASE a # b
    BY <2>2 DEF StartInv, StartsProgress, Progressed
  <2> QED
    BY <2>1, <2>2
<1>3. \A i \in Ids : Quiet(i)' => Quiet(i)
  BY <1>1 DEF Quiet, NoJob, None, Ids
<1>4. Ids' = Ids
  BY DEF Ids
<1>5. ChildrenStarted'
  BY <1>3, <1>4 DEF StartInv, ChildrenStarted, AllStarted
<1> QED
  BY <1>2, <1>5

(* Replacing, outside every start cascade, a context that does not say     *)
(* Started by another that does not either, leaves them too.               *)
LEMMA OneRewired ==
  ASSUME DeployInv, StartInv, NEW x \in Ids,
         \A a \in Actors : job[a].op = "start" => job[a].id # x,
         contexts' \in Seq(ContextRec), Len(contexts') = Len(contexts),
         \A i \in Ids : i # x => contexts'[i] = contexts[i],
         contexts'[x].state # "Started",
         NEW b \in Actors, job'[b] = job[b] \/ (job[b].op = "none" /\ job'[b].step = 0),
         \A a \in Actors : a # b => job'[a] = job[a]
  PROVE  StartsProgress' /\ ChildrenStarted'
<1>1. Ids' = Ids
  BY DEF Ids
<1>2. job[b].op = "none" => job[b] = NoJob
  BY DEF DeployInv, ActorOK
<1>3. StartsProgress'
  <2> SUFFICES ASSUME NEW a \in Actors, job'[a].op = "start", job'[a].step > 0
               PROVE  Progressed(a)'
    BY DEF StartsProgress, Progressed
  <2>1. job'[a] = job[a]
    OBVIOUS
  <2>2. job[a].id \in Ids /\ job[a].id # x
    BY <2>1 DEF DeployInv, ActorOK
  <2>3. contexts'[job[a].id] = contexts[job[a].id]
    BY <2>2
  <2> QED
    BY <2>1, <2>3 DEF StartInv, StartsProgress, Progressed
<1>4. ChildrenStarted'
  <2> SUFFICES ASSUME NEW i \in Ids, contexts'[i].state = "Started", Quiet(i)'
               PROVE  AllStarted(contexts[i])'
    BY <1>1 DEF ChildrenStarted
  <2>1. i # x /\ contexts'[i] = contexts[i]
    OBVIOUS
  <2>2. Quiet(i)
    BY <1>2 DEF Quiet, NoJob, None, Ids
  <2> QED
    BY <2>1, <2>2 DEF StartInv, ChildrenStarted, AllStarted
<1> QED
  BY <1>3, <1>4

(* What an actor's place and cascade say still holds when neither they nor *)
(* the contexts change.                                                    *)
LEMMA FreshKept ==
  ASSUME DeployInv, StartInv, contexts' = contexts,
         \A a \in Actors : pc'[a] = "deploy" => pc[a] = "deploy" /\ cur'[a] = cur[a]
  PROVE  UnitsFresh'
BY DEF StartInv, UnitsFresh

LEMMA OwnKept ==
  ASSUME DeployInv, StartInv, contexts' = contexts,
         "redeployer" \in Roles =>
            /\ pc'["redeployer"] = pc["redeployer"]
            /\ todo'["redeployer"] = todo["redeployer"]
            /\ cur'["redeployer"] = cur["redeployer"]
            /\ job'["redeployer"] = job["redeployer"]
  PROVE  ReloadsOwn'
BY DEF StartInv, ReloadsOwn, Ids

LEMMA InitStarts == Init => StartInv
<1> SUFFICES ASSUME Init PROVE StartInv
  OBVIOUS
<1>1. /\ pc = [a \in Actors |-> IF a = "main" THEN "init" ELSE "idle"]
      /\ job = [a \in Actors |-> NoJob] /\ todo = [a \in Actors |-> {}]
  BY DEF Init
<1>2. StartersApart
  BY <1>1, DeploymentAssumption DEF StartersApart, Actors, NoJob, Ending
<1>3. UnitsFresh /\ StartsProgress
  BY <1>1 DEF UnitsFresh, StartsProgress, Progressed, NoJob
<1>4. ReloadsOwn
  BY <1>1, DeploymentAssumption DEF ReloadsOwn, Actors, NoJob
<1>5. ChildrenStarted
  <2>1. contexts \in Seq(ContextRec)
    BY DeployInit DEF DeployInv, RegistryOK
  <2>2. \A i \in Ids : contexts[i].state = "New"
    <3>1. PICK order \in [1 .. Cardinality(Configured) -> Configured] :
            contexts = [i \in DOMAIN order |-> NewContext(order[i], TRUE)]
      BY DEF Init
    <3>2. DOMAIN contexts = Ids
      BY <2>1, LenProperties DEF Ids
    <3> QED
      BY <3>1, <3>2 DEF NewContext
  <2> QED
    BY <2>2 DEF ChildrenStarted
<1> QED
  BY <1>2, <1>3, <1>4, <1>5 DEF StartInv

(* A cascade starts a context's wrappers before it says so, and meets      *)
(* nobody on the way.                                                      *)
LEMMA CascadeStarts ==
  ASSUME DeployInv, StartInv, NEW b \in Actors, Cascade(b)
  PROVE  StartInv'
<1> DEFINE j == job[b]
           x == j.id
           c == contexts[x]
<1>0. StartersApart /\ UnitsFresh /\ ReloadsOwn /\ StartsProgress /\ ChildrenStarted
  BY DEF StartInv
<1>1. /\ contexts \in Seq(ContextRec) /\ j \in JobRec /\ j.op # "none" /\ x \in Ids
      /\ c \in ContextRec /\ ActorOK(b) /\ LocalsOK
      /\ b \in {"main", "redeployer", "manager"}
  <2>1. /\ contexts \in Seq(ContextRec) /\ j \in JobRec /\ j.op # "none" /\ ActorOK(b)
        /\ LocalsOK
    BY DEF Cascade, JobEnter, JobWrapper, JobLeave, DeployInv, RegistryOK, LocalsOK
  <2>2. x \in Ids
    BY <2>1 DEF ActorOK
  <2>3. c \in ContextRec
    BY <2>1, <2>2, ElementOfSeq DEF Ids
  <2>4. b # "watcher"
    BY <2>1 DEF ActorOK, NoJob
  <2> QED
    BY <2>1, <2>2, <2>3, <2>4, DeploymentAssumption DEF Actors
<1>2. /\ UNCHANGED <<todo, cur>>
      /\ \A a \in Actors : a # b => job'[a] = job[a] /\ pc'[a] = pc[a]
  BY <1>1 DEF Cascade, JobEnter, JobWrapper, JobLeave, LocalsOK
<1>3. /\ c.wrappers \in Seq(States) /\ Len(c.wrappers) \in Nat
      /\ j.step \in Nat /\ j.n \in Nat /\ j.op \in JobOps /\ j.ret \in JobRets
  BY <1>1, LenProperties DEF ContextRec, JobRec
\* What the three steps do.
<1>4. /\ \A i \in Ids : i # x => contexts'[i] = contexts[i]
      /\ contexts'[x].reloadable = c.reloadable
      /\ Len(contexts') = Len(contexts)
      /\ contexts'[x].state = "Started" => c.state = "Started" \/ j.op = "start"
  <2>1. DOMAIN contexts = Ids /\ Len(contexts) \in Nat
    BY <1>1, LenProperties DEF Ids
  <2>2. contexts' = contexts \/ \E d : contexts' = [contexts EXCEPT ![x] = d]
    BY DEF Cascade, JobEnter, JobWrapper, JobLeave
  <2>3. DOMAIN contexts' = Ids /\ \A i \in Ids : i # x => contexts'[i] = contexts[i]
    BY <2>1, <2>2
  <2>4. Len(contexts') = Len(contexts)
    <3>1. contexts' \in Seq(ContextRec)
      BY CascadeKeeps DEF Kept, DeployInv, RegistryOK
    <3>2. DOMAIN contexts' = 1 .. Len(contexts') /\ Len(contexts') \in Nat
      BY <3>1, LenProperties
    <3> QED
      BY <2>1, <2>3, <3>2 DEF Ids
  <2>5. CASE JobEnter(b)
    BY <1>1, <2>1, <2>3, <2>4, <2>5 DEF JobEnter, Transitional, ContextRec
  <2>6. CASE JobWrapper(b)
    BY <1>1, <2>1, <2>3, <2>4, <2>6 DEF JobWrapper, ContextRec
  <2>7. CASE JobLeave(b)
    BY <1>1, <1>3, <2>1, <2>3, <2>4, <2>7 DEF JobLeave, Final, JobOps, ContextRec
  <2> QED
    BY <2>5, <2>6, <2>7 DEF Cascade
<1>5. \/ /\ pc'[b] = pc[b] /\ job'[b].op = j.op /\ job'[b].id = x /\ job'[b].ret = j.ret
         /\ JobEnter(b) \/ JobWrapper(b)
      \/ pc'[b] = j.ret /\ job'[b] = NoJob /\ JobLeave(b)
  BY <1>1 DEF Cascade, JobEnter, JobWrapper, JobLeave, LocalsOK, JobRec
<1>6. Ids' = Ids
  BY <1>4 DEF Ids
<1>7. StartersApart'
  <2>1. pc'["main"] = pc["main"]
    BY <1>0, <1>2, <1>5, <1>1 DEF StartersApart, Actors
  <2>2. \A a \in Roles : pc'[a] # "idle" \/ job'[a].op # "none" => pc["main"] \in Begun
    BY <1>0, <1>1, <1>2, <1>5 DEF StartersApart, Actors, NoJob
  <2>3. "main" \in Actors /\ ("manager" \in Roles => "manager" \in Actors)
    BY DEF Actors
  <2> QED
    BY <1>0, <1>2, <1>5, <2>1, <2>2, <2>3 DEF StartersApart, NoJob
<1>8. UnitsFresh'
  <2> SUFFICES ASSUME NEW a \in Actors, pc'[a] = "deploy"
               PROVE  ~contexts'[cur[a]].reloadable /\ contexts'[cur[a]].state # "Started"
    BY <1>2 DEF UnitsFresh
  <2>1. pc[a] = "deploy"
    <3>1. j.ret # "deploy"
      BY <1>3 DEF JobRets
    <3> QED
      BY <1>2, <1>5, <3>1
  <2>2. /\ cur[a] \in Ids /\ a \in Roles
        /\ ~contexts[cur[a]].reloadable /\ contexts[cur[a]].state # "Started"
    BY <1>0, <2>1 DEF UnitsFresh, DeployInv, ActorOK, Scanning, Actors
  <2>3. j.op = "start" => cur[a] # x
    <3>1. pc["main"] \in Begun
      BY <1>0, <2>1, <2>2 DEF StartersApart
    <3>2. j.op = "start" => b = "redeployer" /\ b \in Roles
      BY <1>0, <1>1, <3>1 DEF StartersApart, Begun, Ending, Actors
    <3>3. b = "redeployer" => c.reloadable
      BY <1>0, <1>1 DEF ReloadsOwn, Actors
    <3> QED
      BY <2>2, <3>2, <3>3
  <2> QED
    BY <1>4, <2>2, <2>3
<1>9. ReloadsOwn'
  <2> SUFFICES ASSUME "redeployer" \in Roles PROVE ReloadsOwn'
    BY DEF ReloadsOwn
  <2>0. "redeployer" \in Actors
    BY DEF Actors
  <2>1. \A i \in todo'["redeployer"] : i \in Ids' /\ contexts'[i].reloadable
    BY <1>0, <1>2, <1>4, <1>6 DEF ReloadsOwn
  <2>2. CASE b = "redeployer"
    <3>1. c.reloadable /\ pc[b] # "reopen"
      BY <1>0, <1>1, <2>2 DEF ReloadsOwn, ActorOK, NoJob
    <3>2. CASE JobEnter(b) \/ JobWrapper(b)
      <4>1. /\ job'[b].id = x /\ job'[b].op = j.op /\ job'[b].ret = j.ret /\ pc'[b] = pc[b]
        BY <1>1, <3>2 DEF JobEnter, JobWrapper, LocalsOK, JobRec
      <4> QED
        BY <1>0, <1>2, <1>4, <2>1, <2>2, <3>1, <4>1 DEF ReloadsOwn
    <3>3. CASE JobLeave(b)
      <4>1. job'[b] = NoJob /\ pc'[b] = j.ret
        BY <1>1, <3>3 DEF JobLeave, LocalsOK
      <4>2. j.ret = "reopen" =>
              cur[b] = x /\ contexts'[x].reloadable /\ contexts'[x].state = "Stopped"
        <5>1. j.ret = "reopen" => j.op = "stop" /\ cur[b] = x
          BY <1>0, <2>2 DEF ReloadsOwn
        <5>2. j.op = "stop" => contexts'[x].state = "Stopped"
          BY <1>1, <3>3 DEF JobLeave, Final, Ids, ContextRec
        <5> QED
          BY <1>4, <3>1, <5>1, <5>2
      <4> QED
        BY <1>2, <2>1, <2>2, <4>1, <4>2 DEF ReloadsOwn, NoJob
    <3> QED
      BY <3>2, <3>3 DEF Cascade
  <2>3. CASE b # "redeployer"
    <3>1. pc'["redeployer"] = pc["redeployer"] /\ job'["redeployer"] = job["redeployer"]
      BY <1>2, <2>0, <2>3
    <3>2. pc["redeployer"] = "reopen" => FALSE
      <4>1. pc["redeployer"] = "reopen" => pc["main"] = "running"
        BY <1>0 DEF StartersApart, Begun
      <4>2. b = "main" \/ (b = "manager" /\ b \in Roles)
        BY <1>1, <2>3 DEF Actors
      <4> QED
        BY <1>0, <1>1, <4>1, <4>2 DEF StartersApart, Walks
    <3>3. job["redeployer"].op # "none" => job["redeployer"].id \in Ids
      BY <2>0 DEF DeployInv, ActorOK
    <3> QED
      BY <1>0, <1>2, <1>4, <2>1, <3>1, <3>2, <3>3 DEF ReloadsOwn
  <2> QED
    BY <2>2, <2>3
<1>10. CASE j.op # "start"
  <2>1. \A a \in Actors : job[a].op # "start"
    BY <1>0, <1>1, <1>10, SoleStarter
  <2>2. StartsProgress'
    BY <1>2, <1>5, <1>10, <2>1 DEF StartsProgress, Progressed, NoJob
  <2>3. ChildrenStarted'
    <3> SUFFICES ASSUME NEW i \in Ids, contexts'[i].state = "Started", Quiet(i)'
                 PROVE  AllStarted(contexts[i])'
      BY <1>6 DEF ChildrenStarted
    <3>1. CASE i = x
      <4>1. JobLeave(b)
        BY <1>5, <3>1 DEF Quiet
      <4>2. contexts'[x].state = Final(j.op)
        BY <1>1, <4>1 DEF JobLeave, Ids, ContextRec
      <4> QED
        BY <1>3, <1>1, <1>10, <3>1, <4>2 DEF Final, JobOps
    <3>2. CASE i # x
      <4>1. contexts'[i] = contexts[i] /\ Quiet(i)
        BY <1>2, <1>4, <3>2 DEF Quiet
      <4> QED
        BY <1>0, <4>1 DEF ChildrenStarted, AllStarted
    <3> QED
      BY <3>1, <3>2
  <2> QED
    BY <1>7, <1>8, <1>9, <2>2, <2>3 DEF StartInv
<1>11. CASE j.op = "start"
  <2>1. \A a \in Actors : a # b => job'[a].op = "none"
    BY <1>0, <1>2, <1>11, SoleStarter
  <2>2. Progressed(b)
    BY <1>0 DEF StartsProgress
  <2>3. CASE JobEnter(b)
    <3>1. /\ contexts'[x].wrappers = c.wrappers
          /\ job'[b].n = Len(c.wrappers) /\ job'[b].step = 1 /\ job'[b].id = x
      BY <1>1, <1>11, <2>3 DEF JobEnter, LocalsOK, JobRec, Ids, ContextRec
    <3>2. Progressed(b)'
      BY <3>1 DEF Progressed
    <3> QED
      BY <2>1, <3>1, <3>2, <1>0, <1>2, <1>4, <1>6, <1>7, <1>8, <1>9
         DEF StartInv, StartsProgress, Progressed, ChildrenStarted, AllStarted, Quiet
  <2>4. CASE JobWrapper(b)
    <3>1. /\ j.n = Len(c.wrappers) /\ j.step \in 1 .. j.n
          /\ \A k \in 1 .. (j.step - 1) : c.wrappers[k] = "Started"
      BY <1>3, <1>11, <2>2, <2>4 DEF Progressed, JobWrapper
    <3>2. /\ contexts'[x].wrappers = [c.wrappers EXCEPT ![j.step] = "Started"]
          /\ job'[b].n = j.n /\ job'[b].step = j.step + 1 /\ job'[b].id = x
      <4>1. contexts' = [contexts EXCEPT ![x] =
                           [c EXCEPT !.wrappers = [c.wrappers EXCEPT ![j.step] = Final(j.op)]]]
        BY <2>4 DEF JobWrapper
      <4>2. contexts'[x] = [c EXCEPT !.wrappers = [c.wrappers EXCEPT ![j.step] = Final(j.op)]]
        BY <1>1, <4>1 DEF Ids
      <4>3. contexts'[x].wrappers = [c.wrappers EXCEPT ![j.step] = Final(j.op)]
        BY <1>1, <4>2 DEF ContextRec
      <4>4. Final(j.op) = "Started"
        BY <1>11 DEF Final
      <4>5. job'[b].n = j.n /\ job'[b].step = j.step + 1 /\ job'[b].id = x
        BY <1>1, <2>4 DEF JobWrapper, LocalsOK, JobRec
      <4> QED
        BY <4>3, <4>4, <4>5
    <3>3. /\ Len(contexts'[x].wrappers) = Len(c.wrappers)
          /\ \A k \in 1 .. j.step : contexts'[x].wrappers[k] = "Started"
      <4>1. "Started" \in States /\ j.step \in 1 .. Len(c.wrappers)
        BY <3>1 DEF States
      <4> QED
        BY <1>3, <3>1, <3>2, <4>1, ExceptSeq
    <3>4. Progressed(b)'
      <4>1. (j.step + 1) - 1 = j.step
        BY <1>3
      <4> QED
        BY <3>1, <3>2, <3>3, <4>1 DEF Progressed
    <3>5. StartsProgress'
      BY <2>1, <3>4 DEF StartsProgress, Progressed
    <3>6. ChildrenStarted'
      <4> SUFFICES ASSUME NEW i \in Ids, contexts'[i].state = "Started", Quiet(i)'
                   PROVE  AllStarted(contexts[i])'
        BY <1>6 DEF ChildrenStarted
      <4>1. i # x
        BY <3>2 DEF Quiet
      <4>2. contexts'[i] = contexts[i]
        BY <1>4, <4>1
      <4>3. Quiet(i)
        BY <1>2, <4>1 DEF Quiet
      <4> QED
        BY <1>0, <4>2, <4>3 DEF ChildrenStarted, AllStarted
    <3> QED
      BY <1>7, <1>8, <1>9, <3>5, <3>6 DEF StartInv
  <2>5. CASE JobLeave(b)
    <3>1. /\ j.n = Len(c.wrappers) /\ j.step = j.n + 1
          /\ \A k \in 1 .. (j.step - 1) : c.wrappers[k] = "Started"
      BY <1>3, <1>11, <2>2, <2>5 DEF Progressed, JobLeave
    <3>2. contexts'[x].wrappers = c.wrappers /\ job'[b] = NoJob
      BY <1>1, <2>5 DEF JobLeave, LocalsOK, Ids, ContextRec
    <3>3. AllStarted(contexts'[x])
      <4>1. j.step - 1 = Len(c.wrappers)
        BY <1>3, <3>1
      <4> QED
        BY <3>1, <3>2, <4>1 DEF AllStarted
    <3>4. ChildrenStarted'
      <4> SUFFICES ASSUME NEW i \in Ids, contexts'[i].state = "Started", Quiet(i)', i # x
                   PROVE  AllStarted(contexts[i])'
        BY <1>6, <3>3 DEF ChildrenStarted, AllStarted
      <4>1. contexts'[i] = contexts[i]
        BY <1>4
      <4>2. Quiet(i)
        BY <1>2 DEF Quiet
      <4> QED
        BY <1>0, <4>1, <4>2 DEF ChildrenStarted, AllStarted
    <3>5. StartsProgress'
      BY <2>1, <3>2 DEF StartsProgress, Progressed, NoJob
    <3> QED
      BY <1>7, <1>8, <1>9, <3>4, <3>5 DEF StartInv
  <2> QED
    BY <2>3, <2>4, <2>5 DEF Cascade
<1> QED
  BY <1>10, <1>11

(* main's walk: it begins with every other actor idle, or ends the server. *)
LEMMA MainStarts ==
  ASSUME DeployInv, StartInv, OneStarter,
         \/ HostBegin \/ Signal
         \/ \E op \in {"init", "start", "stop", "destroy"} :
              HostEnd(op) \/ \E p \in Apps : HostVisit(op, p)
  PROVE  StartInv'
<1>0. /\ StartersApart /\ UnitsFresh /\ ReloadsOwn /\ LocalsOK /\ "main" \in Actors
      /\ \A a \in Roles : a \in Actors /\ a # "main"
      /\ job["main"].op = "none" => job["main"] = NoJob
  BY DeploymentAssumption DEF StartInv, DeployInv, ActorOK, Actors
<1> DEFINE Goal == /\ contexts' = contexts
                   /\ \A a \in Actors : a # "main" =>
                        /\ pc'[a] = pc[a] /\ todo'[a] = todo[a]
                        /\ cur'[a] = cur[a] /\ job'[a] = job[a]
                   /\ pc'["main"] # "deploy"
<1>1. Goal
  <2>1. CASE HostBegin \/ Signal
    BY <1>0, <2>1 DEF HostBegin, Signal, LocalsOK
  <2>2. ASSUME NEW op \in {"init", "start", "stop", "destroy"}, HostEnd(op)
        PROVE  Goal
    BY <1>0, <2>2 DEF HostEnd, Following, LocalsOK
  <2>3. ASSUME NEW op \in {"init", "start", "stop", "destroy"}, NEW p \in Apps,
               HostVisit(op, p)
        PROVE  Goal
    <3>1. pc["main"] # "deploy"
      BY <2>3 DEF HostVisit, Walking
    <3> QED
      BY <1>0, <2>3, <3>1 DEF HostVisit, BeginJob, LocalsOK
  <2> QED
    BY <2>1, <2>2, <2>3
<1>2. UnitsFresh' /\ ReloadsOwn'
  BY <1>0, <1>1, FreshKept, OwnKept
<1>3. CASE HostBegin \/ Signal
  <2>1. job["main"] = NoJob /\ job' = job
    BY <1>0, <1>3 DEF HostBegin, Signal, StartersApart, Walks
  <2>2. StartsProgress' /\ ChildrenStarted'
    BY <1>0, <1>1, <2>1, NoneTouched DEF NoJob
  <2>3. StartersApart'
    <3>1. CASE HostBegin
      <4>1. /\ pc["main"] \in Begun => pc'["main"] \in Begun
            /\ pc'["main"] \in Ending => pc["main"] \in Ending
        BY <1>0, <3>1 DEF HostBegin, LocalsOK, Begun, Ending
      <4> QED
        BY <1>0, <1>1, <2>1, <4>1 DEF StartersApart, NoJob
    <3>2. CASE Signal
      <4>1. "redeployer" \notin Roles /\ pc'["main"] \in Begun
        BY <1>0, <3>2 DEF Signal, OneStarter, LocalsOK, Begun, Ending
      <4> QED
        BY <1>0, <1>1, <2>1, <4>1 DEF StartersApart, NoJob
    <3> QED
      BY <1>3, <3>1, <3>2
  <2> QED
    BY <1>2, <2>2, <2>3 DEF StartInv
<1>4. ASSUME NEW op \in {"init", "start", "stop", "destroy"}, HostEnd(op)
      PROVE  StartInv'
  <2>1. job["main"] = NoJob /\ job' = job
    BY <1>4 DEF HostEnd
  <2>2. StartsProgress' /\ ChildrenStarted'
    BY <1>0, <1>1, <2>1, NoneTouched DEF NoJob
  <2>3. /\ pc["main"] \in Begun => pc'["main"] \in Begun
        /\ pc'["main"] \in Ending => pc["main"] \in Ending
    BY <1>0, <1>4 DEF HostEnd, Walking, Following, LocalsOK, Begun, Ending
  <2>4. StartersApart'
    BY <1>0, <1>1, <2>1, <2>3 DEF StartersApart, NoJob
  <2> QED
    BY <1>2, <2>2, <2>4 DEF StartInv
<1>5. ASSUME NEW op \in {"init", "start", "stop", "destroy"}, NEW p \in Apps, HostVisit(op, p)
      PROVE  StartInv'
  <2>1. /\ job["main"] = NoJob /\ pc' = pc
        /\ job'["main"].step = 0 /\ job'["main"].op = op
        /\ job'["main"].ret = pc["main"]
    BY <1>0, <1>5 DEF HostVisit, BeginJob, LocalsOK
  <2>2. StartsProgress' /\ ChildrenStarted'
    BY <1>0, <1>1, <2>1, NoneTouched DEF NoJob
  <2>3. pc["main"] \in Walks /\ (op = "start" => pc["main"] = "starting")
    BY <1>5 DEF HostVisit, Walking, Walks
  <2>4. StartersApart'
    BY <1>0, <1>1, <2>1, <2>3 DEF StartersApart
  <2> QED
    BY <1>2, <2>2, <2>4 DEF StartInv
<1> QED
  BY <1>3, <1>4, <1>5

(* Deployers bring in contexts that are not started.                       *)
LEMMA ScansStart ==
  ASSUME DeployInv, DeployInv', StartInv, OneStarter, NEW a \in Roles,
         a = "watcher" \/ a = "manager",
         \/ Up /\ pc[a] = "idle" /\ job[a].op = "none" /\ Scan(a)
         \/ DeployAll(a)
  PROVE  StartInv'
<1>0. /\ StartersApart /\ UnitsFresh /\ ReloadsOwn /\ LocalsOK
      /\ a \in Actors /\ "main" \in Actors /\ a # "main" /\ a # "redeployer"
      /\ ("redeployer" \in Roles => "redeployer" \in Actors)
  BY DeploymentAssumption DEF StartInv, DeployInv, Actors
<1>1. /\ job' = job
      /\ \A b \in Actors : b # a => /\ pc'[b] = pc[b] /\ todo'[b] = todo[b]
                                    /\ cur'[b] = cur[b]
  BY <1>0 DEF Scan, DeployAll, NextUnit, OpenUnit, DeployUnit, ScanDone, LocalsOK
<1>2. pc["main"] \in Begun
  BY <1>0 DEF Up, DeployAll, NextUnit, OpenUnit, DeployUnit, ScanDone, StartersApart, Begun
<1>3. StartersApart'
  BY <1>0, <1>1, <1>2 DEF StartersApart
<1>4. CASE Scan(a) \/ NextUnit(a) \/ ScanDone(a)
  <2>1. contexts' = contexts /\ pc'[a] # "deploy"
    BY <1>0, <1>4 DEF Scan, NextUnit, ScanDone, LocalsOK
  <2>2. UnitsFresh' /\ ReloadsOwn'
    BY <1>0, <1>1, <2>1, FreshKept, OwnKept
  <2>3. StartsProgress' /\ ChildrenStarted'
    BY <1>0, <1>1, <2>1 DEF StartInv, StartsProgress, Progressed, ChildrenStarted,
                            AllStarted, Quiet, Ids
  <2> QED
    BY <1>3, <2>2, <2>3 DEF StartInv
<1>5. CASE OpenUnit(a)
  <2>1. CASE ~Opens(cur[a])
    <3>1. contexts' = contexts /\ pc'[a] # "deploy"
      BY <1>0, <1>5, <2>1 DEF OpenUnit, LocalsOK
    <3>2. UnitsFresh' /\ ReloadsOwn'
      BY <1>0, <1>1, <3>1, FreshKept, OwnKept
    <3>3. StartsProgress' /\ ChildrenStarted'
      BY <1>0, <1>1, <3>1 DEF StartInv, StartsProgress, Progressed, ChildrenStarted,
                              AllStarted, Quiet, Ids
    <3> QED
      BY <1>3, <3>2, <3>3 DEF StartInv
  <2>2. CASE Opens(cur[a])
    <3>1. /\ contexts' = Append(contexts, NewContext(cur[a], FALSE))
          /\ cur' = [cur EXCEPT ![a] = Len(contexts')]
      BY <1>5, <2>2 DEF OpenUnit
    <3>2. /\ contexts \in Seq(ContextRec) /\ Len(contexts) \in Nat
      BY LenProperties DEF DeployInv, RegistryOK
    <3>3. NewContext(cur[a], FALSE) \in ContextRec
      <4>1. cur[a] \in Apps
        BY <1>0, <1>5 DEF DeployInv, ActorOK, OpenUnit
      <4>2. <<>> \in Seq(States)
        BY EmptySeq
      <4> QED
        BY <4>1, <4>2 DEF NewContext, ContextRec, States
    <3>4. /\ Len(contexts') = Len(contexts) + 1
          /\ \A i \in Ids : contexts'[i] = contexts[i]
          /\ contexts'[Len(contexts) + 1] = NewContext(cur[a], FALSE)
      BY <3>1, <3>2, <3>3, AppendProperties DEF Ids
    <3>5. /\ Ids' = Ids \cup {Len(contexts')}
          /\ ~contexts'[Len(contexts')].reloadable
          /\ contexts'[Len(contexts')].state = "New"
      BY <3>2, <3>4 DEF Ids, NewContext
    <3>6. UnitsFresh'
      <4>1. cur'[a] = Len(contexts')
        BY <1>0, <3>1 DEF LocalsOK
      <4>2. \A b \in Actors : b # a /\ pc[b] = "deploy" => cur[b] \in Ids
        BY DEF DeployInv, ActorOK
      <4> SUFFICES ASSUME NEW b \in Actors, pc'[b] = "deploy"
                   PROVE  /\ ~contexts'[cur'[b]].reloadable
                          /\ contexts'[cur'[b]].state # "Started"
        BY DEF UnitsFresh
      <4>3. CASE b = a
        BY <3>5, <4>1, <4>3
      <4>4. CASE b # a
        <5>1. cur'[b] = cur[b] /\ pc[b] = "deploy" /\ cur[b] \in Ids
          BY <1>1, <4>2, <4>4
        <5> QED
          BY <1>0, <3>4, <5>1 DEF UnitsFresh
      <4> QED
        BY <4>3, <4>4
    <3>7. ReloadsOwn'
      <4> SUFFICES ASSUME "redeployer" \in Roles PROVE ReloadsOwn'
        BY DEF ReloadsOwn
      <4>1. /\ job["redeployer"].op # "none" => job["redeployer"].id \in Ids
            /\ pc["redeployer"] = "reopen" => cur["redeployer"] \in Ids
        BY <1>0 DEF DeployInv, ActorOK
      <4> QED
        BY <1>0, <1>1, <3>4, <3>5, <4>1 DEF ReloadsOwn
    <3>8. StartsProgress'
      <4>1. \A b \in Actors : job[b].op = "start" => job[b].id \in Ids
        BY DEF DeployInv, ActorOK
      <4> QED
        BY <1>1, <3>4, <4>1 DEF StartInv, StartsProgress, Progressed
    <3>9. ChildrenStarted'
      <4> SUFFICES ASSUME NEW i \in Ids', contexts'[i].state = "Started", Quiet(i)'
                   PROVE  AllStarted(contexts[i])'
        BY DEF ChildrenStarted
      <4>1. i \in Ids
        BY <3>5
      <4> QED
        BY <1>1, <3>4, <4>1 DEF StartInv, ChildrenStarted, AllStarted, Quiet
    <3> QED
      BY <1>3, <3>6, <3>7, <3>8, <3>9 DEF StartInv
  <2> QED
    BY <2>1, <2>2
<1>6. CASE DeployUnit(a)
  <2> DEFINE x == cur[a]
  <2>1. /\ pc[a] = "deploy" /\ x \in Ids /\ pc'[a] # "deploy"
        /\ contexts \in Seq(ContextRec) /\ contexts' \in Seq(ContextRec)
        /\ contexts' = [contexts EXCEPT ![x] = Deploy(contexts[x])]
    BY <1>0, <1>6 DEF DeployUnit, DeployInv, ActorOK, RegistryOK, LocalsOK
  <2>2. ~contexts[x].reloadable /\ contexts[x].state # "Started" /\ contexts[x] \in ContextRec
    BY <1>0, <2>1, ElementOfSeq DEF UnitsFresh, Ids
  <2>3. DOMAIN contexts = Ids /\ DOMAIN contexts' = 1 .. Len(contexts')
        /\ Len(contexts) \in Nat /\ Len(contexts') \in Nat
    BY <2>1, LenProperties DEF Ids
  <2>4. /\ Len(contexts') = Len(contexts)
        /\ \A i \in Ids : i # x => contexts'[i] = contexts[i]
        /\ contexts'[x] = Deploy(contexts[x])
    BY <2>1, <2>3 DEF Ids
  <2>5. contexts'[x].state = contexts[x].state /\ contexts'[x].reloadable = contexts[x].reloadable
    BY <2>2, <2>4 DEF Deploy, DeployDescriptor, ContextRec
  <2>6. \A b \in Actors : job[b].op = "start" => job[b].id # x
    <3> SUFFICES ASSUME NEW b \in Actors, job[b].op = "start" PROVE job[b].id # x
      OBVIOUS
    <3>1. b # "main"
      BY <1>0, <1>2 DEF StartersApart, Begun, Ending
    <3>2. b = "redeployer"
      BY <1>0, <3>1, DeploymentAssumption DEF DeployInv, ActorOK, NoJob, StartersApart, Actors
    <3>3. contexts[job[b].id].reloadable
      BY <3>2, <1>0 DEF ReloadsOwn, Actors, DeploymentAssumption
    <3> QED
      BY <2>2, <3>3
  <2> HIDE DEF x
  <2>7. StartsProgress' /\ ChildrenStarted'
    BY <1>0, <1>1, <2>1, <2>2, <2>4, <2>5, <2>6, OneRewired
  <2>8. Ids' = Ids /\ \A i \in Ids : contexts'[i].reloadable = contexts[i].reloadable
    BY <2>4, <2>5 DEF Ids
  <2>9. UnitsFresh'
    <3>1. \A b \in Actors : pc[b] = "deploy" => cur[b] \in Ids
      BY DEF DeployInv, ActorOK
    <3> QED
      BY <1>0, <1>1, <2>1, <2>2, <2>4, <2>5, <3>1 DEF UnitsFresh
  <2>10. ReloadsOwn'
    <3> SUFFICES ASSUME "redeployer" \in Roles PROVE ReloadsOwn'
      BY DEF ReloadsOwn
    <3>1. /\ job["redeployer"].op # "none" => job["redeployer"].id \in Ids
          /\ pc["redeployer"] = "reopen" => cur["redeployer"] \in Ids
      BY <1>0 DEF DeployInv, ActorOK
    <3>2. pc["redeployer"] = "reopen" => cur["redeployer"] # x
      BY <1>0, <2>2 DEF ReloadsOwn
    <3> QED
      BY <1>0, <1>1, <2>4, <2>8, <3>1, <3>2 DEF ReloadsOwn
  <2> QED
    BY <1>3, <2>7, <2>9, <2>10 DEF StartInv
<1> QED
  BY <1>4, <1>5, <1>6 DEF DeployAll

(* The redeployer stops a context before it wires and starts it.           *)
LEMMA RedeployerStarts ==
  ASSUME DeployInv, DeployInv', StartInv, OneStarter, "redeployer" \in Roles,
         RedeployTick \/ (\E id \in Ids : Observe(id)) \/ Reopen \/ TickDone
  PROVE  StartInv'
<1> DEFINE r == "redeployer"
<1>0. /\ StartersApart /\ UnitsFresh /\ ReloadsOwn /\ LocalsOK /\ RegistryOK /\ ActorOK(r)
      /\ r \in Actors /\ "main" \in Actors
      /\ \A a \in Roles : a \in Actors /\ a # "main"
  BY DeploymentAssumption DEF StartInv, DeployInv, Actors
<1>1. \A a \in Actors : a # r => /\ pc'[a] = pc[a] /\ todo'[a] = todo[a]
                                 /\ cur'[a] = cur[a] /\ job'[a] = job[a]
  BY <1>0 DEF RedeployTick, Observe, Reopen, TickDone, BeginJob, LocalsOK
<1>2. pc["main"] \in Begun /\ pc'[r] # "deploy" /\ job[r].op = "none"
  <2>1. pc["main"] \in Begun
    BY <1>0 DEF RedeployTick, Observe, Reopen, TickDone, Up, StartersApart, Begun
  <2>2. pc'[r] # "deploy"
    BY <1>0 DEF RedeployTick, Observe, Reopen, TickDone, LocalsOK
  <2>3. job[r].op = "none"
    BY <1>0 DEF RedeployTick, Observe, Reopen, TickDone, ActorOK, NoJob, ReloadsOwn
  <2> QED
    BY <2>1, <2>2, <2>3
<1>3. StartersApart'
  BY <1>0, <1>1, <1>2 DEF StartersApart
<1>4. CASE RedeployTick
  <2>1. /\ contexts' = contexts /\ job' = job /\ pc'[r] = "observe" /\ pc[r] = "idle"
        /\ todo'[r] = {host[p] : p \in {q \in Registered : contexts[host[q]].reloadable}}
    BY <1>0, <1>4 DEF RedeployTick, LocalsOK
  <2>2. \A i \in todo'[r] : i \in Ids /\ contexts[i].reloadable
    BY <1>0, <2>1 DEF RegistryOK, Registered
  <2>3. ReloadsOwn'
    <3>1. job[r] = NoJob /\ Ids' = Ids
      BY <1>0, <1>2, <2>1 DEF ActorOK, Ids
    <3> QED
      BY <2>1, <2>2, <3>1 DEF ReloadsOwn, NoJob
  <2>4. UnitsFresh'
    BY <1>1, <1>2, <2>1, FreshKept
  <2>5. StartsProgress' /\ ChildrenStarted'
    BY <1>0, <1>2, <2>1, NoneTouched
  <2> QED
    BY <1>3, <2>3, <2>4, <2>5 DEF StartInv
<1>5. ASSUME NEW id \in Ids, Observe(id)
      PROVE  StartInv'
  <2>1. /\ contexts' = contexts /\ pc'[r] = "observe" /\ pc' = pc
        /\ id \in todo[r] /\ todo'[r] = todo[r] \ {id}
        /\ \/ job'[r] = job[r] /\ cur'[r] = cur[r]
           \/ /\ job'[r].op = "stop" /\ job'[r].id = id /\ job'[r].ret = "reopen"
              /\ job'[r].step = 0 /\ cur'[r] = id
    BY <1>0, <1>5 DEF Observe, BeginJob, LocalsOK
  <2>2. contexts[id].reloadable
    BY <1>0, <2>1 DEF ReloadsOwn
  <2>3. ReloadsOwn'
    <3>1. Ids' = Ids
      BY <2>1 DEF Ids
    <3> QED
      BY <1>0, <2>1, <2>2, <3>1 DEF ReloadsOwn
  <2>4. UnitsFresh'
    BY <1>1, <1>2, <2>1, FreshKept
  <2>5. StartsProgress' /\ ChildrenStarted'
    BY <1>0, <1>1, <1>2, <2>1, NoneTouched
  <2> QED
    BY <1>3, <2>3, <2>4, <2>5 DEF StartInv
<1>6. CASE TickDone
  <2>1. /\ contexts' = contexts /\ job' = job /\ todo' = todo /\ cur' = cur
        /\ pc'[r] = "idle"
    BY <1>0, <1>6 DEF TickDone, LocalsOK
  <2>2. ReloadsOwn'
    BY <1>0, <1>2, <2>1 DEF ReloadsOwn, ActorOK, NoJob, Ids
  <2>3. UnitsFresh'
    BY <1>1, <1>2, <2>1, FreshKept
  <2>4. StartsProgress' /\ ChildrenStarted'
    BY <1>0, <1>2, <2>1, NoneTouched
  <2> QED
    BY <1>3, <2>2, <2>3, <2>4 DEF StartInv
<1>7. CASE Reopen
  <2> DEFINE x == cur[r]
  <2>1. /\ pc[r] = "reopen" /\ x \in Ids
        /\ contexts[x].reloadable /\ contexts[x].state = "Stopped"
        /\ pc'[r] = "observe" /\ todo' = todo
    BY <1>0, <1>7 DEF Reopen, ActorOK, ReloadsOwn, LocalsOK
  <2>2. /\ contexts \in Seq(ContextRec) /\ contexts' \in Seq(ContextRec)
        /\ contexts[x] \in ContextRec
    BY <1>0, <2>1, ElementOfSeq DEF DeployInv, RegistryOK, Ids
  <2>3. \/ contexts' = contexts
        \/ contexts' = [contexts EXCEPT ![x] = DeployDescriptor(contexts[x])]
    BY <1>7 DEF Reopen
  <2>4. /\ DOMAIN contexts = Ids /\ DOMAIN contexts' = 1 .. Len(contexts')
        /\ Len(contexts) \in Nat /\ Len(contexts') \in Nat
    BY <2>2, LenProperties DEF Ids
  <2>5. /\ Len(contexts') = Len(contexts) /\ Ids' = Ids
        /\ \A i \in Ids : i # x => contexts'[i] = contexts[i]
    <3>1. DOMAIN contexts' = Ids /\ \A i \in Ids : i # x => contexts'[i] = contexts[i]
      BY <2>3, <2>4
    <3>2. Len(contexts') = Len(contexts)
      <4> DEFINE m == Len(contexts)
                 n == Len(contexts')
      <4>1. m \in Nat /\ n \in Nat /\ 1 .. m = 1 .. n
        BY <2>4, <3>1 DEF Ids
      <4> HIDE DEF m, n
      <4>2. m = n
        BY <4>1
      <4> QED
        BY <4>2 DEF m, n
    <3> QED
      BY <3>1, <3>2 DEF Ids
  <2>6. contexts'[x].state = "Stopped" /\ contexts'[x].reloadable
    <3>1. CASE contexts' = contexts
      BY <2>1, <3>1
    <3>2. CASE contexts' = [contexts EXCEPT ![x] = DeployDescriptor(contexts[x])]
      <4>1. contexts'[x] = DeployDescriptor(contexts[x])
        BY <2>1, <2>4, <3>2
      <4> QED
        BY <2>1, <2>2, <4>1 DEF DeployDescriptor, ContextRec
    <3> QED
      BY <2>3, <3>1, <3>2
  <2>7. \/ job'[r] = job[r]
        \/ /\ job'[r].op = "start" /\ job'[r].id = x /\ job'[r].ret = "observe"
           /\ job'[r].step = 0
    BY <1>0, <1>7 DEF Reopen, BeginJob, LocalsOK
  <2>8. job[r] = NoJob
    BY <1>0, <1>2 DEF ActorOK
  <2> HIDE DEF x
  <2>9. \A a \in Actors : job[a].op # "start"
    <3>1. pc["main"] = "running"
      BY <1>0, <1>2 DEF StartersApart, Begun
    <3>2. job["main"].op # "start"
      BY <1>0, <3>1 DEF StartersApart
    <3>3. "watcher" \in Actors => job["watcher"].op = "none"
      BY DEF DeployInv, ActorOK, NoJob
    <3>4. "manager" \in Roles => job["manager"].op # "start"
      BY <1>0 DEF StartersApart
    <3> QED
      BY <1>2, <3>2, <3>3, <3>4, DeploymentAssumption DEF Actors
  <2>10. StartsProgress' /\ ChildrenStarted'
    <3>1. contexts'[x].state # "Started"
      BY <2>6
    <3>2. job'[r] = job[r] \/ (job[r].op = "none" /\ job'[r].step = 0)
      BY <1>2, <2>7
    <3> QED
      BY <1>0, <1>1, <2>1, <2>2, <2>5, <2>9, <3>1, <3>2, OneRewired
  <2>11. UnitsFresh'
    <3> SUFFICES ASSUME NEW b \in Actors, pc'[b] = "deploy"
                 PROVE  /\ ~contexts'[cur'[b]].reloadable
                        /\ contexts'[cur'[b]].state # "Started"
      BY DEF UnitsFresh
    <3>1. b # r /\ cur'[b] = cur[b] /\ pc[b] = "deploy"
      BY <1>1, <1>2
    <3>2. ~contexts[cur[b]].reloadable /\ contexts[cur[b]].state # "Started" /\ cur[b] \in Ids
      BY <1>0, <3>1 DEF UnitsFresh, DeployInv, ActorOK
    <3> QED
      BY <2>1, <2>5, <3>1, <3>2
  <2>12. ReloadsOwn'
    <3>1. \A i \in todo'[r] : i \in Ids' /\ contexts'[i].reloadable
      BY <1>0, <2>1, <2>5, <2>6 DEF ReloadsOwn
    <3> QED
      BY <2>1, <2>6, <2>7, <2>8, <3>1 DEF ReloadsOwn, NoJob
  <2> QED
    BY <1>3, <2>10, <2>11, <2>12 DEF StartInv
<1> QED
  BY <1>4, <1>5, <1>6, <1>7

(* The manager stops at most, where nobody restarts; the operator only     *)
(* changes the disk.                                                       *)
LEMMA OthersStart ==
  ASSUME DeployInv, StartInv, OneStarter, NEW p \in Apps,
         \/ \E op \in {"start", "stop"} : HandleStartStop(op, p)
         \/ HandleReload(p) \/ HandleUndeploy(p)
         \/ DropApp(p) \/ EditApp(p) \/ RemoveApp(p)
  PROVE  StartInv'
<1>0. /\ StartersApart /\ UnitsFresh /\ ReloadsOwn /\ LocalsOK /\ "main" \in Actors
      /\ \A a \in Roles : a \in Actors /\ a # "main"
  BY DeploymentAssumption DEF StartInv, DeployInv, Actors
<1>1. CASE HandleUndeploy(p) \/ DropApp(p) \/ EditApp(p) \/ RemoveApp(p)
  <2>1. UNCHANGED <<contexts, pc, todo, cur, job>>
    BY <1>1 DEF HandleUndeploy, DropApp, EditApp, RemoveApp, local
  <2> QED
    BY <2>1 DEF StartInv, StartersApart, UnitsFresh, ReloadsOwn, StartsProgress, Progressed,
                ChildrenStarted, AllStarted, Quiet, Ids
<1>2. CASE HandleReload(p)
  BY <1>2 DEF HandleReload, ManagerReady, OneStarter
<1>3. ASSUME NEW op \in {"start", "stop"}, HandleStartStop(op, p)
      PROVE  StartInv'
  <2>1. /\ op = "stop" /\ "redeployer" \notin Roles /\ "manager" \in Roles
        /\ pc["main"] = "running" /\ job["manager"] = NoJob
    BY <1>3 DEF HandleStartStop, ManagerReady, OneStarter, Up
  <2>2. /\ contexts' = contexts /\ pc' = pc /\ cur' = cur
        /\ job'["manager"].op = "stop" /\ job'["manager"].step = 0
        /\ \A a \in Actors : a # "manager" => job'[a] = job[a]
    BY <1>0, <1>3, <2>1 DEF HandleStartStop, BeginJob, LocalsOK
  <2>3. StartsProgress' /\ ChildrenStarted'
    BY <1>0, <2>1, <2>2, NoneTouched DEF NoJob
  <2>4. UnitsFresh' /\ ReloadsOwn'
    BY <1>0, <2>1, <2>2 DEF UnitsFresh, ReloadsOwn
  <2>5. StartersApart'
    BY <1>0, <2>1, <2>2 DEF StartersApart, Begun
  <2> QED
    BY <2>3, <2>4, <2>5 DEF StartInv
<1> QED
  BY <1>1, <1>2, <1>3

LEMMA StartInvKept ==
  ASSUME OneStarter, DeployInv, StartInv, [Next]_vars
  PROVE  StartInv'
<1>0. DeployInv' /\ "main" \in Actors
  BY StepKeeps DEF Kept, Actors
<1>1. CASE Main \/ Signal
  BY <1>0, <1>1, MainStarts, CascadeStarts DEF Main
<1>2. CASE Watcher
  <2>1. "watcher" \in Roles /\ "watcher" \in Actors
    BY <1>2 DEF Watcher, WatcherTick, Actors
  <2>2. job["watcher"].op = "none"
    BY <2>1 DEF DeployInv, ActorOK, NoJob
  <2> QED
    BY <1>0, <1>2, <2>1, <2>2, ScansStart DEF Watcher, WatcherTick
<1>3. CASE Redeployer
  <2>1. "redeployer" \in Roles /\ "redeployer" \in Actors
    BY <1>3 DEF Redeployer, RedeployTick, Actors
  <2> QED
    BY <1>0, <1>3, <2>1, RedeployerStarts, CascadeStarts DEF Redeployer
<1>4. CASE Manager
  <2>1. "manager" \in Roles => "manager" \in Actors
    BY DEF Actors
  <2>2. CASE HandleDeploy
    BY <1>0, <2>2, ScansStart DEF HandleDeploy, ManagerReady, NoJob
  <2> QED
    BY <1>0, <1>4, <2>1, <2>2, ScansStart, OthersStart, CascadeStarts DEF Manager
<1>5. CASE Operator
  BY <1>5, OthersStart DEF Operator
<1>6. CASE UNCHANGED vars
  BY <1>6 DEF vars, StartInv, StartersApart, UnitsFresh, ReloadsOwn, StartsProgress, Progressed,
              ChildrenStarted, AllStarted, Quiet, Ids
<1> QED
  BY <1>1, <1>2, <1>3, <1>4, <1>5, <1>6 DEF Next

(* "A parent is only considered `Started` once its children are started":  *)
(* a registered context that says so, with no cascade under way on it, has *)
(* every wrapper started, whatever the disk, the watcher's and the         *)
(* manager's deployments and the redeployer's bounces do.  The condition   *)
(* leaves out what breaks it: a manager's start beside a deployer or the   *)
(* redeployer, its stop or the shutdown beside the redeployer, and a       *)
(* reload of a context that is up.                                         *)
THEOREM StartedHasChildren ==
  ASSUME OneStarter
  PROVE  Spec => []StartedMeansChildren
<1>1. Init => DeployInv /\ StartInv
  BY DeployInit, InitStarts
<1>2. DeployInv /\ StartInv /\ [Next]_vars => (DeployInv /\ StartInv)'
  BY StepKeeps, StartInvKept DEF Kept
<1>3. DeployInv /\ StartInv => StartedMeansChildren
  <2> SUFFICES ASSUME DeployInv, StartInv, NEW p \in Registered,
                      contexts[host[p]].state = "Started", Quiet(host[p]),
                      NEW k \in DOMAIN contexts[host[p]].wrappers
               PROVE  contexts[host[p]].wrappers[k] = "Started"
    BY DEF StartedMeansChildren
  <2>1. host[p] \in Ids /\ contexts[host[p]] \in ContextRec
    BY ElementOfSeq DEF DeployInv, RegistryOK, Registered, Ids
  <2>2. DOMAIN contexts[host[p]].wrappers = 1 .. Len(contexts[host[p]].wrappers)
    BY <2>1, LenProperties DEF ContextRec
  <2> QED
    BY <2>1, <2>2 DEF StartInv, ChildrenStarted, AllStarted
<1> QED
  BY <1>1, <1>2, <1>3, PTL DEF Spec
=============================================================================
