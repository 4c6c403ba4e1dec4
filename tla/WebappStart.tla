---------------------------- MODULE WebappStart ----------------------------
(***************************************************************************)
(* Starting a web application in the embedded JVM, for one context path:   *)
(* WebappRegistrar::register (registration.rs) and then run_sci (sci.rs),  *)
(* over the WebappRuntime registries (jvm.rs) and the process-wide         *)
(* ContextRegistry (jni.rs).  The deployer is one thread; requests read    *)
(* the registries between any two of its steps, so what the invariants say *)
(* of `registry' they say of every request.  A redeployment runs the same  *)
(* steps again with another web.xml and may retire the context it          *)
(* replaced.                                                               *)
(***************************************************************************)
EXTENDS Naturals, Integers, Sequences, FiniteSets, SequencesExt

CONSTANTS
    Plans,          \* web.xml files: [servlets : Seq([name, load]), filters : Seq(name)]
    Names,          \* servlet and filter names
    Initializers,   \* the ServletContainerInitializer classes found, in order
    NoLoad,         \* load-on-startup not given
    MaxDeploys,     \* bound: registrations of the path
    MaxStartFaults  \* bound: failing JNI calls

\* Every name a web.xml gives is one a request may ask for.
ASSUME StartAssumption ==
    /\ Plans \subseteq [servlets : Seq([name : Names, load : Int]), filters : Seq(Names)]
    /\ Initializers \in Seq(Range(Initializers)) /\ NoLoad \in Int
    /\ MaxDeploys \in Nat /\ MaxStartFaults \in Nat

VARIABLES
    deployer,   \* where the deployer is
    plan,       \* RegistrationPlan of the current registration
    queue,      \* what is left of the list the current step walks
    made,       \* handles built in the JNI closure and not published yet
    registry,   \* WebappRuntime: [servlets, filters : Names -> instance or 0]
    runtime,    \* WebappRuntime: [exists, loader]
    instances,  \* Java objects: [init : {"no", "yes", "failed"}, dynamic]
    contexts,   \* ContextRegistry.entries: the native context ids alive
    byPath,     \* ContextRegistry.by_path for the path; 0 is absent
    attached,   \* WEBAPP_REGISTRY: the context ids with a WebappRuntime
    sci,        \* run_sci: [ctx, ran, errors, added : Seq([name, inst, load])]
    deploys,    \* registrations so far; NEXT_ID is deploys + 1
    startFaults

startVars == <<deployer, plan, queue, made, registry, runtime, instances, contexts,
               byPath, attached, sci, deploys, startFaults>>

NoSci == [ctx |-> 0, ran |-> <<>>, errors |-> <<>>, added |-> <<>>]
Nothing == [n \in Names |-> 0]

StartInit ==
    /\ deployer = "idle" /\ plan = [servlets |-> <<>>, filters |-> <<>>]
    /\ queue = <<>> /\ made = <<>>
    /\ registry = [servlets |-> Nothing, filters |-> Nothing]
    /\ runtime = [exists |-> FALSE, loader |-> 0]
    /\ instances = <<>> /\ contexts = {} /\ byPath = 0 /\ attached = {}
    /\ sci = NoSci /\ deploys = 0 /\ startFaults = 0

(***************************************************************************)
(* RegistrationPlan.                                                       *)
(***************************************************************************)
IsEager(s) == s.load >= 0

\* a slip in servlet_order_key: the load value alone, so -1 comes first
OrderKeyLessRaw(servlets, i, j) ==
    LET a == servlets[i]  b == servlets[j]
    IN  a.load < b.load \/ (a.load = b.load /\ i < j)

\* servlet_order_key(i) < servlet_order_key(j): eager before lazy, then the
\* value, then the place in the descriptor
OrderKeyLess(servlets, i, j) ==
    LET a == servlets[i]  b == servlets[j]
    IN  \/ IsEager(a) /\ ~IsEager(b)
        \/ IsEager(a) /\ IsEager(b) /\ a.load < b.load
        \/ /\ IsEager(a) <=> IsEager(b)
           /\ IsEager(a) => a.load = b.load
           /\ i < j

\* sort_by_key: the places of the servlets, in the order of their keys
FromWebXml(web) ==
    LET places == DOMAIN web.servlets
        orders == {order \in [places -> places] :
                     \A k, l \in places :
                        k < l => OrderKeyLess(web.servlets, order[k], order[l])}
    IN  {[servlets |-> [k \in places |-> web.servlets[order[k]]], filters |-> web.filters] :
            order \in orders}

(***************************************************************************)
(* register: ensure_webapp reuses the WebappRuntime of the path, the       *)
(* ContextEntry gets a fresh id and takes over the path, the runtime is    *)
(* attached to it with a fresh session manager.                            *)
(***************************************************************************)
EnsureWebapp ==
    /\ deployer = "idle" /\ deploys < MaxDeploys
    /\ \E web \in Plans : plan' \in FromWebXml(web)
    /\ runtime' = [runtime EXCEPT !.exists = TRUE]
    /\ deployer' = "context"
    /\ UNCHANGED <<queue, made, registry, instances, contexts, byPath,
                   attached, sci, deploys, startFaults>>

RegisterContext ==
    /\ deployer = "context"
    /\ deploys' = deploys + 1
    /\ contexts' = contexts \cup {deploys'}
    /\ byPath' = deploys'
    /\ deployer' = "attach"
    /\ UNCHANGED <<plan, queue, made, registry, runtime, instances, attached,
                   sci, startFaults>>

AttachWebapp ==
    /\ deployer = "attach"
    /\ attached' = attached \cup {deploys}
    /\ deployer' = "loader"
    /\ UNCHANGED <<plan, queue, made, registry, runtime, instances, contexts,
                   byPath, sci, deploys, startFaults>>

\* an error inside the closure drops the handles and leaves the rest
FailTo(label) ==
    /\ startFaults < MaxStartFaults /\ startFaults' = startFaults + 1
    /\ deployer' = label /\ queue' = <<>> /\ made' = <<>>
    /\ UNCHANGED <<plan, registry, runtime, contexts, byPath, attached, sci,
                   deploys>>

\* the closure: common loader, webapp loader, ServletContext facade
BuildLoaders ==
    /\ deployer = "loader"
    /\ \/ deployer' = "servlets" /\ queue' = plan.servlets /\ made' = <<>>
          /\ UNCHANGED <<plan, registry, runtime, contexts, byPath, attached,
                         sci, deploys, startFaults>>
       \/ FailTo("failed")
    /\ UNCHANGED instances

Instance(state, isDynamic) == [init |-> state, dynamic |-> isDynamic]

\* a slip: a servlet whose init() threw is kept like the others
StartServletLenient ==
    /\ deployer = "servlets" /\ queue # <<>>
    /\ \E state \in {"yes", "failed"} :
          instances' = Append(instances, Instance(state, FALSE))
    /\ made' = Append(made, [kind |-> "servlets", name |-> Head(queue).name,
                             inst |-> Len(instances'), load |-> Head(queue).load])
    /\ queue' = Tail(queue)
    /\ UNCHANGED <<deployer, plan, registry, runtime, contexts, byPath,
                   attached, sci, deploys, startFaults>>

\* instantiate, build the config, init(): the first failure ends the closure
StartServlet ==
    /\ deployer = "servlets" /\ queue # <<>>
    /\ \/ /\ instances' = Append(instances, Instance("yes", FALSE))
          /\ made' = Append(made, [kind |-> "servlets", name |-> Head(queue).name,
                                   inst |-> Len(instances'),
                                   load |-> Head(queue).load])
          /\ queue' = Tail(queue)
          /\ UNCHANGED <<deployer, plan, registry, runtime, contexts, byPath,
                         attached, sci, deploys, startFaults>>
       \/ FailTo("failed") /\ instances' = Append(instances, Instance("failed", FALSE))

ServletsStarted ==
    /\ deployer = "servlets" /\ queue = <<>>
    /\ deployer' = "filters" /\ queue' = plan.filters
    /\ UNCHANGED <<plan, made, registry, runtime, instances, contexts, byPath,
                   attached, sci, deploys, startFaults>>

StartFilter ==
    /\ deployer = "filters" /\ queue # <<>>
    /\ \/ /\ instances' = Append(instances, Instance("yes", FALSE))
          /\ made' = Append(made, [kind |-> "filters", name |-> Head(queue),
                                   inst |-> Len(instances'), load |-> NoLoad])
          /\ queue' = Tail(queue)
          /\ UNCHANGED <<deployer, plan, registry, runtime, contexts, byPath,
                         attached, sci, deploys, startFaults>>
       \/ FailTo("failed") /\ instances' = Append(instances, Instance("failed", FALSE))

\* set_class_loader, once the closure returned every handle
SetClassLoader ==
    /\ deployer = "filters" /\ queue = <<>>
    /\ runtime' = [runtime EXCEPT !.loader = deploys]
    /\ deployer' = "publish"
    /\ UNCHANGED <<plan, queue, made, registry, instances, contexts, byPath,
                   attached, sci, deploys, startFaults>>

\* register_servlet, register_filter: replaces what has that name
Publish ==
    /\ deployer = "publish" /\ made # <<>>
    /\ registry' = [registry EXCEPT ![Head(made).kind][Head(made).name] = Head(made).inst]
    /\ made' = Tail(made)
    /\ UNCHANGED <<deployer, plan, queue, runtime, instances, contexts, byPath,
                   attached, sci, deploys, startFaults>>

Registered ==
    /\ deployer = "publish" /\ made = <<>>
    /\ deployer' = "registered"
    /\ UNCHANGED <<plan, queue, made, registry, runtime, instances, contexts,
                   byPath, attached, sci, deploys, startFaults>>

(***************************************************************************)
(* unregister_context and detach_webapp of a context that a later          *)
(* registration replaced: the index is dropped only if it is its own.      *)
(***************************************************************************)
\* a slip: the index is dropped without looking
DropIndexAlways(id) == byPath' = 0

DropIndex(id) == byPath' = IF byPath = id THEN 0 ELSE byPath

UnregisterContext(id) ==
    /\ deployer \in {"idle", "registered"}
    /\ id \in contexts /\ id < deploys
    /\ contexts' = contexts \ {id}
    /\ DropIndex(id)
    /\ attached' = attached \ {id}
    /\ UNCHANGED <<deployer, plan, queue, made, registry, runtime, instances, sci,
                   deploys, startFaults>>

(***************************************************************************)
(* run_sci.  It needs the WebappRuntime and its class loader; the          *)
(* ServletContext it makes is found through the path.                      *)
(***************************************************************************)
LookupLoader ==
    /\ deployer \in {"registered", "failed"}
    /\ deployer' = IF runtime.loader # 0 THEN "discover" ELSE "idle"
    /\ sci' = NoSci
    /\ UNCHANGED <<plan, queue, made, registry, runtime, instances, contexts,
                   byPath, attached, deploys, startFaults>>

\* discoverServiceClasses, the empty list's early return, new
\* TomcatRsServletContext(path)
Discover ==
    /\ deployer = "discover"
    /\ \/ \E found \in BOOLEAN :
             /\ deployer' = IF found /\ Initializers # <<>> THEN "sci" ELSE "idle"
             /\ queue' = IF found THEN Initializers ELSE <<>>
             /\ sci' = [sci EXCEPT !.ctx = byPath]
             /\ UNCHANGED <<plan, made, registry, runtime, contexts, byPath,
                            attached, deploys, startFaults>>
       \/ FailTo("idle")
    /\ UNCHANGED instances

\* TomcatRsServletContext.addServlet: null when this context object knows the
\* name; otherwise nativeRegisterServlet publishes the instance before init()
AddedNames == {sci.added[k].name : k \in DOMAIN sci.added}

AddServlet(name, load) ==
    /\ name \notin AddedNames
    /\ instances' = Append(instances, Instance("no", TRUE))
    /\ sci' = [sci EXCEPT !.added = Append(@, [name |-> name, load |-> load,
                                               inst |-> Len(instances')])]
    /\ registry' = IF sci.ctx \in attached
                     THEN [registry EXCEPT !.servlets[name] = Len(instances')]
                     ELSE registry
    /\ UNCHANGED <<deployer, plan, queue, made, runtime, contexts, byPath, attached,
                   deploys, startFaults>>

\* onStartup of the next initializer adds a servlet
OnStartupAdds ==
    /\ deployer = "sci" /\ queue # <<>> /\ Len(sci.added) < 2
    /\ \E name \in Names, load \in {NoLoad, 1} : AddServlet(name, load)

\* ... and returns
InvokeOk ==
    /\ deployer = "sci" /\ queue # <<>>
    /\ sci' = [sci EXCEPT !.ran = Append(@, Head(queue))]
    /\ queue' = Tail(queue)
    /\ UNCHANGED <<deployer, plan, made, registry, runtime, instances, contexts,
                   byPath, attached, deploys, startFaults>>

\* a slip: one failing initializer ends the walk
InvokeFailsAborts ==
    /\ deployer = "sci" /\ queue # <<>> /\ startFaults < MaxStartFaults
    /\ startFaults' = startFaults + 1
    /\ sci' = [sci EXCEPT !.errors = Append(@, Head(queue))]
    /\ queue' = <<>>
    /\ UNCHANGED <<deployer, plan, made, registry, runtime, instances, contexts,
                   byPath, attached, deploys>>

\* ... or it could not be loaded, or it threw: reported, the next one follows
InvokeFails ==
    /\ deployer = "sci" /\ queue # <<>> /\ startFaults < MaxStartFaults
    /\ startFaults' = startFaults + 1
    /\ sci' = [sci EXCEPT !.errors = Append(@, Head(queue))]
    /\ queue' = Tail(queue)
    /\ UNCHANGED <<deployer, plan, made, registry, runtime, instances, contexts,
                   byPath, attached, deploys>>

\* the same of what was added: a negative load comes last
InitOrder ==
    LET places == DOMAIN sci.added
        value(k) == IF sci.added[k].load < 0 THEN 1000 ELSE sci.added[k].load
    IN  {order \in [places -> places] :
            /\ places \subseteq Range(order)
            /\ \A k, l \in places : k < l =>
                  \/ value(order[k]) < value(order[l])
                  \/ value(order[k]) = value(order[l]) /\ order[k] < order[l]}

WalkDone ==
    /\ deployer = "sci" /\ queue = <<>>
    /\ deployer' = "init"
    /\ \E order \in InitOrder : queue' = [k \in DOMAIN sci.added |-> sci.added[order[k]]]
    /\ UNCHANGED <<plan, made, registry, runtime, instances, contexts, byPath,
                   attached, sci, deploys, startFaults>>

\* initLoadOnStartupServlets: a failing init() is logged and skipped
InitDynamic ==
    /\ deployer = "init" /\ queue # <<>>
    /\ \/ /\ instances' = [instances EXCEPT ![Head(queue).inst].init = "yes"]
          /\ startFaults' = startFaults
       \/ /\ startFaults < MaxStartFaults /\ startFaults' = startFaults + 1
          /\ instances' = [instances EXCEPT ![Head(queue).inst].init = "failed"]
    /\ queue' = Tail(queue)
    /\ UNCHANGED <<deployer, plan, made, registry, runtime, contexts, byPath,
                   attached, sci, deploys>>

SciReport ==
    /\ deployer = "init" /\ queue = <<>>
    /\ deployer' = "idle"
    /\ UNCHANGED <<plan, queue, made, registry, runtime, instances, contexts,
                   byPath, attached, sci, deploys, startFaults>>

StartNext ==
    \/ EnsureWebapp \/ RegisterContext \/ AttachWebapp \/ BuildLoaders
    \/ StartServlet \/ ServletsStarted \/ StartFilter \/ SetClassLoader
    \/ Publish \/ Registered
    \/ \E id \in contexts : UnregisterContext(id)
    \/ LookupLoader \/ Discover \/ OnStartupAdds \/ InvokeOk \/ InvokeFails
    \/ WalkDone \/ InitDynamic \/ SciReport

StartSpec == StartInit /\ [][StartNext]_startVars

(***************************************************************************)
(* Properties.                                                             *)
(***************************************************************************)
Published == ({registry.servlets[n] : n \in Names} \cup
              {registry.filters[n] : n \in Names}) \ {0}

\* A request finds no servlet or filter whose init() has not succeeded, except
\* one an initializer added: until run_sci has called its init(), and for good
\* when that init() failed (registration.rs l.508-560, sci.rs step 3d).
ServesInitialised ==
    \A i \in Published :
        \/ instances[i].init = "yes"
        \/ instances[i].dynamic /\ deployer \in {"sci", "init"}
        \/ instances[i].dynamic /\ instances[i].init = "failed"

\* run_sci reports each initializer once, run or failed, in discovery order:
\* one that fails does not stop those after it (sci.rs l.124-126).
EachInitializerReported ==
    deployer = "init" =>
        /\ Len(sci.ran) + Len(sci.errors) = Len(Initializers)
        /\ \A k \in DOMAIN Initializers :
              Initializers[k] \in Range(sci.ran) \cup Range(sci.errors)

\* While run_sci runs, what an initializer added is what requests reach under
\* that name: the context found by path is the one the WebappRuntime is
\* attached to, also after an older context was unregistered (jni.rs l.449).
DynamicRoutable ==
    deployer \in {"sci", "init"} =>
        \A k \in DOMAIN sci.added :
            registry.servlets[sci.added[k].name] = sci.added[k].inst

\* Servlets are initialised in load-on-startup order: none after a lazy one or
\* one with a higher value, if its own value is not negative.
StartsInOrder ==
    \A i, j \in DOMAIN made :
        (i < j /\ made[i].kind = "servlets" /\ made[j].kind = "servlets"
               /\ IsEager(made[j]))
            => IsEager(made[i]) /\ made[i].load <= made[j].load

\* All of it at once.
StartsSound ==
    ServesInitialised /\ EachInitializerReported /\ DynamicRoutable /\ StartsInOrder
=============================================================================
