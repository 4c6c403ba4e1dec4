----------------------------- MODULE BridgeData -----------------------------
(***************************************************************************)
(* The parts of tomcatrs-servlet-bridge that compute and do not wait:      *)
(* listener registration and dispatch (listener.rs), class loader URLs     *)
(* (classloader.rs), the JVM's class path and its native methods (jvm.rs,  *)
(* jni.rs), context resources (jni.rs), the two builders of a request      *)
(* handle (request_facade.rs, dispatch.rs) and the natives behind          *)
(* HttpSession (session_bridge.rs).                                        *)
(***************************************************************************)
EXTENDS Integers, Sequences, FiniteSets, SequencesExt

(***************************************************************************)
(* Listeners.  A class is [name, implements, marks]: the interfaces the    *)
(* JVM reports, and the interface names its own name contains.             *)
(***************************************************************************)
ListenerTypes == <<"Context", "ContextAttribute", "Request", "RequestAttribute",
                   "Session", "SessionAttribute", "SessionId">>

\* MARKERS, most specific first
Markers == <<[type |-> "ContextAttribute", family |-> 0],
             [type |-> "RequestAttribute", family |-> 1],
             [type |-> "SessionAttribute", family |-> 2],
             [type |-> "SessionId", family |-> 2],
             [type |-> "Context", family |-> 0],
             [type |-> "Request", family |-> 1],
             [type |-> "Session", family |-> 2]>>
Plain == {"Context", "Request", "Session"}

\* a slip: the family a specific marker hit is not looked at
ClassifyFromClassNameAll(marks) ==
    LET hits == SelectSeq(Markers, LAMBDA m : m.type \in marks)
    IN  [k \in DOMAIN hits |-> hits[k].type]

ClassifyFromClassName(marks) ==
    LET step(acc, m) ==
            IF \/ m.type \notin marks
               \/ m.type \in Plain /\ \E k \in DOMAIN acc : acc[k].family = m.family
            THEN acc ELSE Append(acc, m)
        hits == FoldLeft(step, <<>>, Markers)
    IN  [k \in DOMAIN hits |-> hits[k].type]

\* instantiate_listeners: an entry per interface in the order of ALL; a class
\* with none fails them all, and no entry is registered.
Entries(class, types) == [k \in DOMAIN types |-> [class |-> class, type |-> types[k]]]

InstantiateListeners(classes) ==
    IF \E k \in DOMAIN classes : classes[k].implements = {} THEN <<>>
    ELSE LET of(c) == Entries(c.name, SelectSeq(ListenerTypes,
                                                LAMBDA t : t \in c.implements))
         IN  FoldLeft(LAMBDA acc, c : acc \o of(c), <<>>, classes)

\* ... and without a JVM: the hints of the name, or one ServletContext entry
InstantiateStub(classes) ==
    LET of(c) == LET hints == ClassifyFromClassName(c.marks)
                 IN  Entries(c.name, IF hints = <<>> THEN <<"Context">> ELSE hints)
    IN  FoldLeft(LAMBDA acc, c : acc \o of(c), <<>>, classes)

\* events: [kind, change], change "" unless an attribute changed
EventKinds == {"ContextInitialized", "ContextDestroyed", "ContextAttribute",
               "RequestInitialized", "RequestDestroyed", "RequestAttribute",
               "SessionCreated", "SessionDestroyed", "SessionAttribute",
               "SessionIdChanged"}

\* a slip: an attribute event goes to the plain listeners of its scope
ListenerTypeOfPlain(kind) ==
    CASE kind \in {"ContextInitialized", "ContextDestroyed", "ContextAttribute"} -> "Context"
      [] kind \in {"RequestInitialized", "RequestDestroyed", "RequestAttribute"} -> "Request"
      [] kind \in {"SessionCreated", "SessionDestroyed", "SessionAttribute"} -> "Session"
      [] kind = "SessionIdChanged" -> "SessionId"

ListenerTypeOf(kind) ==
    CASE kind \in {"ContextInitialized", "ContextDestroyed"} -> "Context"
      [] kind \in {"RequestInitialized", "RequestDestroyed"} -> "Request"
      [] kind \in {"SessionCreated", "SessionDestroyed"} -> "Session"
      [] kind = "SessionIdChanged" -> "SessionId"
      [] OTHER -> kind

IsDestructive(kind) == kind \in {"ContextDestroyed", "RequestDestroyed", "SessionDestroyed"}

\* a slip: every event in declaration order
DispatchOrderForward(registry, kind) ==
    SelectSeq(registry, LAMBDA l : l.type = ListenerTypeOf(kind))

DispatchOrder(registry, kind) ==
    LET matching == SelectSeq(registry, LAMBDA l : l.type = ListenerTypeOf(kind))
    IN  IF IsDestructive(kind) THEN Reverse(matching) ELSE matching

\* fire_with: the classes called, up to and with the first that fails
FireWith(registry, kind, failing) ==
    LET order == DispatchOrder(registry, kind)
        calls == [k \in DOMAIN order |-> order[k].class]
        bad == {k \in DOMAIN calls : calls[k] \in failing}
    IN  IF bad = {} THEN calls
        ELSE SubSeq(calls, 1, CHOOSE k \in bad : \A j \in bad : k <= j)

\* dispatch_one: the method called and the event class built for it
Callback(event) ==
    CASE event.kind = "ContextInitialized" -> <<"contextInitialized", "ServletContextEvent">>
      [] event.kind = "ContextDestroyed" -> <<"contextDestroyed", "ServletContextEvent">>
      [] event.kind = "ContextAttribute" -> <<event.change, "ServletContextAttributeEvent">>
      [] event.kind = "RequestInitialized" -> <<"requestInitialized", "ServletRequestEvent">>
      [] event.kind = "RequestDestroyed" -> <<"requestDestroyed", "ServletRequestEvent">>
      [] event.kind = "RequestAttribute" -> <<event.change, "ServletRequestAttributeEvent">>
      [] event.kind = "SessionCreated" -> <<"sessionCreated", "HttpSessionEvent">>
      [] event.kind = "SessionDestroyed" -> <<"sessionDestroyed", "HttpSessionEvent">>
      [] event.kind = "SessionAttribute" -> <<event.change, "HttpSessionBindingEvent">>
      [] event.kind = "SessionIdChanged" -> <<"sessionIdChanged", "HttpSessionEvent">>

\* The jakarta.servlet listener interfaces: their methods, with the event class
Changes == {"attributeAdded", "attributeRemoved", "attributeReplaced"}
JakartaMethods(type) ==
    CASE type = "Context" -> {"contextInitialized", "contextDestroyed"} \X {"ServletContextEvent"}
      [] type = "ContextAttribute" -> Changes \X {"ServletContextAttributeEvent"}
      [] type = "Request" -> {"requestInitialized", "requestDestroyed"} \X {"ServletRequestEvent"}
      [] type = "RequestAttribute" -> Changes \X {"ServletRequestAttributeEvent"}
      [] type = "Session" -> {"sessionCreated", "sessionDestroyed"} \X {"HttpSessionEvent"}
      [] type = "SessionAttribute" -> Changes \X {"HttpSessionBindingEvent"}
      [] type = "SessionId" -> {<<"sessionIdChanged", "HttpSessionEvent">>}

(***************************************************************************)
(* Class loader URLs.  A path is a sequence of characters; "+" stands for  *)
(* the safe ones, " " for those that are escaped.                          *)
(***************************************************************************)
\* the WEB-INF/classes directory, if there is one, then the jars in their order
SearchPath(classesDir, jars) ==
    [k \in DOMAIN classesDir |-> [path |-> classesDir[k], dir |-> TRUE]] \o
    [k \in DOMAIN jars |-> [path |-> jars[k], dir |-> FALSE]]

\* a slip: a percent sign is taken for an escape that is already there
EncodeKeepsPercent(c) == CASE c = "\\" -> <<"/">>
                           [] c = " " -> <<"%", "2", "0">>
                           [] OTHER -> <<c>>

Encode(c) == CASE c = "\\" -> <<"/">>
               [] c = " " -> <<"%", "2", "0">>
               [] c = "%" -> <<"%", "2", "5">>
               [] OTHER -> <<c>>

EncodePathAsFileUrl(path) ==
    LET encoded == FlattenSeq([k \in DOMAIN path |-> Encode(path[k])])
    IN  IF encoded # <<>> /\ Head(encoded) = "/" THEN encoded ELSE <<"/">> \o encoded

PathToFileUrl(path, isDir) ==
    LET url == EncodePathAsFileUrl(path)
    IN  IF isDir /\ Last(url) # "/" THEN Append(url, "/") ELSE url

\* java.net: %xx is one character
DecodeUrl(url) ==
    LET escaped(k) == k >= 1 /\ k + 2 <= Len(url) /\ url[k] = "%"
                      /\ url[k+1] = "2" /\ url[k+2] \in {"0", "5"}
        inside == {k \in DOMAIN url : escaped(k-1) \/ escaped(k-2)}
        char(k) == IF escaped(k) THEN IF url[k+2] = "0" THEN " " ELSE "%" ELSE url[k]
        kept == SetToSortSeq(DOMAIN url \ inside, <)
    IN  [i \in DOMAIN kept |-> char(kept[i])]

(***************************************************************************)
(* The JVM: its class path and its natives.                                *)
(***************************************************************************)
\* Jars are [base, version]: base 0 is the bridge, 1 jakarta.servlet-api and 2
\* tomcat-embed-core, which sorts after it, 3 a jar of the caller; a version is
\* the sequence of its characters, "." being 0 and digits above it.
Bridge == [base |-> 0, version |-> <<>>]
LexLess(a, b) ==
    \E k \in 1..Len(b) : /\ \A i \in 1..(k-1) : i <= Len(a) /\ a[i] = b[i]
                         /\ k > Len(a) \/ a[k] < b[k]

\* the override, or the last path in lexicographic order (the version is
\* followed by "/", below every digit and above ".")
LocateRealServletApi(override, found) ==
    IF override # <<>> THEN override
    ELSE IF found = {} THEN <<>>
    ELSE <<CHOOSE j \in found : \A k \in found \ {j} :
              \/ j.base > k.base
              \/ j.base = k.base /\ LexLess(Append(k.version, 1), Append(j.version, 1))>>

\* a slip: the real API goes where the bridge jar goes, at the end
EffectiveClasspathLast(classpath, real, bridge) ==
    classpath \o (IF bridge = <<>> \/ Contains(classpath, bridge[1]) THEN <<>> ELSE bridge) \o real

EffectiveClasspath(classpath, real, bridge) ==
    LET withReal == real \o classpath
    IN  IF bridge = <<>> \/ Contains(withReal, bridge[1]) THEN withReal
        ELSE withReal \o bridge

NativeGroups == <<"NativeRequest", "NativeResponse", "NativeSession",
                  "NativeAsyncContext", "NativeServletContext">>

RequestBindings == {"nativeGetMethod", "nativeGetRequestUri", "nativeGetQueryString",
    "nativeGetProtocol", "nativeGetScheme", "nativeGetRemoteAddr", "nativeGetHeader",
    "nativeGetHeaderNames", "nativeGetContentLength", "nativeGetAttribute",
    "nativeSetAttribute", "nativeReadBody", "nativeBodyRemaining"}
RequestSessionBindings == {"nativeResolveOrCreateSession", "nativeIsNewSession",
    "nativeNewSessionCookie"}
ResponseBindings == {"nativeSetStatus", "nativeSetHeader", "nativeAddHeader",
    "nativeWriteBody", "nativeFlush", "nativeCommit", "nativeIsCommitted"}
SessionBindings == {"nativeGetId", "nativeGetAttribute", "nativeSetAttribute",
    "nativeRemoveAttribute", "nativeGetAttributeNames", "nativeGetCreationTime",
    "nativeGetLastAccessedTime", "nativeGetMaxInactiveInterval",
    "nativeSetMaxInactiveInterval", "nativeInvalidate", "nativeIsNew"}
AsyncBindings == {"nativeStartAsync", "nativeComplete", "nativeDispatch",
    "nativeSetTimeout", "nativeGetTimeout", "nativeIsAsyncStarted"}
ContextBindings == {"nativeLookupContextId", "nativeGetRealPath", "nativeGetResourcePaths",
    "nativeOpenResource", "nativeGetServerInfo", "nativeGetContextPath",
    "nativeGetServletContextName", "nativeGetInitParameter", "nativeGetInitParameterNames",
    "nativeLog", "nativeRegisterServlet"}

\* a slip: the request class is bound without the session natives
BindingsBare(class) ==
    CASE class = "NativeRequest" -> RequestBindings
      [] class = "NativeResponse" -> ResponseBindings
      [] class = "NativeSession" -> SessionBindings
      [] class = "NativeAsyncContext" -> AsyncBindings
      [] class = "NativeServletContext" -> ContextBindings

Bindings(class) ==
    CASE class = "NativeRequest" -> RequestBindings \cup RequestSessionBindings
      [] class = "NativeResponse" -> ResponseBindings
      [] class = "NativeSession" -> SessionBindings
      [] class = "NativeAsyncContext" -> AsyncBindings
      [] class = "NativeServletContext" -> ContextBindings

\* the native methods that the Java facade classes declare
RequestNatives == {"nativeGetMethod", "nativeGetRequestUri", "nativeGetQueryString",
    "nativeGetProtocol", "nativeGetScheme", "nativeGetRemoteAddr", "nativeGetHeader",
    "nativeGetHeaderNames", "nativeGetContentLength", "nativeGetAttribute",
    "nativeSetAttribute", "nativeReadBody", "nativeBodyRemaining",
    "nativeResolveOrCreateSession", "nativeIsNewSession", "nativeNewSessionCookie"}
ResponseNatives == {"nativeSetStatus", "nativeSetHeader", "nativeAddHeader",
    "nativeWriteBody", "nativeFlush", "nativeCommit", "nativeIsCommitted"}
SessionNatives == {"nativeGetId", "nativeGetAttribute", "nativeSetAttribute",
    "nativeRemoveAttribute", "nativeGetAttributeNames", "nativeGetCreationTime",
    "nativeGetLastAccessedTime", "nativeGetMaxInactiveInterval",
    "nativeSetMaxInactiveInterval", "nativeInvalidate", "nativeIsNew"}
AsyncNatives == {"nativeStartAsync", "nativeComplete", "nativeDispatch",
    "nativeSetTimeout", "nativeGetTimeout", "nativeIsAsyncStarted"}
ContextNatives == {"nativeLookupContextId", "nativeGetRealPath", "nativeGetResourcePaths",
    "nativeOpenResource", "nativeGetServerInfo", "nativeGetContextPath",
    "nativeGetServletContextName", "nativeGetInitParameter", "nativeGetInitParameterNames",
    "nativeLog", "nativeRegisterServlet"}
JavaNatives ==
    [class \in {NativeGroups[k] : k \in DOMAIN NativeGroups} |->
        CASE class = "NativeRequest" -> RequestNatives
          [] class = "NativeResponse" -> ResponseNatives
          [] class = "NativeSession" -> SessionNatives
          [] class = "NativeAsyncContext" -> AsyncNatives
          [] class = "NativeServletContext" -> ContextNatives]

\* register_native_methods: every group, or the runtime is shut down again;
\* `classes' is what the class path offers: class -> its native methods
RegisterNativeMethods(classes) ==
    \A k \in DOMAIN NativeGroups :
        /\ NativeGroups[k] \in DOMAIN classes
        /\ Bindings(NativeGroups[k]) \subseteq classes[NativeGroups[k]]

\* start: `bridge' is the jar whose classes declare the natives, `real' has none
Start(classpath, real, bridge, jarClasses) ==
    /\ Contains(EffectiveClasspath(classpath, real, bridge), Bridge)
    /\ RegisterNativeMethods(jarClasses)

(***************************************************************************)
(* Context resources.  A context's files are a set of [path, dir]; the     *)
(* argument of a call is [lead, segs, trail], lead and trail counting "/". *)
(***************************************************************************)
\* a slip: an argument that starts with "/" replaces the doc base
RealPathAbsolute(path) == IF path.lead > 0 THEN <<"etc">> \o path.segs ELSE path.segs

\* trim_start_matches('/'), join to the doc base
RealPath(path) == path.segs

ResourcePrefixLead(path) ==
    IF path.segs = <<>> THEN IF path.lead + path.trail = 0 THEN 1 ELSE 0
    ELSE IF path.lead = 0 THEN 1 ELSE path.lead

ResourcePaths(files, path) ==
    {[lead |-> IF path.segs = <<>> THEN ResourcePrefixLead(path) + 1
               ELSE ResourcePrefixLead(path),
      segs |-> f.path, trail |-> IF f.dir THEN 1 ELSE 0] :
         f \in {g \in files : Len(g.path) = Len(path.segs) + 1
                              /\ SubSeq(g.path, 1, Len(path.segs)) = path.segs}}

\* nativeOpenResource: the file's bytes, or null
OpenResource(files, path) == \E f \in files : f.path = RealPath(path) /\ ~f.dir

(***************************************************************************)
(* The request handle.  A header is [name, value], names already folded;   *)
(* a value is [number, n]; a request [path, raw, target, query, body,      *)
(* forwarded], raw being the request target and target its part before "?".*)
(***************************************************************************)
Header(headers, name) ==
    LET hits == SelectSeq(headers, LAMBDA h : h.name = name)
    IN  IF hits = <<>> THEN <<>> ELSE <<hits[1].value>>

\* a slip: negative numbers are let through
EntryContentLengthSigned(headers, maxI64) ==
    LET v == Header(headers, "content-length")
    IN  IF v # <<>> /\ v[1].number /\ v[1].n <= maxI64 THEN v[1].n ELSE -1

\* RequestEntry::content_length: i64, -1 when absent, malformed or negative
EntryContentLength(headers, maxI64) ==
    LET v == Header(headers, "content-length")
    IN  IF v # <<>> /\ v[1].number /\ v[1].n \in 0..maxI64 THEN v[1].n ELSE -1

\* RequestParts::content_length: u64
PartsContentLength(headers, maxI64) ==
    LET v == Header(headers, "content-length")
    IN  IF v # <<>> /\ v[1].number /\ v[1].n \in 0..(2 * maxI64 + 1) THEN <<v[1].n>> ELSE <<>>

\* scheme_for lowers the forwarded protocol; from_coyote takes it as it is
Lower(s) == IF s = "HTTPS" THEN "https" ELSE s
SchemeFor(req) == IF req.forwarded = <<>> THEN "http" ELSE Lower(req.forwarded[1])

\* a slip: the raw request target, query and all
FromCoyoteRaw(req) ==
    [uri |-> req.raw,
     query |-> req.query, empty |-> req.body = 0,
     scheme |-> IF req.forwarded = <<>> THEN "http" ELSE req.forwarded[1]]

FromCoyote(req) ==
    [uri |-> IF req.path # "" THEN req.path ELSE req.target,
     query |-> req.query, empty |-> req.body = 0,
     scheme |-> IF req.forwarded = <<>> THEN "http" ELSE req.forwarded[1]]
RequestHandleFromCoyote(req) ==
    [uri |-> req.path, query |-> req.query, empty |-> req.body = 0,
     scheme |-> SchemeFor(req)]

(***************************************************************************)
(* The natives behind HttpSession.  A world is [handles, sessions]: native *)
(* session id -> [sid, new], and sid -> [attrs, interval].  A result is    *)
(* [world, throws, value]; an unknown id, and a session that is gone,      *)
(* throw IllegalStateException.                                            *)
(***************************************************************************)
NULL == "null"
MaxJint == 2147483647

Returns(w, v) == [world |-> w, throws |-> FALSE, value |-> v]
IllegalState(w) == [world |-> w, throws |-> TRUE, value |-> NULL]

SessionOf(w, id) == w.handles[id].sid

\* handle(env, id), then load(): f is given the session's data
WithSession(w, id, f(_)) ==
    IF id \notin DOMAIN w.handles \/ SessionOf(w, id) \notin DOMAIN w.sessions
    THEN IllegalState(w) ELSE f(w.sessions[SessionOf(w, id)])

Saved(w, id, data) == [w EXCEPT !.sessions[SessionOf(w, id)] = data]

NativeGetId(w, id) ==
    IF id \notin DOMAIN w.handles THEN IllegalState(w) ELSE Returns(w, SessionOf(w, id))

NativeGetAttribute(w, id, name) ==
    WithSession(w, id, LAMBDA d : Returns(w, IF name \in DOMAIN d.attrs
                                               THEN d.attrs[name] ELSE NULL))

NativeSetAttribute(w, id, name, value) ==
    WithSession(w, id, LAMBDA d : Returns(
        Saved(w, id, [d EXCEPT !.attrs = [n \in DOMAIN d.attrs \cup {name} |->
                                 IF n = name THEN value ELSE d.attrs[n]]]), NULL))

\* a slip: the attribute is removed from the copy that was loaded
NativeRemoveAttributeUnsaved(w, id, name) ==
    WithSession(w, id, LAMBDA d : Returns(w, NULL))

NativeRemoveAttribute(w, id, name) ==
    WithSession(w, id, LAMBDA d : Returns(
        Saved(w, id, [d EXCEPT !.attrs = [n \in DOMAIN d.attrs \ {name} |-> d.attrs[n]]]), NULL))

NativeGetAttributeNames(w, id) == WithSession(w, id, LAMBDA d : Returns(w, DOMAIN d.attrs))

NativeGetMaxInactiveInterval(w, id) ==
    WithSession(w, id, LAMBDA d : Returns(w, IF d.interval > MaxJint THEN MaxJint
                                             ELSE d.interval))

\* a slip: the seconds are cast as they are, so -1 is a very long time
NativeSetMaxInactiveIntervalCast(w, id, seconds) ==
    WithSession(w, id, LAMBDA d : Returns(
        Saved(w, id, [d EXCEPT !.interval = IF seconds < 0 THEN MaxJint ELSE seconds]), NULL))

NativeSetMaxInactiveInterval(w, id, seconds) ==
    WithSession(w, id, LAMBDA d : Returns(
        Saved(w, id, [d EXCEPT !.interval = IF seconds <= 0 THEN 0 ELSE seconds]), NULL))

NativeInvalidate(w, id) ==
    IF id \notin DOMAIN w.handles THEN IllegalState(w)
    ELSE Returns([w EXCEPT !.sessions = [s \in DOMAIN w.sessions \ {SessionOf(w, id)} |->
                                            w.sessions[s]]], NULL)

NativeIsNew(w, id) ==
    IF id \notin DOMAIN w.handles THEN IllegalState(w) ELSE Returns(w, w.handles[id].new)

\* these two never throw
NativeIsNewSession(w, id) == id \in DOMAIN w.handles /\ w.handles[id].new
NativeNewSessionCookie(w, id) == IF id \in DOMAIN w.handles THEN SessionOf(w, id) ELSE NULL

SessionCall(w, c) ==
    CASE c.op = "set" -> NativeSetAttribute(w, c.id, c.name, c.arg)
      [] c.op = "remove" -> NativeRemoveAttribute(w, c.id, c.name)
      [] c.op = "interval" -> NativeSetMaxInactiveInterval(w, c.id, c.arg)
      [] c.op = "invalidate" -> NativeInvalidate(w, c.id)

SessionCalls(w, calls) == FoldLeft(LAMBDA acc, c : SessionCall(acc, c).world, w, calls)

(***************************************************************************)
(* Properties.                                                             *)
(***************************************************************************)
\* Every class hears each event of an interface it implements once; the
\* events that end a scope arrive in the reverse of the order in which its
\* beginning did (listener.rs l.516-523), and a listener that fails hides the
\* event from those after it and from no other.
ListenersNest(classes, failing) ==
    LET registry == InstantiateListeners(classes)
        all(kind) == FireWith(registry, kind, {})
    IN  registry # <<>> =>
          \A pair \in {<<"ContextInitialized", "ContextDestroyed">>,
                       <<"RequestInitialized", "RequestDestroyed">>,
                       <<"SessionCreated", "SessionDestroyed">>} :
              /\ all(pair[1]) = Reverse(all(pair[2]))
              /\ Range(all(pair[1])) =
                    {classes[k].name : k \in {j \in DOMAIN classes :
                                ListenerTypeOf(pair[1]) \in classes[j].implements}}
              /\ \A kind \in EventKinds :
                    LET heard == FireWith(registry, kind, failing)
                    IN  /\ IsPrefix(heard, all(kind))
                        /\ heard # all(kind) => Last(heard) \in failing

\* The callback of an event is a method, with its event class, of the interface
\* whose listeners the event is sent to (dispatch_one against listener_type).
CallbacksMatch(event) == Callback(event) \in JakartaMethods(ListenerTypeOf(event.kind))

\* Without a JVM no class is lost, and none is registered for a family's plain
\* interface beside one of its attribute or id interfaces (listener.rs l.147).
HintsSpecific(classes) ==
    LET registry == InstantiateStub(classes)
        types(c) == {registry[k].type : k \in {j \in DOMAIN registry : registry[j].class = c}}
    IN  \A k \in DOMAIN classes :
            /\ types(classes[k].name) # {}
            /\ ~({"Context", "ContextAttribute"} \subseteq types(classes[k].name))
            /\ ~({"Request", "RequestAttribute"} \subseteq types(classes[k].name))
            /\ "Session" \in types(classes[k].name) =>
                  types(classes[k].name) \cap {"SessionAttribute", "SessionId"} = {}

\* Every entry of the search path reaches URLClassLoader as itself, the classes
\* directory first: its URL decodes to the path with forward slashes, and ends
\* in "/" for the directory, which would be taken for a jar otherwise.
UrlsNamePaths(classesDir, jars) ==
    LET entries == SearchPath(classesDir, jars)
        slashed(p) == [k \in DOMAIN p |-> IF p[k] = "\\" THEN "/" ELSE p[k]]
        absolute(p) == IF p # <<>> /\ Head(p) = "/" THEN p ELSE <<"/">> \o p
    IN  \A k \in DOMAIN entries :
          LET named == DecodeUrl(PathToFileUrl(entries[k].path, entries[k].dir))
              file == absolute(slashed(entries[k].path))
          IN  /\ named = file \/ (entries[k].dir /\ named = Append(file, "/"))
              /\ entries[k].dir <=> (classesDir # <<>> /\ k = 1)
              /\ entries[k].dir => Last(named) = "/"

\* The bridge's stub classes never shadow a real servlet API that was found,
\* the caller's jars keep their order behind it, and the bridge jar, when the
\* build made one, is there (jvm.rs l.464).
StubsNeverShadow(classpath, override, found, bridge) ==
    LET real == LocateRealServletApi(override, found)
        effective == EffectiveClasspath(classpath, real, bridge)
        at(jar) == {k \in DOMAIN effective : effective[k] = jar}
    IN  /\ found # {} => \E k \in DOMAIN effective :
                            /\ effective[k] \in found \cup Range(override)
                            /\ \A b \in at(Bridge) : k < b
        /\ bridge # <<>> => at(Bridge) # {}
        /\ SelectSeq(classpath, LAMBDA j : j.base = 3) =
             SelectSeq(effective, LAMBDA j : j.base = 3)

\* "every Java `static native` that wants a Rust implementation must appear
\* here (otherwise the JVM will throw `UnsatisfiedLinkError` on first use)"
\* (jni.rs l.1452): with no bridge jar that is older than the Java sources or
\* as old does the JVM come up and then meet a native nobody bound, and one
\* that lacks a bound native, or a class, stops the start.  `declared' maps
\* the jar's facade classes to their natives.
NativesBound(classpath, bridge, declared) ==
    LET older == \A class \in DOMAIN declared : declared[class] \subseteq JavaNatives[class]
        unlinked == {class \in DOMAIN declared : ~(declared[class] \subseteq Bindings(class))}
    IN  older /\ Start(classpath, <<>>, bridge, declared) =>
          unlinked = {} /\ declared = JavaNatives

\* What getResourcePaths lists can be opened with the listed path: a file
\* opens, a directory lists again, whatever slashes the argument had.
ResourcesOpen(files, path) ==
    \A p \in ResourcePaths(files, path) :
        /\ p.trail = 0 => OpenResource(files, p)
        /\ p.trail = 1 => \E f \in files : f.path = RealPath(p) /\ f.dir
        /\ p.lead >= 1

\* The connector and the Java side read one Content-Length: the jlong equals
\* the u64 while it fits, and is -1 otherwise, also for a negative one.
LengthsAgree(headers, maxI64) ==
    LET parts == PartsContentLength(headers, maxI64)
    IN  EntryContentLength(headers, maxI64) =
            IF parts # <<>> /\ parts[1] <= maxI64 THEN parts[1] ELSE -1

\* Both builders of a request handle give a servlet the same request, up to
\* the case of a forwarded protocol (request_facade.rs l.246, dispatch.rs l.129).
BuildersAgree(req) ==
    req.path # "" =>
        [FromCoyote(req) EXCEPT !.scheme = Lower(@)] = RequestHandleFromCoyote(req)

\* Through the natives a session is the map the servlet wrote: the last
\* set or remove of a name decides, an interval below zero reads as zero, and
\* after invalidate every call on its data throws, on no other session's.
SessionNativesFaithful(w, calls, id, name) ==
    LET end == SessionCalls(w, calls)
        mine == SelectSeq(calls, LAMBDA c : c.id = id)
        gone == \E k \in DOMAIN mine : mine[k].op = "invalidate"
        writes == SelectSeq(mine, LAMBDA c : c.op \in {"set", "remove"} /\ c.name = name)
        times == SelectSeq(mine, LAMBDA c : c.op = "interval")
        got == NativeGetAttribute(end, id, name)
        interval == NativeGetMaxInactiveInterval(end, id)
    IN  /\ got.throws = gone /\ interval.throws = gone
        /\ ~gone =>
            /\ got.value = IF writes = <<>> \/ Last(writes).op = "remove" THEN NULL
                           ELSE Last(writes).arg
            /\ (got.value # NULL) = (name \in NativeGetAttributeNames(end, id).value)
            /\ times # <<>> => interval.value = IF Last(times).arg < 0 THEN 0 ELSE Last(times).arg
        /\ ~NativeGetId(end, id).throws
        /\ NativeIsNew(end, id).value = NativeIsNewSession(end, id)
        /\ NativeNewSessionCookie(end, id) = NativeGetId(end, id).value
=============================================================================
