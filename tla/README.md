# A TLA+ model of tomcatrs

This directory specifies tomcatrs, a servlet container in Rust with an embedded
JVM: what its concurrent parts do to their state, what its parsers and tables
return, what must hold of both, and which of it has been model-checked (TLC) and
proved (TLAPS). Paths below are relative to `src/crates/`.

Contents: 1 inventory of the system, 2 modules and how they correspond to the
code, 3 runs, 4 proofs, 5 disagreements between the code and its comments,
6 what is not modelled, 7 plan.

## 1. Inventory

tomcatrs is a set of crates under one binary. A connection arrives at a
*connector* (`tomcatrs-coyote`), which parses a protocol and hands requests to an
*adapter*; the *container* (`tomcatrs-catalina`) maps a request to host, context
and wrapper and runs valves and filters; a servlet runs in the JVM behind
`tomcatrs-servlet-bridge`; sessions live in `tomcatrs-session`. Everything is
asynchronous (tokio tasks, which yield at every `.await` and run on several
threads) except servlets, which run on a fixed pool of JVM-attached threads.

| Component | State | Operations | Interacts through | Hard behaviour |
|---|---|---|---|---|
| Session replication (`store_cluster.rs`) | each node's local sessions, one inbox per node behind a mutex, the shared registry of endpoints | save, delete, load (with a peer fetch and a deadline), run_receiver, join | messages Save, Delete, FetchRequest, FetchResponse | two consumers of one inbox, cancelled waits, nodes that leave, answers that are late |
| Session manager and stores (`manager.rs`, `store_*.rs`) | the store, the index of known ids | create, find, save, invalidate, reap_expired, persist_all, reload_all | called by requests and by whoever embeds it; nothing in the repository calls `reap_expired` on a schedule | store and index change separately; snapshots; crash in the middle of a file |
| HttpSession bridge (`session_bridge.rs`) | the registry of handles, the webapp's manager | getSession, get/set/removeAttribute, invalidate, intervals | JNI calls from servlets on any worker | load, change, save without a lock |
| Async servlets (`async_servlet.rs`) | one atomic state, dispatch path, timed-out flag, timeout, a Notify | startAsync, complete, dispatch, setTimeout, time_out, await_completion | application threads, the awaiting task, a reaper | three-way race, lost wake-ups, cells written after the state |
| HTTP/2 connection (`http2_conn.rs`) | stream map, open-stream count, windows, settings, input buffer | one handler per frame type, response writing, the body pump | frames from the client, an mpsc channel of responses | accounting by hand, errors in any handler, frames handled inside a blocked write |
| Lifecycle, deployment (`host.rs`, `context.rs`, `deployer.rs`, `redeploy.rs`, `manager.rs`) | context map, lifecycle states, wired descriptors, seen mtimes | init/start/stop/destroy cascades, deploy_all, watcher, hot redeployer, manager requests | shared DashMap and state cells, the disk | four actors without a common lock |
| Acceptor and shutdown (`acceptor.rs`, `cli/main.rs`) | the set of connection tasks, a watch channel | accept, reap, drain with a deadline | signals | drain deadline racing requests; errors of accept |
| HTTP/1.1, chunked coding (`http1.rs`, `chunked.rs`) | bytes read too far, decoder state | read_request, push, the keep-alive loop | one socket, the adapter | reads that end anywhere, pipelining, limits |
| AJP (`ajp.rs`) | one packet at a time | run, read_body, write_response | a proxy that must be asked for the body | two peers that must stay in step |
| WebSocket (`transport.rs`, `frame.rs`) | state, fragments, close flags | read_message, write_message, close | one socket | control frames between fragments, close with a deadline |
| HPACK and frame codec (`hpack.rs`, `http2.rs`) | two dynamic tables | encode, decode, size updates | header blocks | tables that must agree for ever |
| TCP cluster transport (`cluster_tcp.rs`) | map of outbound queues, writer tasks | send_to, broadcast, receive | sockets | connect races, eviction, bounded queues, peers that restart |
| JDBC and Redis stores (`store_jdbc.rs`, `store_redis.rs`) | a row or key per session, one connection | save, load, delete | the database, its clock | two statements per save, lost connections, expiry |
| Authentication (`tomcatrs-security`) | nonce table, lock-out table, saved requests, CSRF tokens | authenticate, challenge, process | called by the security valve | check, await, update |
| JVM pool and invocation (`jvm.rs`, `invoker.rs`, `jni.rs`, facades) | job queue, workers, handle registries, response buffers | with_env, shutdown, dispatch, native methods | JNI calls from any Java thread | panics, shutdown, threads that outlive their servlet |
| Webapp start (`registration.rs`, `sci.rs`, `listener.rs`) | context and servlet registries | register, unregister, initializers, addServlet | deployer, Java | failure in the middle, deploying again |
| Pipeline (`pipeline.rs`, `valve.rs`, `security_valve.rs`) | list of valves, basic valve | invoke, add_valve, set_basic | requests | valves added while requests run |
| Background thread (`background.rs`) | last seen mtimes | tick, shutdown | the disk | paths that two hosts share |
| Default servlet (`default_servlet.rs`) | none but the disk | serve, ranges, conditional requests | files that change | stat, then read |
| Histogram (`tomcatrs-soak`) | four kinds of atomic cells | record, snapshot | threads | cells read and written apart |
| Mapper, filters, constraints, normalisation, cookies, negotiation, descriptors, class files, EL, listener order | none | pure functions | | boundaries, and two readers of one text |
| Configuration, observability, manager UI, tag libraries, tools | | I/O | | none shared |

The properties that make each modelled component correct are the ones section 3
lists; `PROJECT.json` lists every hazard at its line with the properties that
would catch it.

## 2. Modules and the code

`PROJECT.json` maps every definition to its lines. Each component is one module;
`MC*` modules give constants values and, where several components share a run,
put them side by side (section 3). A sum EXTENDS the modules that have
assumptions about their constants, so that TLC evaluates those, and takes the
others as instances: `MCServer` extends HttpSession, Auth, Pipeline, RemoteStores,
StaticFiles and WebappStart; `MCContainer` extends AsyncContext, ServletBridge and
Background; `MCProtocols` extends TcpTransport, Connector and WebSocket. An action is one stretch of code
without a suspension point or, where threads share memory, one access to a
shared cell; so every interleaving the runtime can produce is a behaviour.

### ClusterStore (`store_cluster.rs`)

State: `status` of the nodes, `local` (each MemorySessionStore), `inbox` (the
unbounded channel), `waiters` (the inbox mutex: holder first, tokio's mutex is
fair), and for every *actor* (a request task or a node's `run_receiver`) its
place `pc` and the message in its `hand`. A payload is the number of the write
that produced it; 0 is "no such session". `seen` and `owed` are history: the
last write a node applied, and the last one acknowledged while the node was due
it. `Save`/`Delete` write locally, `Replicate` sends to all peers or to the
backup, `Load`/`Ask`/`Deadline`/`Timeout`/`Cache` are `load`, `Receive`,
`ApplyWrite`, `LookUp`, `Reply`, `Drop` are shared by `run_receiver` and a load
that takes other people's messages. `Join` and `Leave` are membership.

### SessionManager (`manager.rs`, `store_memory.rs`, `store_file.rs`)

A stored session is its `last_accessed`. Which store is configured is the
variable `kind`, chosen initially. Each store call and each critical section of
the index is a step. The memory store's `reap` collects first and evicts later
(`ReapStart`, `Evict`), then the index is pruned (`EvictDone`, `PruneOne`); other
stores are walked along the index (`ReapOne`). The file store truncates before
it writes (`Truncate`), and `Crash` may hit in between. `Does` says which
activities go on under each store.

### HttpSession (`session_bridge.rs`)

`ResolveNone`/`ResolveCookie` are `nativeResolveOrCreateSession` through
`SessionBinder`; every mutator is `Load` followed by `Save`. `workers` bounds how
many requests run at once. `want` is history: the attributes had every accessor
run alone. Accessors that only read are left out.

### AsyncContext (`async_servlet.rs`)

`state` is the atomic; `advance` (load, validate, compare-and-swap until decided)
is one step. `path`, `timedOut` and `signal` are the other cells, written by
later steps. `Settle`, `NotAsync`, `Arm`, `ReadLimit`, `Woken`, `Timer` and
`TimeOut` are the places of `await_completion`; `site` tells its three looks at
the state apart. Nothing in the repository awaits yet: `ServiceSync`, `Returned`
and `Serialize` model the caller its contract describes (marked external).

### Http2Conn (`http2_conn.rs`)

One connection task (`Top`, `HandleFrame`, `FramesDone`, `Read`, `PeerClosed`,
`WriteResponse`, `WriteBody`, `AbandonBody`, `Pump`, `PumpDone`), adapter tasks
(`Adapter`) and a client that sends any frame (`Legal = FALSE`) or keeps to RFC
9113 (`Legal = TRUE`). The handlers are operators on the stream map and the
connection record; how one ends (`Fine`, `ConnError`, `StreamError`) depends on
whether it ran in the main loop or in the pump. Header blocks are numbered in
the order they were encoded, which is all HPACK synchronisation needs. `credit`
is history: what the client has granted, counted when the server takes the frame
in, minus what was sent. A SETTINGS frame
carries one parameter. A client acts while the server is about to read, which
loses nothing since the server looks at the socket nowhere else. A stream's
receive window is taken and given back by one handler and is no variable.

### Deployment (`host.rs`, `context.rs`, `wrapper.rs`, `deployer.rs`, `redeploy.rs`, `manager.rs`)

Actors: `main` (the cascade the command line drives), `watcher`, `redeployer`,
`manager`, and an operator who changes the disk. `contexts` grows by one for
every Context ever created, so that the model can tell a context from the one
that replaces it; `host` maps paths to them. A cascade over a context is
`JobEnter`, `JobWrapper` per wrapper, `JobLeave`. `wired` is the OnceLock.
The command line spawns neither watcher, redeployer nor manager: they are tasks
for an embedder, and the runs choose which exist (`Roles`).

### Connector (`acceptor.rs`, `cli/main.rs`)

Several accept loops (`acc`), each with its JoinSet, the watch `flag`, connection
tasks, the drain and its deadline, and the command line's wait with its outer
budget and second signal. A fatal accept error ends one loop and aborts its
connections.

### Http1Conn and Chunked (`http1.rs`, `chunked.rs`)

The socket is a sequence of units, each knowing which request it belongs to and
whether it is head or body; a read returns any prefix. So the model can tell
whose bytes the connection gave to the adapter, which is what framing is about.
`buf`, `carry` and `first` are the buffers of `read_head`. `Eager` lets the
client send behind a request without a body. Chunked is the decoder on single
characters, its input cut anywhere, beside the grammar of the coding as a
reference; `usize` is five bits.

### Ajp (`ajp.rs`)

Container and proxy with two packet queues; the proxy is external and does what
the protocol says. The strings of a packet are numbers with a length and a NUL;
a secret is its bytes, compared as `secret_matches` does, the lengths modulo
`ByteWidth` (2^8 in the code, 2 in the run).

### WebSocket (`transport.rs`, `frame.rs`, `handshake.rs`, `jakarta_bridge.rs`)

The reader, a writer and a closer of one connection. Frames are records of
opcode, fin, length, mask and validity; the lenient parser that decides how much
of a bad frame is skipped is modelled. `out` is what the peer receives.

### TcpTransport and LossyLink (`cluster_tcp.rs`)

Tasks that look up, connect, insert and send; writer tasks with bounded queues
that drop a message too large to frame, whatever the link (`DropBig`), and remove
the peer's entry when they stop; the peer's reader and inbox; peers that restart. `LossyLink` is the abstract transport: it accepts a message, then
loses it, delivers it or keeps it on the way, and never repeats or invents one.
`Link` maps what the detailed one has accepted and received to what the link was
sent and gave out; the queues, sockets and hands between them are the link's
freedom to lose and to reorder. `ImplementsLink` states the refinement.

### RemoteStores (`store_jdbc.rs`, `store_redis.rs`)

One row and one key, two tasks, a statement or command per step, a connection
that breaks before or after the statement or command under way was executed, a
clock that expires keys.

### Auth (`realm_backends.rs`, `auth_form.rs`, `auth_digest.rs`, `csrf.rs`)

Logins and digests of two tasks with the inner realm as a suspension point.
`history` is what was tried and answered. Secrets are model values; a hash is a
record of what went into it.

### Hpack and H2Codec (`hpack.rs`, `http2.rs`)

Hpack keeps the two dynamic tables with abstract fields and sizes. H2Codec is
bytes: integers over a 16-bit usize, the whole Huffman table, string literals with
the check that they are UTF-8, frames of every type.

### ServletBridge and BridgeData (`jvm.rs`, `invoker.rs`, `jni.rs`, facades, `listener.rs`)

ServletBridge is a request's way from dispatch to the answer: the job queue, the
handle registries, the response buffer, native methods called by the servlet's
thread and by one that outlives it, panicking jobs, shutdown. BridgeData is what
the same files compute: listener order, class path, URLs, resources, headers,
the native session methods. The natives that the Java classes declare
(`RequestNatives` to `ContextNatives`) are taken from the Java sources, those that
are bound (`Bindings`) from `jni.rs`, and `NativesBound` compares the two.

### WebappStart (`registration.rs`, `jni.rs`, `sci.rs`)

One deployer that registers, fails anywhere, unregisters and deploys again, and
the initializer walk with the servlets it adds. What a web.xml yields is a set of
plans: the servlets sorted by load-on-startup, those of one value in any order,
which is what a hash map's iteration leaves. The Java side of dynamic
registration is in the repository and modelled from it.

### Pipeline, Background, StaticFiles, ContainerData, Routing, RequestText

Pipeline runs requests through a snapshot of the valves taken under two locks.
Background is the tick loop and its tracker keyed by path. StaticFiles is the
default servlet between stat and read of a file that is rewritten or removed, with
any combination of the four conditional headers (`*` among their tags) and of a
set of Range headers, and dates. ContainerData, Routing and RequestText are functions: the adapter and
load-on-startup; mapper, constraints and filter chains; normalisers, cookies and
negotiation.

### Histogram, El, ClassFiles, WebappData

Histogram is `record` and `snapshot` one atomic access at a time (the relaxed
orderings are modelled as sequentially consistent). El goes from characters to
values, with longs of six bits and doubles as fractions rounded to a four-bit
mantissa. ClassFiles decodes class files from bytes. WebappData is the
descriptor, resources and the names of precompiled JSPs.

## 3. Runs

All bounds are named constants. Deadlock checking is off: every one of these
systems may legitimately stop (no more requests, process exited, bound reached);
that what has begun ends is what the liveness properties say.

| Run | Question | Properties | Bounds |
|---|---|---|---|
| `cluster_writes` | do replicas get every acknowledged write, in order? | TypeOK, InboxQueueSound, AckedReplicated, Converged, NoRegress | 3 nodes (one joins late, two may leave), mixed modes, 2 sessions, 2 writes each, 1 load at a node that is not replicated to |
| `cluster_zombie` | violation: a delete reaches a node where a load waits | DeletesDropped | 3 nodes with receivers, 1 session, a save and a delete at one node, 1 load at another |
| `session` | does what has expired go, do index and store agree? | TypeOK, Tracked, ExpiredGoes, DeadIdsGo | 2 tasks; an embedder that may or may not keep reaping; memory store: one session, all activities, one crash; other stores: create, find, reap |
| `http_lost_update` | violation: WritesKept with two workers | WritesKept | 2 workers |
| `h2_frames` | is the accounting right whatever the client sends? | TypeOK, OpenCount, OneAnswer, WithinCredit | 3 frames: open, data and reset on 3 streams with a limit of 2; or window updates on 2 streams with overflow at 3; or header blocks, settings, GOAWAY and malformed frames |
| `h2_blocked_body` | violation: BodyCompletes with two requests | BodyCompletes | two streams |
| `deploy_manager` | do manager requests, watcher and shutdown respect each other? | TypeOK, NeverReplaced, WiredOnce | 2 paths, 3 contexts, one change of the disk |
| `deploy_live` | do the background tasks converge to the disk? | StartedMeansChildren, FixPickedUp, DropsRegistered | 2 paths, descriptors that are good (up to 2 servlets), empty or bad, 3 changes of the disk |
| `protocols` | do connections keep requests and messages whole, and end? | RequestsKept, StopAfterDrain, ImplementsLink, EveryoneEnds | 2 connectors and connections; 2 HTTP/1.1 requests of 10 kinds; chunked input in slices of at most 2; one HTTP/2 body of 3 units against a window of 1; 3 forwarded AJP requests; 3 WebSocket frames; 3 cluster messages over 3 connections and a restart |
| `http1_pipelined` | violation: NoneLost with an eager client | NoneLost | as `protocols` |
| `container` | is everyone who waits answered, once? | EndsOnceHeard, BridgeSound, ReportsOwnChanges, EveryoneAnswered | async: 2 threads, 2 paths, 3 cycles; bridge: 2 requests, 2 workers, one panic; background: 3 contexts, two of one path; cluster: 3 nodes, two loads, one write, a node that leaves |
| `server` | is the rest of the server safe? | SessionsSerial, CredentialsGuarded, CodecsSurvive, StartsSound, ResponsesReported, RemoteStoresKeep, CopiesGood, SamplesKept, RequestsRouted, RequestsRead, WebappsRead, ExpressionsMean, BridgeFaithful | sessions: 2 requests, 2 ids, 1 or 2 workers, 2 names; the others in `MCServer`, the samples in `MCAlgorithms` |

Sums. `MCProtocols`, `MCContainer` and `MCServer` put components that do not
interact side by side: `part` is chosen initially and never changes, one part
runs and the others stay in one state (an ended one where the initial state
would be urged on by fairness). The states are the union of the parts' states,
so a sum costs what its parts cost, and a part is checked as it would be alone.
The temporal properties are single leads-to formulas whose predicates are guarded
by `part`; as `part` is constant along a behaviour, each equals the conjunction
of the parts' own leads-to properties. Parts that do interact are composed inside
a module: HTTP/2 connection, adapters and client; accept loops, connections and
the command line; worker pool, registries and application threads; deployer,
watcher, redeployer, manager and disk.

The calls of `MCAlgorithms` are one-step behaviours: from "none", one call with
any sample of its arguments, in which the function's result is compared with a
reference (a round trip, a declarative best choice, agreement of two
implementations, an order's laws).

Why the bounds are enough to be interesting: three nodes are the least with a
bystander; two writes the least that can be reordered; three streams against a
limit of two reach refusals; a window of one unit makes every body block; three
disk changes allow an application to be dropped, broken and fixed; three cycles
let a cell written in one cycle be read two cycles later; reads of up to three
units over heads of one unit reach past a request; a table of three units is
emptied by one field of that size; queues of one message fill. The samples cross
every length boundary of the encodings they are for. Every action and every
disjunct occurs in some passing run.

Scope of the passing runs. `cluster_writes` has one writer per session (requests
of a session stick to a node) and loads only at a node no write is replicated
to; with a load where writes arrive, a delete may be undone (`cluster_zombie`), so
Converged fails, and NoRegress too: the load and the receiver apply what they took
in either order.
Under the file store and Redis, `session` has no touch, no invalidate and no
crash: with them Tracked fails (section 5). In SessionsSerial, that no write is
lost and that invalidated sessions stay gone are claims about one worker; the
rest holds with two. `deploy_manager` leaves out deploy requests and
`deploy_live` the start and stop requests for the same reason. In `deploy_live`
descriptors may be empty; FixPickedUp excepts the contexts whose single-shot guard
was spent on an empty first descriptor (`SpentOnEmpty`), which the comment at
`redeploy.rs:167` does not. FixPickedUpAlways is the comment's whole claim; TLC
finds it violated by the same run's configuration, and no run has it. PicksBest
allows both wrappers where `/*` and an extension match, the one case in which the
comments of `mapper.rs` contradict each other; StarYields is what l. 60-63 say of
it, and the code does not satisfy it. `protocols` has
one HTTP/2 request at a time and an HTTP/1.1 client that does not pipeline
behind a request without a body. RemoteStoresKeep leaves out the races the
stores have (section 5) by saying which overlaps it speaks of.

Fairness. Weak fairness of a task's steps: tokio polls a task that can proceed,
timers fire, a thread that can run runs. Operations that nobody has to call
(requests, manager commands, disk changes, signals, complete, dispatch, the async
reaper, a native call) have none. Neither has the start of a session reap: the
background engine and the command line never call `reap_expired`, so only a reap
that has begun is carried on (`ReapStep`), and ExpiredGoes and DeadIdsGo are claims
about an embedder that keeps calling it (`ReapsForEver`). Of the other side only what the
property presupposes is fair: the HTTP/2 client grants more credit once it has
none left; the AJP proxy answers a request for body. Deadlines that end a wait
(drain, WebSocket close, cluster fetch, async timeout) are fair because timers
are. Strong fairness is used once, of `SeeShutdown` in Background: the loop waits
in a `select!` that picks among its ready branches at random, so a shutdown that
stays visible is not passed over for ever. The inbox mutex needs none because it is
a queue.

Mutants. Each property has a mutant in `PROJECT.json`: an operator marked
"Mutant" or "a slip" in the module, a plausible mistake in the code it stands for, under which
TLC finds the property violated. The properties of the three sums are
conjunctions over their parts, so the modules define a mutant per conjunct, and
TLC was run on each of them in the same way:

| Run | Further mutants, by module |
|---|---|
| `protocols` | Connector: DrainTimeoutIgnored, DrainAllFirst. Http1Conn: TakeBodyNoCarry, HeadEofPatient. Chunked: ParseSizeLinePerChunk, PushGreedy. Http2Conn: RetryBody, FlowFrameNoUpdate. Ajp: OnForwardAsks, ReadBodyIgnoresEnd, EncodesEach. WebSocket: HandleControlFrameAlways, WriteMessageClosing, CloseTimeoutOpen, EncodeLengthOff, ResponseHeaderBare. TcpTransport: WriterStopsNever, WriterStopsIdle |
| `container` | AsyncContext: TimeOutStuck, ArmAndWait. ServletBridge: InvokeUnguarded, NativeReadBodyPeeks, JobPanicsKeeps. Background: SeeShutdownValue. ClusterStore: NextRoundUnlessError, SentIfAllUp |
| `server` | HttpSession: SaveOwnOnly, SaveAnywhere, CreateUnmarked, FinishIdle. Auth: BeginLoginKeeps, TakeSavedKeeps. Hpack: EncodeFieldLate, DecodeInstructionNamed. H2Codec: EncodeIntegerShort, ShiftTooLargeNever, BitsOfReversed, PaddingZeros, StripPaddingTwice, IsUtf8Always. WebappStart: StartServletLenient, InvokeFailsAborts, OrderKeyLessRaw. Pipeline: ErrorReportOk, SecurityHeadersNone. RemoteStores: UpdateAlone, DelBare. StaticFiles: SpecRangeUnclamped, CivilFromDaysJulian. ContainerData: HttpDateNowMarch, ServicePlain, ResolveUnderPops, StartsBeforeLast. RequestText: NormalizeAndValidateEarly, NegotiateLast, UnquoteSessionShort, ExtractSessionIdLast. Histogram: BucketForShort, SnapshotBucketShort. Routing: SplitServletPathBoth, CheckSkipsDeny, PushFilterAgain. WebappData: CollectFieldsDeep, SafeRelativeRaw, MangleIdentifierCharsPart. ClassFiles: DecodeModifiedUtf8Plain, InsertEdges, ScanWebappStops. El: EvalLogicEager, ValuesEqualTyped, BodyEndPlain. BridgeData: ClassifyFromClassNameAll, ListenerTypeOfPlain, EncodeKeepsPercent, EffectiveClasspathLast, BindingsBare, RealPathAbsolute, EntryContentLengthSigned, FromCoyoteRaw, NativeRemoveAttributeUnsaved, NativeSetMaxInactiveIntervalCast |

## 4. Proofs

Eight `*Proofs` modules extend the modules they are about. A theorem holds for
every value of the constants that satisfies the ASSUMEs of its module (TLC
evaluates them in the runs) and the hypotheses it states. TLC checked each of the
inductive invariants on a small instance before it was proved, and found the
counterexamples this section speaks of. A proof has a lemma per action, or per
group of actions that touch the same state.

| Theorem | States | Hypotheses |
|---|---|---|
| ClusterStore `TypeCorrect` | `[]TypeOK` | |
| `AckedWritesReplicated`, `ReplicasNeverRegress`, `ReplicasConverge` | `[]AckedReplicated`, `NoRegress`, `[]Converged` | `SingleWriter`, `NoLoads` |
| `InboxQueuesSound` | `[]InboxQueueSound` | |
| SessionManager `SessionManagerTypes` | `[]TypeOK` | |
| `SessionsTracked` | `[]Tracked` | every store but memory is `Steady` |
| AsyncContext `OneWayOutHolds`, `WakeupsNotLost`, `AsyncSound` | `[]OneWayOut`, `[]NoLostWakeup`, `[]EndsOnceHeard` | |
| Http2Conn `ConnTypes`, `CountExact`, `AnsweredOnce`, `NeverBeyondCredit` | `[]TypeOK`, `[]OpenCount`, `[]OneAnswer`, `WithinCredit` | |
| Deployment `DeploymentTypes`, `WrappersWiredOnce` | `[]TypeOK`, `WiredOnce` | |
| `DeployedUntouched` | `NeverReplaced` | `OneDeployer` |
| `StartedHasChildren` | `[]StartedMeansChildren` | `OneStarter` |
| ServletBridge `BridgeIsSound` | `[]BridgeSound` | `Sane` |
| WebappStart `StartsAreSound` | `[]StartsSound` | |
| TcpTransport `TransportIsLink` | `ImplementsLink` | |
| Connector `StopsAfterDrain` | `[]StopAfterDrain` | |
| WebSocket `WritesWellFormed` | `[]OutWellFormed` | |
| HttpSession `SessionsAreSerial` | `[]SessionsSerial` | |
| Auth `CredentialsAreGuarded` | `[]CredentialsGuarded` | |
| Pipeline `ResponsesAreReported` | `[]ResponsesReported` | |
| RemoteStores `DatabaseKeeps`, `RedisKeeps` | `[]RemoteStoresKeep`, of JdbcSpec and of RedisSpec | |
| StaticFiles `CopiesAreGood`, `RangesAreExact` | `[]CopiesGood`; `RangesExact` of any Range header and length | |
| Background `BackgroundReports` | `[]ReportsOwnChanges` | |

**ClusterStore.** `TypeInv` adds to TypeOK that an actor about to send or apply
holds a message (`HandOK`) and that a load under way knows its session
(`WantOK`); without them `hand[a].id` is not typed. That a write is never lost or
overtaken is not inductive by itself: `OrderInv` says that all in flight is
ordered: `InboxOrdered` (writes of a session in an inbox have increasing
numbers), `HandOrdered` (the one being applied lies between what was applied and
what is queued), `SeenBounded` (a node has seen nothing newer than was written),
`Roles` and `OwedMembers` (who may hold what; only a member is owed anything).
`CopyInv` follows what the numbers stand for: the writer's copy is its last write
(`SourceLatest`), a replica holds what the last write it saw said (`SeenCopies`),
and messages carry what was written under their number (`InboxCurrent`,
`HandCurrent`). `SingleWriter` makes numbers increase at the source, `NoLoads`
makes `run_receiver` the only consumer of an inbox; TLC finds a violation without
either. `QueuesKept` ties an actor's place to its one position in the queue of
the inbox mutex, whatever is cancelled; it needs no hypothesis.

**SessionManager.** `Tracked` rests on where each actor that holds a session is
between its store call and its index update (`SavedOnceInv`, `UndeletedInv`).
`Steady` names the two regimes in which the code keeps it: sessions saved once
(create, find, reap), or saved again but never deleted (create, find, touch,
persist). They are maximal: TLC finds Tracked violated when touch, invalidate or
persist joins the first, or invalidate or a crash the second.

**AsyncContext.** After the compare-and-swap that leaves Started, the winner
finishes with plain stores that check nothing. `AsyncInv` says that a thread
inside such a call owns the state it overwrites (`CompleterOwns`, `TimeoutOwns`,
`ServletOwns`, `DispatchStands`) and that nobody has won before async mode was
left (`NobodyYet`, `SameWinner`). `WakeInv` adds who is still to fire the signal
(`SignalHeld`, `MovesFinished`, `PastStart`).

**Http2Conn.** `ConnInv` is `Good` of the stream map, the connection, the tasks, the
responses and the body under way, an operator of all of them because a handler first
builds a map and a record and then ends with `Fine`, `StreamError` or `ConnError`.
It says that the count is the size of the map; that streams, adapter tasks, queued
responses and the body account for each other, so that an answer has exactly one
origin; and that each window is at most what the client granted less what was sent.
The last is an inequality: a SETTINGS change that overflows one window raises the
others before it fails, and the client has granted that.

**Deployment.** `DeployInv` says of each place of an actor what its registers
hold (`ActorOK`), of the registry that a path leads to a context built for it
(`RegistryOK`), and of the disk its kinds. `OneDeployer` excludes a manager's
deploy beside the watcher, where TLC finds the replacement of section 5.
`StartInv` adds that the one who starts is alone in a cascade (`StartersApart`),
that contexts not registered yet are fresh (`UnitsFresh`), that a reload works on
a context of its own (`ReloadsOwn`), and how far a start has got
(`StartsProgress`, `ChildrenStarted`). Every exclusion of `OneStarter` is needed:
a shutdown beside the redeployer, a manager's reload, a manager's start beside the
watcher, and a stop beside the redeployer each leave a Started context with a
wrapper that is not.

**ServletBridge.** `Pooled`: a request in the pool waits and is there once, in the
queue or at one worker, so that the end or panic of a job never moves a request that
was answered. `Committed`: what has been reported is committed, so that a thread
left behind cannot change its status; `Dropped` and `Ordered` are the registries and
the body. One lemma per operation of the sink (`Kept`: committed stays committed,
with its status) serves the natives, `complete` and the fallback. `Sane` says that a
body has a length and that no request is called "idle" or "gone", the states of a
worker.

**TcpTransport.** The mapping takes `accepted` for what the link was given and
`received` for what came out; what is on its way needs no variable, as the link
may lose it. That a step of the detailed system maps to a step of the link, or to
a stutter, needs that a message accepted for a peer is in at most one place:
received, in the inbound queue, or in the socket or queue of one connection
(`Flight`), that the connection a task uses leads to its peer (`Wired`), and that
a task sends a message of its own, once per peer (`Sending`).

**WebappStart.** `StartInv`: the path leads to the newest context, which the walk
of the initializers works on (`AttachFacts`); what is made and what is left of a
list are together in the order of load-on-startup (`OrderFacts`); the initializers
heard of and those left are the list (`WalkFacts`); what was added has a name of
its own, under which the registry has it (`AddedFacts`); and what is published is
initialised, or was added by an initializer and either failed or is still in the
list the deployer calls init() from (`PublishFacts`, `Pending`).

**Connector.** A task that runs is in the set of an accept loop (`TasksOwned`); a
loop that has ended has an empty set, unless it failed, which aborts its tasks
(`EmptyAtEnds`); and "drained" is said only once every loop has ended
(`DrainedAll`). One lemma serves all steps of a loop (`LoopStep`).

**WebSocket.** `WritesInv`: `out` is well written and ends with a whole message, a
connection that has not sent a Close has written none, and one that has is no
longer open. A step is a connection and what it writes (`Writes`), and well-written
sequences are closed under appending behind a sequence without a Close
(`WrittenOn`).

**HttpSession.** `SessionInv`: a request between its load and its save has a handle
and a copy whose values are of the session of that handle (`HandleFacts`,
`OwnCopies`); an id is created by one request (`IdFacts`); with one worker, at most
one request is live and its copy is the session as it is, with its own change
(`Serial`: `OneLive`, `CopyCurrent`).

**Auth.** The bound on guesses counts logins in flight, so `LockFacts` relates the
wrong answers, the counter, the time of the lock and the number of tasks between
check and update: the last wrong answers are counted, and those before them are older
by a lockout window. `SavedFacts`: what is in the store was not replayed.
`DigestFacts`: a counter that was let through is remembered until its nonce is stale,
and until then no other task has been let through with it.

**Pipeline.** `PipeInv` is a fact about each request (`RequestOk`) at every depth of
the chain it took when it began: which filters have passed it on, what the basic
valve has done, and that every filter on the way back leaves what the outer ones
promise of the response. Changes of the shared list concern later requests only.

**RemoteStores.** An operation that shares its time with no other is alone from its
first statement to its last (`Unshared`, `SecondStatement`), results are counted
(`Counted`), and after a delete nothing is under way that could write
(`DeletedQuiet`). That the statement whose answer was lost may have been executed is
why a failed save proves nothing.

**StaticFiles.** Metadata is read before the file, so the tag and the date of a copy
are those of a version no younger than its body (`CopyFacts`). `RangesAreExact` is
about the parser alone.

**Background.** What the tracker remembers under a path that one context has is what
that context's processor read last, whoever was deployed and undeployed since
(`OwnSeen`).

What stays with TLC, and why.

* Liveness (ExpiredGoes, FixPickedUp, DropsRegistered, EveryoneEnds,
  EveryoneAnswered and the like) and everything with ENABLED, which the prover does
  not do.
* RequestsKept as a whole, but for its conjunct OutWellFormed: framing of HTTP/1.1,
  chunks and AJP, and the length of a fragmented message, are sums over sequences.
* CodecsSurvive, SamplesKept, RequestsRouted, RequestsRead, WebappsRead,
  ExpressionsMean and BridgeFaithful: what folds and recursive functions compute for
  every input is an induction over data. Ajp, Chunked, ClassFiles, El and WebappData
  declare RECURSIVE operators besides.
* Clusters with loads, stores outside `Steady`, deployments outside `OneDeployer` and
  `OneStarter`, where the code breaks the properties.

## 5. Where code and comments disagree

Four violation runs are kept: `cluster_zombie`, `http_lost_update`,
`h2_blocked_body` and `http1_pipelined`; `PROJECT.json` quotes both sides.
Modelling and checking also met the following; the models have the behaviour of
the code, and no passing run relies on what the quoted line says instead.

* Replication. `run_receiver` drops the answer a load at its node waits for
  (`store_cluster.rs:357`; "consumed inline by the load that issued the request",
  l. 333). A load returns the first answer, a peer's None included
  (l. 451 against l. 262). A load that applies other messages and `run_receiver`
  apply two writes of one session in either order (l. 455; `cluster_zombie`). The
  answer to a fetch is stored over what reached the node since it was sent (l. 449).
* Session manager. A save between another task's delete and its index removal
  leaves a session no reap will find (`manager.rs:142` against l. 109). The memory
  reap evicts a session refreshed since it was collected (`store_memory.rs:56`).
  A crash while a file is written leaves it unreadable, and one such file fails
  the whole `reload_all` (`store_file.rs:79` against l. 12). The background
  processor drives session expiry (`docs/architecture.md:223`, `background.rs:7`),
  but nothing in `background.rs` or the command line calls `reap_expired`.
* HttpSession. A save begun before `invalidate` revives the session
  (`session_bridge.rs:186` against l. 277); an expired session that was not reaped
  yet is reused (l. 547 against l. 541); `getSession(false)` with an unknown
  cookie creates one (l. 1088 against l. 1042); handles are never unregistered
  (l. 364 against "drained once the servlet invocation finishes", l. 294).
* HTTP/2. A body whose stream is reset waits for credit for ever
  (`http2_conn.rs:1113`); errors met in the pump are dropped (l. 1182, "handled by
  the outer loop"); the frame size is read once per body (l. 1103); after a stream
  error the loop waits although frames are buffered (l. 473); after GOAWAY it may
  spin (l. 477); a SETTINGS change that overflows one stream's window leaves the
  streams before it changed, and in the pump the error is dropped (l. 672); a
  refused stream's CONTINUATION ends the connection (l. 859), and its header block
  never reaches the HPACK decoder (l. 808 against l. 383).
* Deployment. A context wired after it was started says Started with wrappers that
  are not (`docs/architecture.md:134`); two concurrent `deploy_all` register two
  contexts for one path, the second replacing the first (`deployer.rs:70` and 127),
  as the manager's deploy and the watcher do; a shutdown or a stop beside the
  redeployer, a manager's reload, and its start beside the watcher leave a context
  that says Started with wrappers that are not; a unit whose descriptor breaks
  between the two reads stays mounted (l. 127 to 132); a manager start revives a
  destroyed context (`context.rs:398`); a context whose first descriptor has no
  servlets stays stopped after its first reload, since the single-shot guard rejects
  the second wiring (`redeploy.rs:176`; "the operator can fix the descriptor and
  we'll pick it up next tick", l. 167): `SpentOnEmpty` is that case, and
  FixPickedUpAlways the claim that fails.
* Async. `dispatch` stores its path after the state, so the caller may read an old
  path (`async_servlet.rs:378`); its late notify can wake the next cycle's wait,
  which then reports Completed for a request still in async mode (l. 384, l. 610);
  a reaper's timeout can be reported as Errored or Completed (l. 415, l. 573).
* Connectors. Running out of descriptors ends the accept loop although the comment
  calls resource exhaustion transient (`acceptor.rs:392`). Once the first byte of a
  head has arrived nothing times out (`http1.rs`). A chunk-size line may hold stray
  CRs. AJP reads SSL_KEY_SIZE as a string, and casts the difference of two secrets'
  lengths to a byte, against "Length mismatch is itself a non-match"
  (`ajp.rs:876`). The peer's SETTINGS_HEADER_TABLE_SIZE is
  stored and never given to the encoder (`http2_conn.rs:129` against `hpack.rs:258`).
* WebSocket. A malformed Close leaves the state Open; the lenient parse skips
  `max_frame_size`; after a refused data frame an open fragment goes on.
* TCP transport. Broadcast uses the entries of the connection map only, so the
  first write after a restart reaches nobody (`cluster_tcp.rs:317` against l. 27).
* Remote stores. UPDATE and INSERT race with a delete (`store_jdbc.rs:250`); SET and
  PERSIST strip an expiry set in between, and an interval below a second is immortal
  (`store_redis.rs:158`); a lost connection is not opened again, although l. 20 says
  so.
* Authentication. The digest path does not pass the lock-out
  (`realm_backends.rs:382`); attempts in flight pass it (l. 357).
* Bridge. Re-registering a webapp keeps the servlets of its earlier descriptor, and
  a failed registration leaves its context entry and its initialised servlets;
  requests may reach a dynamically added servlet before it is initialised; the
  index by path is checked, released and removed (`jni.rs:452`); the first failing
  listener hides the event from those after it; the servlet API jar of the highest
  name, not version, is taken; a Content-Length above i64 is -1 in Java; two builders
  of a request treat the case of a forwarded protocol differently. `nativeOnStart`,
  `nativeOnShutdown` and `nativeReportError` of `TomcatRsBridge.java` (l. 46-56) are
  bound by nothing, although l. 60 has the protocol version checked with the first.
* Container. "Distinct contexts do not collide" (`background.rs:153`) fails for one
  path on two hosts; the adapter's static fallback looks below doc_base for the
  whole request path (`adapter.rs`); `/*` beats an extension, as
  `mapper.rs:18-19` has it ("exact, longest path-prefix, extension, default") and
  against l. 60-63 (it "still loses to exact and extension matches"): no passing run
  relies on either; a file that shrank between stat and read panics a range request
  (`default_servlet.rs:327`); the abort of `startup.rs` cannot be reached.
* Webapp and JSP. A second url-pattern overwrites the first
  (`web_descriptor.rs:248`); a class in two places is listed twice
  (`annotations.rs:138`); `a.jsp` and `a.jspx` get one class name, "unique per JSP"
  (`precompile.rs:402`); `Long.MIN % -1` and its negation panic, and comparisons
  through f64 confuse large longs (`el.rs:1081`, l. 1105).
* Histogram. The mean of a snapshot taken during a record may exceed its maximum;
  the first sub-bucket is wider than the documented 11 %.

## 6. Not modelled

* Configuration files, metrics, logs, health probes, the manager's pages,
  benchmarks, compatibility and preflight tools: I/O and formatting, nothing another
  part reads.
* Tag libraries, `jsp-config`, the Jasper bridge and the scratch directory:
  sequential file handling and calls into Java.
* TLS handshakes; the choice of protocol by the first bytes (`protocol.rs`,
  `upgrade.rs`); Basic authentication, a parser in front of the modelled realms;
  hashing and the files behind realms; directory listings; archives as bytes.
* JNI marshalling of strings and arrays, failing JNI allocations inside the
  initializer walk, and the Java side apart from dynamic registration.
* `DynamicTable::set_max_capacity` and `set_max_table_size`, which nothing calls.
* Failing lifecycle steps, because no component in the repository's tree can fail
  after `init`; Server, Service and Engine only pass calls on.
* Weak memory: relaxed atomics are sequentially consistent in the models.

## 7. Plan

Modelling is complete up to section 6. Of the safety invariants that are about
interleavings, SamplesKept and the framing in RequestsKept have no theorem. Worth
doing next, in order:

1. `AckedReplicated` of ClusterStore with loads, for writers that write once;
2. `NothingLost` of Histogram, with the finite sums of a library of its own;
3. `FramingKept` of Http1Conn, with the units of the socket as intervals, so that no
   sum is needed;
4. the choice of protocol by the first bytes (`protocol.rs`, `upgrade.rs`), in front of
   Connector and Http1Conn.
