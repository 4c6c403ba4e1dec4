---------------------------- MODULE ContainerData ----------------------------
(***************************************************************************)
(* What the container computes in one go (tomcatrs-catalina): the adapter  *)
(* that answers a request the mapper routed (adapter.rs; Routing has the   *)
(* mapper) and the load-on-startup pass over a context's servlets          *)
(* (startup.rs).  A path is the sequence of its segments.                  *)
(***************************************************************************)
EXTENDS Integers, Sequences, FiniteSets, SequencesExt

(***************************************************************************)
(* CatalinaAdapter::service and serve_static.  routed is the mapper's      *)
(* answer: a servlet, a context with its doc_base, or nothing.  A document *)
(* base is [files, dirs], paths relative to it; a response body is the     *)
(* file, "landing", "report" or "" for none.                               *)
(***************************************************************************)
\* a slip: the parent is taken, as a shell would
ResolveUnderPops(path) ==
    <<FoldLeft(LAMBDA p, s : IF s = ".." THEN IF p = <<>> THEN p ELSE Front(p)
                             ELSE IF s \in {"", "."} THEN p ELSE Append(p, s), <<>>, path)>>

\* resolve_under: the normal components, <<>> when there is a parent component
ResolveUnder(path) ==
    IF ".." \in Range(path) THEN <<>>
    ELSE <<SelectSeq(path, LAMBDA s : s \notin {"", "."})>>

Answer(status, body) == [status |-> status, body |-> body]
HeadOf(resp) == [resp EXCEPT !.body = <<>>]

\* tokio::fs::read of the target succeeded, or not
Read(base, target) == IF target \in base.files THEN <<target>> ELSE <<>>

Landing(base, path, resolved) ==
    \/ path \in {<<>>, <<"">>}
    \/ resolved = <<>> /\ <<"index.html">> \notin base.files

ServeFound(base, method, path, resolved) ==
    LET target == IF resolved \in base.dirs THEN Append(resolved, "index.html") ELSE resolved
        full == IF Read(base, target) # <<>> THEN Answer(200, Read(base, target))
                ELSE IF Landing(base, path, resolved) THEN Answer(200, <<"landing">>)
                ELSE Answer(404, <<"report">>)
    IN  IF method = "HEAD" THEN HeadOf(full) ELSE full

ServeStatic(base, method, path) ==
    IF method \notin {"GET", "HEAD"} THEN Answer(405, <<"report">>)
    ELSE IF ResolveUnder(path) = <<>> THEN Answer(403, <<"report">>)
    ELSE ServeFound(base, method, path, ResolveUnder(path)[1])

MappedPlaceholder == Answer(501, <<"placeholder">>)

\* a slip: HEAD is only looked at by serve_static
ServicePlain(routed, appBase, method, path) ==
    IF routed.kind = "servlet" THEN MappedPlaceholder
    ELSE ServeStatic(IF routed.kind = "context" THEN routed.base ELSE appBase, method, path)

\* the whole request path, context path included, is looked up below doc_base
Service(routed, appBase, method, path) ==
    IF routed.kind = "servlet"
    THEN IF method = "HEAD" THEN HeadOf(MappedPlaceholder) ELSE MappedPlaceholder
    ELSE ServeStatic(IF routed.kind = "context" THEN routed.base ELSE appBase, method, path)

(***************************************************************************)
(* http_date_now: the adapter's own calendar, days since the epoch.        *)
(***************************************************************************)
\* a slip: years begin in March
HttpDateNowMarch(days) ==
    LET z == days + 719468
        doe == z % 146097
        yoe == (doe - doe \div 1460 + doe \div 36524 - doe \div 146096) \div 365
        doy == doe - (365 * yoe + yoe \div 4 - yoe \div 100)
        mp == (5 * doy + 2) \div 153
    IN  [year |-> yoe + (z \div 146097) * 400, month |-> IF mp < 10 THEN mp + 3 ELSE mp - 9,
         day |-> doy - (153 * mp + 2) \div 5 + 1, dow |-> ((days % 7) + 4) % 7]

HttpDateNow(days) ==
    LET z == days + 719468
        doe == z % 146097
        yoe == (doe - doe \div 1460 + doe \div 36524 - doe \div 146096) \div 365
        doy == doe - (365 * yoe + yoe \div 4 - yoe \div 100)
        mp == (5 * doy + 2) \div 153
        month == IF mp < 10 THEN mp + 3 ELSE mp - 9
    IN  [year |-> yoe + (z \div 146097) * 400 + (IF month <= 2 THEN 1 ELSE 0),
         month |-> month, day |-> doy - (153 * mp + 2) \div 5 + 1,
         dow |-> ((days % 7) + 4) % 7]

(***************************************************************************)
(* StartupOrchestrator and initialize_servlets.  A wrapper is [name, class,*)
(* load], load a sequence of at most one number; blank names are "".       *)
(***************************************************************************)
FromLoadOnStartup(load) == IF load # <<>> /\ load[1] >= 0 THEN load ELSE <<>>
IsEager(w) == FromLoadOnStartup(w.load) # <<>>

\* a slip: of equal values the later declaration comes first
StartsBeforeLast(ws, i, j) ==
    ws[i].load[1] < ws[j].load[1] \/ (ws[i].load[1] = ws[j].load[1] /\ i > j)

StartsBefore(ws, i, j) ==
    ws[i].load[1] < ws[j].load[1] \/ (ws[i].load[1] = ws[j].load[1] /\ i < j)

\* indices of the eager servlets in the order of their initialisation
StartupOrder(ws) ==
    SetToSortSeq({i \in DOMAIN ws : IsEager(ws[i])}, LAMBDA i, j : StartsBefore(ws, i, j))

AllServletsLoadOrder(ws) ==
    StartupOrder(ws) \o SelectSeq([i \in DOMAIN ws |-> i], LAMBDA i : ~IsEager(ws[i]))

ValidateServlet(w) == w.name # "" /\ w.class # ""

\* critical is FALSE in every ServletInitConfig made here: no failure aborts
InitializeServlets(ws) ==
    FoldLeft(LAMBDA report, i :
        IF ~IsEager(ws[i]) THEN [report EXCEPT !.lazy = Append(@, i)]
        ELSE IF ValidateServlet(ws[i]) THEN [report EXCEPT !.initialized = Append(@, i)]
        ELSE [report EXCEPT !.failed = Append(@, i)],
        [initialized |-> <<>>, lazy |-> <<>>, failed |-> <<>>], AllServletsLoadOrder(ws))

(***************************************************************************)
(* Properties.                                                             *)
(***************************************************************************)
\* HEAD has the status of GET and, for every target that request normalisation
\* lets through (no parent segment), no body; other methods never get a file
\* (adapter.rs service, serve_static).
HeadMirrorsGet(routed, appBase, path) ==
    LET head == Service(routed, appBase, "HEAD", path)
        get == Service(routed, appBase, "GET", path)
    IN  /\ head.status = get.status
        /\ ".." \notin Range(path) => head.body = <<>>
        /\ routed.kind # "servlet" => Service(routed, appBase, "PUT", path).status = 405

\* Only the file the path names, or the index of the directory it names, is
\* sent; a parent segment is refused even where it would stay below the base,
\* and the answer does not depend on empty and "." segments (adapter.rs
\* resolve_under; the paths of a ROOT context are its own).
ServesNamedFile(base, path) ==
    LET got == Service([kind |-> "context", base |-> base], base, "GET", path)
        plain == SelectSeq(path, LAMBDA s : s \notin {"", "."})
    IN  /\ ".." \in Range(path) => got.status = 403
        /\ ".." \notin Range(path) =>
             /\ got = Service([kind |-> "none"], base, "GET", plain) \/ plain = <<>>
             /\ got.status = 200 /\ got.body # <<"landing">> =>
                   got.body[1] \in {plain, Append(plain, "index.html")} \cap base.files

\* The load-on-startup pass puts every servlet into exactly one list, goes on
\* after a failure, and initialises in the order of the values and, among equal
\* ones, of declaration; a negative value is lazy (startup.rs).
StartupComplete(ws) ==
    LET report == InitializeServlets(ws)
        all == report.initialized \o report.lazy \o report.failed
    IN  /\ Len(all) = Len(ws) /\ Range(all) = DOMAIN ws
        /\ \A i \in DOMAIN ws : i \in Range(report.lazy) <=>
              ~ \E n \in 0..9 : ws[i].load = <<n>>
        /\ \A list \in {report.initialized, report.failed} : \A m, n \in DOMAIN list :
              m < n => \/ ws[list[m]].load[1] < ws[list[n]].load[1]
                       \/ ws[list[m]].load = ws[list[n]].load /\ list[m] < list[n]
=============================================================================
