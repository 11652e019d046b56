------------------------------- MODULE Reload -------------------------------
(***************************************************************************)
(* The server from its start (main, serve_listeners_with_config_path) on:  *)
(* hot reloads (reload_gateway, crates/tracegate-proxy/src/admin.rs) run   *)
(* by several admin requests at once, the reading endpoints of the admin   *)
(* API, proxied requests that are routed by what is active, and edits of   *)
(* the configuration file.                                                 *)
(*                                                                         *)
(* What is active lives in two places.  current_config is behind a tokio   *)
(* RwLock, which serves its waiters in the order they came; gateway_state  *)
(* is an ArcSwap that anyone may load at any time.  A handler can be       *)
(* dropped only while it waits for the lock or for the store: nothing is   *)
(* awaited between taking the lock for writing and answering.  A reader    *)
(* holds the lock only to clone the configuration, which is one step.      *)
(* Config says which files are accepted, Routing what is built from them.  *)
(* The operators named Mutant... are plausible slips in the code, each     *)
(* caught by a property below.                                             *)
(***************************************************************************)
EXTENDS Config, FiniteSets

CONSTANTS
  Files,      \* contents of the configuration file, by name
  Parsed,     \* the raw configurations of those that parse
  Started,    \* the contents that the server is started with
  Saved,      \* the contents that someone saves while it runs
  MaxEdits,   \* bound on how often
  Component,  \* the imports of the plugin components on disk
  HasPath,    \* the server was started from a configuration file
  Reloads,    \* POST /admin/reload requests
  Views,      \* requests to the other endpoints of the admin API
  Bearers,    \* tokens they come with
  Proxied,    \* requests to the proxy
  Targets     \* their Host header and path

Handlers == Reloads \cup Views
NoFile == "none"

ASSUME ReloadAssumption ==
  /\ DOMAIN Parsed \cup Started \cup Saved \subseteq Files
  /\ NoFile \notin Files
  /\ MaxEdits \in Nat
  /\ Reloads \cap Views = {} /\ IsFiniteSet(Reloads)
  /\ HasPath \in BOOLEAN

ASSUME InputAssumption ==
  /\ \A f \in DOMAIN Parsed : Typed(Parsed[f])
  /\ \A target \in Targets : IsList(target.path)

\* load_config: the files that are accepted, and what is made of them.
Accepted == {f \in DOMAIN Parsed : Valid(Parsed[f])}
App == [f \in Accepted |-> AppConfig(Parsed[f])]

\* What validate_reload_immutables compares.
Immutable(app) ==
  <<app.mode, app.listen, app.admin_listen, app.server_tls, app.admin.token_env,
    app.admin.allow_internal_network, app.upstream_tls, app.storage>>

\* PolicyEngine::new: every component is there and may be instantiated.
PluginsLoad(f) ==
  \A plugin \in Members(App[f].plugins) :
    plugin.path \in DOMAIN Component /\ ComponentAccepted(Component[plugin.path])

\* What is active: a configuration and how many reloads led to it.
Generations == [number : Nat, config : Files \cup {NoFile}]
Generation(n, f) == [number |-> n, config |-> f]

LegacyEndpoints == {"live", "ready", "metrics"}
ApiEndpoints == {"overview", "requests", "routes", "plugins", "telemetry"}

VARIABLES
  file,      \* the configuration file
  edits,     \* how often it was saved
  server,    \* whether the server is up
  boot,      \* the configuration the server was started with
  gateway,   \* gateway_state
  current,   \* current_config
  writing,   \* the reload that holds the lock, as a set of at most one
  queue,     \* those waiting for the lock
  pc,        \* where each handler is
  bearer,    \* the token of each handler
  endpoint,  \* what it asks for
  loaded,    \* new_config of a reload
  view,      \* config and gateway_state as read by a view
  answer,    \* what the caller was told
  routed     \* what the proxied requests were given

active == <<boot, gateway, current>>
locals == <<bearer, endpoint, loaded, view, answer>>
vars == <<file, edits, server, active, writing, queue, pc, locals, routed>>

PCs == {"start", "auth", "load", "ask", "write", "commit", "read", "swap", "store", "end"}

NotRouted == [config |-> NoFile, target |-> {}, route |-> {}, runtime |-> {}, chain |-> <<>>]

Init ==
  /\ file \in Started /\ edits = 0
  /\ server = "down" /\ boot = NoFile
  /\ gateway = Generation(0, NoFile) /\ current = gateway
  /\ writing = {} /\ queue = <<>>
  /\ pc = [h \in Handlers |-> "start"]
  /\ bearer = [h \in Handlers |-> "none"]
  /\ endpoint = [v \in Views |-> "none"]
  /\ loaded = [r \in Reloads |-> NoFile]
  /\ view = [v \in Views |-> [config |-> current, gateway |-> gateway]]
  /\ answer = [h \in Handlers |-> "none"]
  /\ routed = [q \in Proxied |-> NotRouted]

\* Someone saves the file.
Edit ==
  /\ server = "up" /\ edits < MaxEdits
  /\ file' \in Saved \ {file} /\ edits' = edits + 1
  /\ UNCHANGED <<server, active, writing, queue, pc, locals, routed>>

-----------------------------------------------------------------------------
(* The server *)

\* tracegate serve: the file is loaded, the state is built, and the listeners
\* are served from then on.
Serve ==
  /\ server = "down" /\ file \in Accepted /\ PluginsLoad(file)
  /\ server' = "up" /\ boot' = file
  /\ gateway' = Generation(0, file) /\ current' = gateway'
  /\ UNCHANGED <<file, edits, writing, queue, pc, locals, routed>>

\* The process ends instead: the file is refused, a plugin does not load, or a
\* listener, the store or the certificate fails.
Exit ==
  /\ server = "down"
  /\ server' = "exited"
  /\ UNCHANGED <<file, edits, active, writing, queue, pc, locals, routed>>

\* handle: one load of gateway_state; the route, its runtime and the chain of
\* plugins all come from there.
Route(q) ==
  /\ server = "up" /\ routed[q] = NotRouted
  /\ \E target \in Targets :
       LET app == App[gateway.config]
           route == MatchRoute(app.routes, target.host, target.path)
       IN  routed' = [routed EXCEPT ![q] =
             [config |-> gateway.config, target |-> {target}, route |-> route,
              runtime |-> {RouteRuntime(app.routes)[app.routes[i].id] : i \in route},
              chain |-> IF route = {} THEN <<>>
                        ELSE RoutePlugins(app.plugins, app.routes[TheOne(route)].id)]]
  /\ UNCHANGED <<file, edits, server, active, writing, queue, pc, locals>>

Goto(h, label) == pc' = [pc EXCEPT ![h] = label]
Answer(h, a) == Goto(h, "end") /\ answer' = [answer EXCEPT ![h] = a]

-----------------------------------------------------------------------------
(* The lock *)

Wait(h) == queue' = Append(queue, h)

\* A handler asks for the lock a second time, as a writer or as a reader; other
\* threads run between what it did before and this.
Ask(h) ==
  /\ pc[h] = "ask"
  /\ Goto(h, IF h \in Reloads THEN "write" ELSE "read") /\ Wait(h)
  /\ UNCHANGED <<file, edits, server, active, writing, locals, routed>>

\* h is served: nobody came before it and no reload holds the lock.
Granted(h) == writing = {} /\ queue # <<>> /\ Head(queue) = h /\ queue' = Tail(queue)

\* h no longer waits: those behind it move up.
Leave(h) ==
  \/ (\A i \in DOMAIN queue : queue[i] # h) /\ UNCHANGED queue
  \/ \E i \in DOMAIN queue :
       /\ queue[i] = h
       /\ queue' = [j \in 1 .. Len(queue) - 1 |-> queue[IF j < i THEN j ELSE j + 1]]

\* The connection of a handler that waits goes away.
MutantDrop(h) ==
  /\ pc[h] \in {"auth", "write", "commit", "read", "store"}
  /\ Leave(h)
  /\ writing' = writing \ {h}
  /\ current' = IF pc[h] = "commit" THEN gateway ELSE current
  /\ Answer(h, "dropped")
  /\ UNCHANGED <<file, edits, server, boot, gateway, bearer, endpoint, loaded, view, routed>>
Drop(h) ==
  /\ pc[h] \in {"auth", "write", "read", "store"}
  /\ Leave(h)
  /\ Answer(h, "dropped")
  /\ UNCHANGED <<file, edits, server, active, writing, bearer, endpoint, loaded, view, routed>>

-----------------------------------------------------------------------------
(* admin_config, legacy_authorized and api_authorized *)

Arrive(h) ==
  /\ server = "up" /\ pc[h] = "start"
  /\ Goto(h, "auth") /\ Wait(h)
  /\ \E b \in Bearers : bearer' = [bearer EXCEPT ![h] = b]
  /\ IF h \in Views
     THEN \E e \in LegacyEndpoints \cup ApiEndpoints : endpoint' = [endpoint EXCEPT ![h] = e]
     ELSE UNCHANGED endpoint
  /\ UNCHANGED <<file, edits, server, active, writing, loaded, view, answer, routed>>

\* Without a token the older endpoints are open, reload and the API are closed.
MutantAuthorized(h) ==
  LET token == App[current.config].admin.token
  IN  token = {} \/ bearer[h] \in token
Authorized(h) ==
  LET token == App[current.config].admin.token
  IN  \/ bearer[h] \in token
      \/ token = {} /\ h \in Views /\ endpoint[h] \in LegacyEndpoints

Unauthorized(h) ==
  /\ pc[h] = "auth" /\ ~Authorized(h)
  /\ Granted(h)
  /\ Answer(h, "unauthorized")
  /\ UNCHANGED <<file, edits, server, active, writing, bearer, endpoint, loaded, view, routed>>

-----------------------------------------------------------------------------
(* reload_gateway *)

BeginReload(r) ==
  /\ pc[r] = "auth" /\ Authorized(r)
  /\ Granted(r)
  /\ IF HasPath THEN Goto(r, "load") /\ UNCHANGED answer ELSE Answer(r, "rejected")
  /\ UNCHANGED <<file, edits, server, active, writing, bearer, endpoint, loaded, view, routed>>

\* The file is read before the lock is taken.
LoadConfig(r) ==
  /\ pc[r] = "load"
  /\ IF file \in Accepted
     THEN /\ loaded' = [loaded EXCEPT ![r] = file]
          /\ Goto(r, "ask")
          /\ UNCHANGED answer
     ELSE Answer(r, "rejected") /\ UNCHANGED loaded
  /\ UNCHANGED <<file, edits, server, active, writing, queue, bearer, endpoint, view, routed>>

\* validate_reload_immutables against the configuration active by now
MutantImmutablesKept(r) == App[loaded[r]].mode = App[current.config].mode
ImmutablesKept(r) == Immutable(App[loaded[r]]) = Immutable(App[current.config])

\* Rejected under the lock: an immutable setting differs, or GatewayState::new
\* fails, which may happen to any file (a component is no longer readable).
Reject(r) ==
  /\ pc[r] = "write"
  /\ Granted(r)
  /\ Answer(r, "rejected")
  /\ UNCHANGED <<file, edits, server, active, writing, bearer, endpoint, loaded, view, routed>>

\* Accepted: the new state is built and stored; proxied requests see it now.
Store(r) ==
  /\ pc[r] = "write" /\ ImmutablesKept(r) /\ PluginsLoad(loaded[r])
  /\ Granted(r)
  /\ writing' = {r}
  /\ gateway' = Generation(gateway.number + 1, loaded[r])
  /\ Goto(r, "commit")
  /\ UNCHANGED <<file, edits, server, boot, current, locals, routed>>

\* The configuration follows, and the lock is released with the answer.
MutantCommit(r) ==
  /\ pc[r] = "commit"
  /\ current' = gateway
  /\ Answer(r, "reloaded")
  /\ UNCHANGED <<file, edits, server, boot, gateway, writing, queue, bearer, endpoint, loaded, view, routed>>
MutantForget(r) ==
  /\ pc[r] = "commit"
  /\ writing' = {}
  /\ Answer(r, "reloaded")
  /\ UNCHANGED <<file, edits, server, active, queue, bearer, endpoint, loaded, view, routed>>
Commit(r) ==
  /\ pc[r] = "commit"
  /\ current' = gateway
  /\ writing' = {}
  /\ Answer(r, "reloaded")
  /\ UNCHANGED <<file, edits, server, boot, gateway, queue, bearer, endpoint, loaded, view, routed>>

-----------------------------------------------------------------------------
(* The reading endpoints *)

\* Some read the configuration next, some query the store; metrics depends on
\* the telemetry of the start, whatever was reloaded since.
BeginView(v) ==
  /\ pc[v] = "auth" /\ Authorized(v)
  /\ Granted(v)
  /\ \/ endpoint[v] \in {"overview", "routes", "plugins"} /\ Goto(v, "ask") /\ UNCHANGED answer
     \/ endpoint[v] \in {"ready", "requests", "telemetry"} /\ Goto(v, "store") /\ UNCHANGED answer
     \/ endpoint[v] = "live" /\ Answer(v, "ok")
     \/ /\ endpoint[v] = "metrics"
        /\ \E a \in IF App[boot].prometheus_enabled THEN {"ok", "failed"} ELSE {"disabled"} :
             Answer(v, a)
  /\ UNCHANGED <<file, edits, server, active, writing, bearer, endpoint, loaded, view, routed>>

ReadConfig(v) ==
  /\ pc[v] = "read"
  /\ Granted(v)
  /\ view' = [view EXCEPT ![v] = [config |-> current, gateway |-> @.gateway]]
  /\ \/ endpoint[v] = "routes" /\ Goto(v, "swap") /\ UNCHANGED answer
     \/ endpoint[v] = "overview" /\ Goto(v, "store") /\ UNCHANGED answer
     \/ endpoint[v] = "plugins" /\ Answer(v, "ok")
  /\ UNCHANGED <<file, edits, server, active, writing, bearer, endpoint, loaded, routed>>

\* api_routes: gateway_state.load_full() after the lock was released
MutantStateLoaded(v) == view[v].gateway
StateLoaded(v) == gateway

LoadState(v) ==
  /\ pc[v] = "swap"
  /\ view' = [view EXCEPT ![v] = [config |-> @.config, gateway |-> StateLoaded(v)]]
  /\ Answer(v, "ok")
  /\ UNCHANGED <<file, edits, server, active, writing, queue, bearer, endpoint, loaded, routed>>

\* The store answers or fails; overview and telemetry report its failure.
StoreAnswers(v) ==
  /\ pc[v] = "store"
  /\ \/ Answer(v, "ok")
     \/ endpoint[v] = "ready" /\ Answer(v, "unavailable")
     \/ endpoint[v] = "requests" /\ \E a \in {"missing", "failed"} : Answer(v, a)
  /\ UNCHANGED <<file, edits, server, active, writing, queue, bearer, endpoint, loaded, view, routed>>

-----------------------------------------------------------------------------
ReloadStep(r) == BeginReload(r) \/ LoadConfig(r) \/ Reject(r) \/ Store(r) \/ Commit(r)
ViewStep(v) == BeginView(v) \/ ReadConfig(v) \/ LoadState(v) \/ StoreAnswers(v)
Step(h) ==
  \/ Unauthorized(h) \/ Ask(h)
  \/ h \in Reloads /\ ReloadStep(h)
  \/ h \in Views /\ ViewStep(h)

Next ==
  \/ Edit \/ Serve \/ Exit
  \/ \E q \in Proxied : Route(q)
  \/ \E h \in Handlers : Arrive(h) \/ Drop(h) \/ Step(h)

Spec == Init /\ [][Next]_vars

\* The runtime keeps polling handlers that can go on, and the store answers.
FairSpec == Spec /\ \A h \in Handlers : WF_vars(Step(h))

-----------------------------------------------------------------------------
(* Properties *)

\* Type invariant.
Answers == {"none", "dropped", "unauthorized", "rejected", "reloaded", "ok", "failed", "disabled",
            "unavailable", "missing"}
TypeOK ==
  /\ server \in {"down", "up", "exited"} /\ boot \in Files \cup {NoFile}
  /\ gateway \in Generations /\ current \in Generations
  /\ writing \subseteq Reloads
  /\ pc \in [Handlers -> PCs]
  /\ bearer \in [Handlers -> Bearers \cup {"none"}]
  /\ endpoint \in [Views -> LegacyEndpoints \cup ApiEndpoints \cup {"none"}]
  /\ loaded \in [Reloads -> Files \cup {NoFile}]
  /\ view \in [Views -> [config : Generations, gateway : Generations]]
  /\ answer \in [Handlers -> Answers]

\* What the other modules assume of a configuration: every route has upstreams,
\* a permit and a failure threshold, every plugin fuel, the store a horizon and
\* a budget with room for one capture, and the queue a place; and in production
\* the admin API has a token and the listener a certificate.
Usable(app) ==
  /\ \A route \in Members(app.routes) :
       /\ Len(route.upstreams) >= 1 /\ route.concurrency_limit >= 1
       /\ route.passive_health_failures >= 1 /\ route.passive_health_cooldown_ms >= 1
       /\ route.capture_response_body_bytes <= app.storage.max_total_capture_bytes
  /\ \A plugin \in Members(app.plugins) : plugin.fuel >= 1 /\ plugin.timeout_ms >= 1
  /\ app.storage.retention_days >= 1 /\ app.storage.capture_queue_capacity >= 1
  /\ 1 <= app.storage.max_capture_bytes_per_request
  /\ app.mode = "production" => app.admin.token # {} /\ app.server_tls.cert_path # {}

\* PLAN.md:523, "validation before activation": what is active was accepted by
\* load_config, its plugins loaded, and it agrees with what the server was
\* started with on the settings that its listeners, its admin access and its
\* store were built from.  So it stays after any chain of reloads, each
\* validated against the one before.
ActiveIsSound ==
  server = "up" =>
    \A g \in {gateway, current} :
      /\ g.config \in Accepted /\ PluginsLoad(g.config) /\ Usable(App[g.config])
      /\ Immutable(App[g.config]) = Immutable(App[boot])

\* The two copies of what is active differ only inside a reload, and no two
\* reloads are inside at once: when none holds the lock the configuration shown
\* to an operator is the one that requests are routed by, also after reloads
\* that were rejected or dropped.
CopiesAgree ==
  LET inside == {r \in Reloads : pc[r] = "commit"}
  IN  /\ inside \subseteq writing /\ Cardinality(inside) <= 1
      /\ inside = {} => current = gateway
      /\ inside # {} => gateway.number = current.number + 1

\* api_routes may pair a configuration with the runtime of a later reload, but
\* never with that of an earlier one.
ViewNotOlder ==
  \A v \in Views :
    endpoint[v] = "routes" /\ answer[v] = "ok" => view[v].config.number <= view[v].gateway.number

\* The generations are counted by the callers that were told "reloaded": a
\* reload that was rejected, was not authorized or was dropped left no trace.
AnswersTruthful ==
  gateway.number = Cardinality({r \in Reloads : answer[r] = "reloaded"} \cup writing)

\* Whatever was reloaded in between, only a caller with the token the server was
\* started with gets an answer from the API or a reload; where there was no
\* token, only the health and metrics endpoints answer.
AdminGuarded ==
  \A h \in Handlers :
    answer[h] \notin {"none", "unauthorized", "dropped"} =>
      \/ bearer[h] \in App[boot].admin.token
      \/ App[boot].admin.token = {} /\ h \in Views /\ endpoint[h] \in LegacyEndpoints

\* PLAN.md:156, host-aware longest-prefix match: a request gets a route whose
\* host and whole path segments fit, all other fitting routes have a prefix of
\* its prefix, the first of equal ones wins, and only a request that fits
\* nowhere gets none.  The runtime found by the route's id, with its permits and
\* health, is the one built from that very route.
Fitting(app, target) ==
  {i \in DOMAIN app.routes :
     /\ \/ "*" \in Members(app.routes[i].hosts)
        \/ \E h \in target.host, c \in Members(app.routes[i].hosts) : InLower(c) = InLower(h.name)
     /\ Within(target.path, app.routes[i].path_prefix)}

RoutedRight ==
  \A q \in Proxied : \A target \in routed[q].target :
    LET app == App[routed[q].config]
        fitting == Fitting(app, target)
    IN  /\ routed[q].route = {} <=> fitting = {}
        /\ \A i \in routed[q].route :
             /\ i \in fitting /\ routed[q].runtime = {i}
             /\ \A j \in fitting :
                  /\ StartsWith(app.routes[i].path_prefix, app.routes[j].path_prefix)
                  /\ app.routes[j].path_prefix = app.routes[i].path_prefix => i <= j

\* The plugins run for a request are those that name its route in the
\* configuration of the same generation, each once and in the order of the file.
ChainExact ==
  \A q \in Proxied : \A i \in routed[q].route :
    LET app == App[routed[q].config]
        chain == routed[q].chain
    IN  /\ Members(chain) = {n \in DOMAIN app.plugins :
                               app.routes[i].id \in Members(app.plugins[n].routes)}
        /\ \A k \in 1 .. Len(chain) - 1 : chain[k] < chain[k + 1]

\* Every admin request is answered: no reload and no rejection keeps the lock.
RequestsAnswered == \A h \in Handlers : pc[h] = "auth" ~> pc[h] = "end"
=============================================================================
