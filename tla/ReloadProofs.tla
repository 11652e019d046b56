---------------------------- MODULE ReloadProofs ----------------------------
(***************************************************************************)
(* Proofs about Config, Routing and Reload.  For any raw configuration     *)
(* that has the types of RawConfig and any Host header and path: what is   *)
(* accepted is usable, the router finds the route that it should, and the  *)
(* chain of a route has the plugins that it should.  Then, for any set of  *)
(* configuration files, any number of admin requests and any edits of the  *)
(* file: what is active, answered and routed, and that the lock is handed  *)
(* on in order and to somebody who can use it.                             *)
(***************************************************************************)
EXTENDS Reload, FiniteSetTheorems, DataLemmas, TLAPS

-----------------------------------------------------------------------------
(* What is accepted, and what the router makes of it *)

\* An optional limit is a number, and so is what takes its place.
LEMMA LimitKept ==
  ASSUME NEW option, NEW default \in Nat, option \subseteq Nat
  PROVE  OrDefault(option, default) \in Nat
BY Zenon DEF OrDefault, TheOne

\* The limits of the store are numbers.
LEMMA StorageLimits ==
  ASSUME NEW raw, Typed(raw)
  PROVE  /\ Storage(raw).max_total_capture_bytes \in Nat
         /\ Storage(raw).max_capture_bytes_per_request \in Nat
<1>1. {"max_total_capture_bytes", "max_capture_bytes_per_request"} \subseteq Limits
  BY SMT DEF DefaultStorage, Limits
<1>2. \A limit \in {"max_total_capture_bytes", "max_capture_bytes_per_request"} :
        DefaultStorage[limit] \in Nat /\ raw.storage[limit] \subseteq Nat
  BY <1>1, SMT DEF Typed, DefaultStorage
<1>3. \A limit \in {"max_total_capture_bytes", "max_capture_bytes_per_request"} :
        OrDefault(raw.storage[limit], DefaultStorage[limit]) \in Nat
  BY <1>2, LimitKept
<1> QED
  BY <1>3, SMT DEF Storage

\* A route that was accepted has what the gateway needs.
LEMMA RouteUsable ==
  ASSUME NEW raw, Typed(raw), StorageOK(raw), NEW route \in Members(raw.routes), RouteOK(raw, route)
  PROVE  /\ Len(route.upstreams) >= 1 /\ route.concurrency_limit >= 1
         /\ route.passive_health_failures >= 1 /\ route.passive_health_cooldown_ms >= 1
         /\ route.capture_response_body_bytes <= Storage(raw).max_total_capture_bytes
<1>1. IsList(route.upstreams) /\ route.capture_response_body_bytes \in Nat
  BY Zenon DEF Typed
<1>2. route.upstreams # <<>>
  BY SMT DEF RouteOK
<1>3. Len(route.upstreams) >= 1
  BY <1>1, <1>2, SMT DEF IsList
<1>4. route.concurrency_limit >= 1 /\ route.passive_health_failures >= 1
      /\ route.passive_health_cooldown_ms >= 1
  BY SMT DEF RouteOK, Between
<1>5. /\ route.capture_response_body_bytes <= Storage(raw).max_capture_bytes_per_request
      /\ Storage(raw).max_capture_bytes_per_request <= Storage(raw).max_total_capture_bytes
  BY SMT DEF RouteOK, CaptureOK, StorageOK
<1>6. route.capture_response_body_bytes <= Storage(raw).max_total_capture_bytes
  BY <1>1, <1>5, StorageLimits, SMT
<1> QED
  BY <1>3, <1>4, <1>6, Zenon

\* Every configuration that is accepted is usable.
LEMMA AcceptedUsable ==
  ASSUME NEW raw, Typed(raw), Valid(raw)
  PROVE  Usable(AppConfig(raw))
<1> DEFINE app == AppConfig(raw)
<1>0. /\ TlsOK(raw) /\ AdminOK(raw) /\ StorageOK(raw) /\ RoutesOK(raw) /\ PluginsOK(raw)
  BY Zenon DEF Valid
<1>1. ASSUME NEW route \in Members(app.routes)
      PROVE  /\ Len(route.upstreams) >= 1 /\ route.concurrency_limit >= 1
             /\ route.passive_health_failures >= 1 /\ route.passive_health_cooldown_ms >= 1
             /\ route.capture_response_body_bytes <= app.storage.max_total_capture_bytes
  <2>1. PICK i \in DOMAIN raw.routes :
          route = [raw.routes[i] EXCEPT !.capture_policy = Keyword(@)]
    <3>1. app.routes = [i \in DOMAIN raw.routes |->
                          [raw.routes[i] EXCEPT !.capture_policy = Keyword(@)]]
      BY SMT DEF AppConfig
    <3> HIDE DEF app
    <3> QED
      BY <3>1 DEF Members
  <2>2. raw.routes[i] \in Members(raw.routes)
    BY DEF Members
  <2>3. RouteOK(raw, raw.routes[i])
    BY <1>0, <2>2, Zenon DEF RoutesOK
  <2>4. {"id", "hosts", "path_prefix", "upstreams", "concurrency_limit", "passive_health_failures",
         "passive_health_cooldown_ms", "capture_response_body_bytes"} \subseteq DOMAIN raw.routes[i]
    BY <2>2, Zenon DEF Typed
  <2>5. /\ route.upstreams = raw.routes[i].upstreams
        /\ route.concurrency_limit = raw.routes[i].concurrency_limit
        /\ route.passive_health_failures = raw.routes[i].passive_health_failures
        /\ route.passive_health_cooldown_ms = raw.routes[i].passive_health_cooldown_ms
        /\ route.capture_response_body_bytes = raw.routes[i].capture_response_body_bytes
    BY <2>1, <2>4, SMT
  <2>6. app.storage = Storage(raw)
    BY SMT DEF AppConfig
  <2> QED
    BY <1>0, <2>2, <2>3, <2>5, <2>6, RouteUsable, Zenon
<1>2. ASSUME NEW plugin \in Members(app.plugins)
      PROVE  plugin.fuel >= 1 /\ plugin.timeout_ms >= 1
  <2>1. PICK i \in DOMAIN raw.plugins : plugin = Plugin(raw.plugins[i])
    <3>1. app.plugins = [i \in DOMAIN raw.plugins |-> Plugin(raw.plugins[i])]
      BY SMT DEF AppConfig
    <3> HIDE DEF app
    <3> QED
      BY <3>1 DEF Members
  <2>2. raw.plugins[i] \in Members(raw.plugins)
    BY DEF Members
  <2>3. PluginOK(raw, raw.plugins[i])
    BY <1>0, <2>2, Zenon DEF PluginsOK
  <2>4. raw.plugins[i].fuel \subseteq Nat
    BY <2>2, SMT DEF Typed, DefaultPlugin
  <2>5. DefaultPlugin["fuel"] \in Nat
    BY SMT DEF DefaultPlugin
  <2>6. OrDefault(raw.plugins[i]["fuel"], DefaultPlugin["fuel"]) \in Nat
    BY <2>4, <2>5, LimitKept
  <2>7. plugin.fuel \in Nat
    BY <2>1, <2>6, SMT DEF Plugin
  <2>8. plugin.fuel > 0 /\ plugin.timeout_ms >= 1
    BY <2>1, <2>3, SMT DEF PluginOK, Between
  <2> QED
    BY <2>7, <2>8, SMT
<1>3. /\ app.storage.retention_days >= 1 /\ app.storage.capture_queue_capacity >= 1
      /\ 1 <= app.storage.max_capture_bytes_per_request
  <2>1. app.storage = Storage(raw)
    BY SMT DEF AppConfig
  <2>2. /\ 1 <= Storage(raw).retention_days /\ 1 <= Storage(raw).capture_queue_capacity
        /\ Storage(raw).max_capture_bytes_per_request > 0
    BY <1>0, SMT DEF StorageOK, Between
  <2> QED
    BY <2>1, <2>2, StorageLimits, SMT
<1>4. ASSUME app.mode = "production"
      PROVE  app.admin.token # {} /\ app.server_tls.cert_path # {}
  <2>1. Production(raw)
    BY <1>4, SMT DEF AppConfig, Production
  <2>2. Token(raw) # {} /\ NonBlank(raw.server.tls.cert_path) # {}
    BY <1>0, <2>1, SMT DEF AdminOK, TlsOK
  <2> QED
    BY <2>2, SMT DEF AppConfig
<1> HIDE DEF app
<1>5. Usable(app)
  BY <1>1, <1>2, <1>3, <1>4, Zenon DEF Usable
<1> QED
  BY <1>5 DEF app

-----------------------------------------------------------------------------
(* What the router relies on *)

\* The lists of routes that a request may be matched against.
GoodRoutes(routes) ==
  /\ DOMAIN routes \subseteq Nat
  /\ Unique(routes)
  /\ \A i \in DOMAIN routes :
       /\ IsList(routes[i].path_prefix) /\ PrefixOK(routes[i].path_prefix)
       /\ \A c \in Members(routes[i].hosts) : c # NoName

\* The routes of every configuration that is accepted are such a list.
LEMMA AcceptedRoutes ==
  ASSUME NEW raw, Typed(raw), Valid(raw)
  PROVE  GoodRoutes(AppConfig(raw).routes)
<1> DEFINE routes == AppConfig(raw).routes
<1>0. RoutesOK(raw)
  BY Zenon DEF Valid
<1>1. routes = [i \in DOMAIN raw.routes |-> [raw.routes[i] EXCEPT !.capture_policy = Keyword(@)]]
  BY SMT DEF AppConfig
<1> HIDE DEF routes
<1>2. DOMAIN routes = DOMAIN raw.routes
  BY <1>1
<1>3. ASSUME NEW i \in DOMAIN raw.routes
      PROVE  /\ IsList(raw.routes[i].path_prefix) /\ RouteOK(raw, raw.routes[i])
             /\ routes[i].id = raw.routes[i].id
             /\ routes[i].hosts = raw.routes[i].hosts
             /\ routes[i].path_prefix = raw.routes[i].path_prefix
  <2>1. raw.routes[i] \in Members(raw.routes)
    BY DEF Members
  <2>2. RouteOK(raw, raw.routes[i])
    BY <1>0, <2>1, Zenon DEF RoutesOK
  <2>3. IsList(raw.routes[i].path_prefix)
    BY <2>1, Zenon DEF Typed
  <2>4. {"id", "hosts", "path_prefix", "upstreams", "concurrency_limit", "passive_health_failures",
         "passive_health_cooldown_ms", "capture_response_body_bytes"} \subseteq DOMAIN raw.routes[i]
    BY <2>1, Zenon DEF Typed
  <2>5. routes[i] = [raw.routes[i] EXCEPT !.capture_policy = Keyword(@)]
    BY <1>1
  <2>6. /\ routes[i].id = raw.routes[i].id
        /\ routes[i].hosts = raw.routes[i].hosts
        /\ routes[i].path_prefix = raw.routes[i].path_prefix
    BY <2>4, <2>5, SMT
  <2> QED
    BY <2>2, <2>3, <2>6
<1>4. DOMAIN routes \subseteq Nat
  <2>1. raw.routes \in Seq(Members(raw.routes))
    BY Zenon DEF Typed, IsList
  <2> QED
    BY <1>2, <2>1
<1>5. Unique(routes)
  <2>1. Unique(raw.routes)
    BY <1>0, Zenon DEF RoutesOK
  <2> QED
    BY <1>2, <1>3, <2>1 DEF Unique
<1>6. ASSUME NEW i \in DOMAIN routes
      PROVE  /\ IsList(routes[i].path_prefix) /\ PrefixOK(routes[i].path_prefix)
             /\ \A c \in Members(routes[i].hosts) : c # NoName
  <2>1. PrefixOK(raw.routes[i].path_prefix) /\ HostsOK(raw.routes[i].hosts)
    BY <1>2, <1>3, SMT DEF RouteOK
  <2>2. \A c \in Members(raw.routes[i].hosts) : ~IsBlank(c)
    BY <2>1, Zenon DEF HostsOK
  <2>3. \A c \in Members(raw.routes[i].hosts) : c # NoName
    BY <2>2, TrimmedAssumption DEF IsBlank, Trim
  <2> QED
    BY <1>2, <1>3, <2>1, <2>3
<1>7. GoodRoutes(routes)
  BY <1>4, <1>5, <1>6 DEF GoodRoutes
<1> QED
  BY <1>7 DEF routes
-----------------------------------------------------------------------------
(* The router against its reference *)

\* path_matches takes whole segments: it agrees with the segments of the path.
LEMMA PathsFit ==
  ASSUME NEW path, IsList(path), NEW prefix, IsList(prefix), PrefixOK(prefix)
  PROVE  PathMatches(prefix, path) <=> Within(path, prefix)
<1> DEFINE ends == {i \in DOMAIN path : i = Len(path) \/ path[i + 1] = Slash}
<1>1. path \in Seq(Members(path)) /\ prefix \in Seq(Members(prefix)) /\ prefix # <<>>
  BY DEF IsList, PrefixOK
<1>2. Len(path) \in Nat /\ DOMAIN path = 1 .. Len(path) /\ Len(prefix) \in Nat /\ Len(prefix) # 0
      /\ DOMAIN prefix = 1 .. Len(prefix)
  BY <1>1
<1>3. \A i \in DOMAIN path : /\ Len(SubSeq(path, 1, i)) = i
                             /\ \A k \in 1 .. i : SubSeq(path, 1, i)[k] = path[k]
                             /\ SubSeq(path, 1, i) \in Seq(Members(path))
  BY <1>1, <1>2
<1>4. ASSUME path = prefix PROVE prefix \in Segments(path)
  <2>1. Len(path) \in ends
    BY <1>2, <1>4
  <2>2. SubSeq(path, 1, Len(path)) = path
    BY <1>1
  <2> QED
    BY <1>4, <2>1, <2>2 DEF Segments
<1>5. ASSUME StartsWith(path, prefix), Len(prefix) < Len(path), path[Len(prefix) + 1] = Slash
      PROVE  prefix \in Segments(path)
  <2>1. Len(prefix) \in ends
    <3>1. Len(prefix) \in 1 .. Len(path)
      BY <1>2, <1>5
    <3>2. Len(prefix) \in DOMAIN path
      BY <1>2, <3>1
    <3> QED
      BY <1>5, <3>2
  <2>2. SubSeq(path, 1, Len(prefix)) = prefix
    <3> DEFINE part == SubSeq(path, 1, Len(prefix))
    <3>1. part \in Seq(Members(path)) /\ Len(part) = Len(prefix)
      BY <1>2, <1>3, <2>1, Zenon
    <3>2. \A k \in 1 .. Len(prefix) : part[k] = prefix[k]
      BY <1>2, <1>3, <1>5, <2>1, Zenon DEF StartsWith
    <3> HIDE DEF part
    <3>3. part = prefix
      BY <1>1, <3>1, <3>2
    <3> QED
      BY <3>3 DEF part
  <2> QED
    BY <2>1, <2>2 DEF Segments
<1>6. ASSUME prefix \in Segments(path) PROVE PathMatches(prefix, path)
  <2>1. PICK i \in ends : prefix = SubSeq(path, 1, i)
    BY <1>6 DEF Segments
  <2>2. Len(prefix) = i /\ \A k \in 1 .. i : prefix[k] = path[k]
    BY <1>3, <2>1
  <2>3. CASE i = Len(path)
    <3>1. SubSeq(path, 1, Len(path)) = path
      BY <1>1
    <3> QED
      BY <2>1, <2>3, <3>1 DEF PathMatches
  <2>4. CASE i # Len(path)
    BY <1>2, <2>1, <2>2, <2>4 DEF PathMatches, StartsWith
  <2> QED
    BY <2>3, <2>4
<1> QED
  BY <1>4, <1>5, <1>6 DEF PathMatches, Within

\* Lower case twice is lower case once, and a name never becomes an empty one.
LEMMA LowerTwice ==
  ASSUME NEW name
  PROVE  /\ InLower(InLower(name)) = InLower(name)
         /\ InLower(name) = NoName => name = NoName
         /\ InLower(NoName) = NoName
BY LowerAssumption DEF InLower

\* host_matches compares the name without its port, whatever its case.
LEMMA HostsFit ==
  ASSUME NEW route, \A c \in Members(route.hosts) : c # NoName, NEW header
  PROVE  HostMatches(route, NormalizeHost(header)) <=>
           \/ "*" \in Members(route.hosts)
           \/ \E h \in header, c \in Members(route.hosts) : InLower(c) = InLower(h.name)
<1>1. ASSUME NEW c \in Members(route.hosts), NEW h \in NormalizeHost(header), InLower(c) = InLower(h)
      PROVE  \E x \in header : InLower(c) = InLower(x.name)
  <2>1. PICK x \in header : h = InLower(x.name)
    BY <1>1 DEF NormalizeHost
  <2> QED
    BY <1>1, <2>1, LowerTwice
<1>2. ASSUME NEW c \in Members(route.hosts), NEW x \in header, InLower(c) = InLower(x.name)
      PROVE  \E h \in NormalizeHost(header) : InLower(c) = InLower(h)
  <2>1. x.name # NoName
    BY <1>2, LowerTwice
  <2>2. InLower(x.name) \in NormalizeHost(header)
    BY <2>1 DEF NormalizeHost
  <2> QED
    BY <1>2, <2>2, LowerTwice
<1> HIDE DEF Members, NormalizeHost, InLower
<1> QED
  BY <1>1, <1>2 DEF HostMatches

\* So the candidates of match_route are the routes that fit.
LEMMA CandidatesFit ==
  ASSUME NEW app, GoodRoutes(app.routes), NEW target, IsList(target.path)
  PROVE  Candidates(app.routes, target.host, target.path) = Fitting(app, target)
<1>1. ASSUME NEW i \in DOMAIN app.routes
      PROVE  /\ HostMatches(app.routes[i], NormalizeHost(target.host)) <=>
                  \/ "*" \in Members(app.routes[i].hosts)
                  \/ \E h \in target.host, c \in Members(app.routes[i].hosts) : InLower(c) = InLower(h.name)
             /\ PathMatches(app.routes[i].path_prefix, target.path) <=>
                  Within(target.path, app.routes[i].path_prefix)
  BY HostsFit, PathsFit DEF GoodRoutes
<1> QED
  BY <1>1 DEF Candidates, Fitting
\* What max_by needs: one candidate beats all others, so match_route finds
\* exactly one route whenever there is a candidate.
LEMMA OneMatches ==
  ASSUME NEW routes, GoodRoutes(routes), NEW header, NEW path, IsList(path),
         Candidates(routes, header, path) # {}
  PROVE  \E i \in Candidates(routes, header, path) :
           /\ MatchRoute(routes, header, path) = {i}
           /\ \A j \in Candidates(routes, header, path) \ {i} : Beats(routes, i, j)
<1> DEFINE found == Candidates(routes, header, path)
           size(i) == Len(routes[i].path_prefix)
<1>1. \A i \in found : i \in Nat /\ i \in DOMAIN routes /\ PathMatches(routes[i].path_prefix, path)
  BY DEF Candidates, GoodRoutes
<1>2. \A i \in found : IsList(routes[i].path_prefix) /\ PrefixOK(routes[i].path_prefix)
  BY <1>1 DEF GoodRoutes
<1>3. Len(path) \in Nat
  BY DEF IsList
<1>4. ASSUME NEW i \in found PROVE size(i) \in Nat /\ Len(path) + 1 - size(i) \in Nat
  <2>1. size(i) \in Nat
    BY <1>2 DEF IsList
  <2>2. size(i) <= Len(path) + 1
    <3>1. CASE routes[i].path_prefix = Root
      BY <1>3, <3>1 DEF Root
    <3>2. CASE routes[i].path_prefix # Root
      BY <1>1, <1>3, <2>1, <3>2 DEF PathMatches, StartsWith
    <3> QED
      BY <3>1, <3>2
  <2> QED
    BY <1>3, <2>1, <2>2
<1> HIDE DEF found, size
<1> DEFINE rest == {Len(path) + 1 - size(i) : i \in found}
<1>5. rest \subseteq Nat /\ rest # {}
  BY <1>4 DEF found
<1>6. PICK i0 \in found : \A j \in found : Len(path) + 1 - size(i0) <= Len(path) + 1 - size(j)
  <2>1. PICK x \in rest : \A y \in rest : x <= y
    BY <1>5, Smallest, Zenon
  <2> QED
    BY <2>1
<1>7. \A j \in found : size(j) <= size(i0)
  BY <1>3, <1>4, <1>6
<1> DEFINE longest == {i \in found : size(i) = size(i0)}
<1>8. PICK i \in longest : \A j \in longest : i <= j
  <2>1. longest \subseteq Nat /\ longest # {}
    BY <1>1
  <2> QED
    BY <2>1, Smallest, Zenon
<1>9. i \in found
  BY <1>8
<1>10. ASSUME NEW j \in found, j # i PROVE Beats(routes, i, j) /\ ~Beats(routes, j, i)
  <2>1. size(i) = size(i0) /\ size(j) <= size(i0) /\ (size(j) = size(i0) => i <= j)
    BY <1>7, <1>8, <1>10
  <2>2. size(i) \in Nat /\ size(j) \in Nat /\ i \in Nat /\ j \in Nat
    BY <1>1, <1>4, <1>9
  <2> QED
    BY <2>1, <2>2, <1>10 DEF Beats, size
<1>11. MatchRoute(routes, header, path) = {i}
  BY <1>9, <1>10 DEF MatchRoute, found
<1> QED
  BY <1>9, <1>10, <1>11 DEF found

\* Two prefixes of one path: the longer one starts with the other.
LEMMA PrefixOfPrefix ==
  ASSUME NEW path, IsList(path),
         NEW p, IsList(p), PrefixOK(p), PathMatches(p, path),
         NEW q, IsList(q), PrefixOK(q), PathMatches(q, path),
         Len(q) <= Len(p)
  PROVE  StartsWith(p, q)
<1>1. Len(p) \in Nat /\ Len(q) \in Nat /\ Len(p) # 0 /\ Len(q) # 0
      /\ p[1] = Slash /\ q[1] = Slash
  BY DEF IsList, PrefixOK
<1>2. CASE q = Root
  BY <1>1, <1>2 DEF StartsWith, Root
<1>3. CASE q # Root /\ p = Root
  BY <1>1, <1>3 DEF StartsWith, Root
<1>4. CASE q # Root /\ p # Root
  <2>1. \A i \in 1 .. Len(p) : path[i] = p[i]
    BY <1>4 DEF PathMatches, StartsWith
  <2>2. \A i \in 1 .. Len(q) : path[i] = q[i]
    BY <1>4 DEF PathMatches, StartsWith
  <2> QED
    BY <1>1, <2>1, <2>2 DEF StartsWith
<1> QED
  BY <1>2, <1>3, <1>4

\* With distinct ids the runtime found by a route's id is that of the route.
LEMMA RuntimeOfRoute ==
  ASSUME NEW routes, GoodRoutes(routes), NEW i \in DOMAIN routes
  PROVE  RouteRuntime(routes)[routes[i].id] = i
<1> DEFINE id == routes[i].id
           P(k) == routes[k].id = id /\ \A j \in DOMAIN routes : routes[j].id = id => j <= k
<1>1. \A j \in DOMAIN routes : routes[j].id = id => j = i
  BY DEF GoodRoutes, Unique
<1>2. i \in Nat
  BY DEF GoodRoutes
<1>3. P(i)
  BY <1>1, <1>2
<1>4. \A k \in DOMAIN routes : P(k) => k = i
  BY <1>1
<1>5. id \in {route.id : route \in Members(routes)}
  BY DEF Members
<1>6. (CHOOSE k \in DOMAIN routes : P(k)) = i
  BY <1>3, <1>4
<1>7. RouteRuntime(routes)[id] = CHOOSE k \in DOMAIN routes : P(k)
  BY <1>5, Zenon DEF RouteRuntime
<1> QED
  BY <1>6, <1>7
\* What RoutedRight says of one request.
Right(app, target, route, runtime) ==
  /\ route = {} <=> Fitting(app, target) = {}
  /\ \A i \in route :
       /\ i \in Fitting(app, target) /\ runtime = {i}
       /\ \A j \in Fitting(app, target) :
            /\ StartsWith(app.routes[i].path_prefix, app.routes[j].path_prefix)
            /\ app.routes[j].path_prefix = app.routes[i].path_prefix => i <= j

\* match_route and the lookup of the runtime are right for every request.
THEOREM RouterIsRight ==
  ASSUME NEW app, GoodRoutes(app.routes), NEW target, IsList(target.path)
  PROVE  LET route == MatchRoute(app.routes, target.host, target.path)
         IN  Right(app, target, route, {RouteRuntime(app.routes)[app.routes[i].id] : i \in route})
<1> DEFINE routes == app.routes
           found == Candidates(routes, target.host, target.path)
           route == MatchRoute(routes, target.host, target.path)
           runtime == {RouteRuntime(routes)[routes[i].id] : i \in route}
<1>1. found = Fitting(app, target)
  BY CandidatesFit
<1>2. CASE found = {}
  <2>1. route = {}
    BY <1>2 DEF MatchRoute
  <2> QED
    BY <1>1, <1>2, <2>1 DEF Right
<1>3. CASE found # {}
  <2>1. PICK i \in found : route = {i} /\ \A j \in found \ {i} : Beats(routes, i, j)
    BY <1>3, OneMatches
  <2>2. \A j \in found : /\ j \in DOMAIN routes /\ j \in Nat
                         /\ PathMatches(routes[j].path_prefix, target.path)
                         /\ IsList(routes[j].path_prefix) /\ PrefixOK(routes[j].path_prefix)
                         /\ Len(routes[j].path_prefix) \in Nat
    BY DEF Candidates, GoodRoutes, IsList
  <2>3. runtime = {i}
    BY <2>1, <2>2, RuntimeOfRoute
  <2>4. ASSUME NEW j \in found
        PROVE  /\ StartsWith(routes[i].path_prefix, routes[j].path_prefix)
               /\ routes[j].path_prefix = routes[i].path_prefix => i <= j
    <3>1. /\ Len(routes[j].path_prefix) <= Len(routes[i].path_prefix)
          /\ routes[j].path_prefix = routes[i].path_prefix => i <= j
      <4>1. CASE j = i
        BY <2>2, <4>1
      <4>2. CASE j # i
        BY <2>1, <2>2, <4>2 DEF Beats
      <4> QED
        BY <4>1, <4>2
    <3>2. StartsWith(routes[i].path_prefix, routes[j].path_prefix)
      BY <2>1, <2>2, <3>1, PrefixOfPrefix
    <3> QED
      BY <3>1, <3>2
  <2> HIDE DEF found, route, runtime
  <2> QED
    <3>1. Right(app, target, route, runtime)
      BY <1>1, <2>1, <2>3, <2>4 DEF Right
    <3> QED
      BY <3>1 DEF route, runtime
<1> QED
  BY <1>2, <1>3

-----------------------------------------------------------------------------
(* Deduplication and the chains of plugins *)

\* A list that grows by an element that it does not have.
LEMMA GrowsOnce ==
  ASSUME NEW S, NEW list \in Seq(S), NEW x \in S, Once(list), x \notin Members(list)
  PROVE  /\ list \o <<x>> \in Seq(S) /\ Once(list \o <<x>>)
         /\ Members(list \o <<x>>) = Members(list) \cup {x}
<1> DEFINE more == list \o <<x>>
<1>1. /\ more \in Seq(S) /\ Len(more) = Len(list) + 1 /\ DOMAIN more = 1 .. Len(list) + 1
      /\ DOMAIN list = 1 .. Len(list) /\ Len(list) \in Nat
      /\ \A i \in 1 .. Len(list) : more[i] = list[i]
      /\ more[Len(list) + 1] = x
  OBVIOUS
<1> HIDE DEF more
<1>2. Once(more)
  BY <1>1 DEF Once, Members
<1>3. Members(more) = Members(list) \cup {x}
  BY <1>1 DEF Members
<1> QED
  BY <1>1, <1>2, <1>3 DEF more

\* The recursion of Distinct: kept[n] is what stays of the first n elements.
Keeps(kept, s) ==
  kept = [n \in 0 .. Len(s) |->
            IF n = 0 THEN <<>>
            ELSE kept[n - 1] \o IF s[n] \in Members(kept[n - 1]) THEN <<>> ELSE <<s[n]>>]

\* The recursion of Distinct has a solution.
LEMMA KeepsExists == ASSUME NEW s, IsList(s) PROVE \E kept : Keeps(kept, s)
<1> DEFINE N == Len(s)
           X == Seq(Members(s))
           next(n, x) == x \o IF s[n] \in Members(x) THEN <<>> ELSE <<s[n]>>
           step == [n \in 1 .. N |-> [x \in X |-> next(n, x)]]
<1>1. N \in Nat /\ <<>> \in X /\ \A n \in 1 .. N : s[n] \in Members(s)
  BY DEF IsList, Members
<1>2. \A n \in 1 .. N, x \in X : next(n, x) \in X
  <2> SUFFICES ASSUME NEW n \in 1 .. N, NEW x \in X PROVE next(n, x) \in X
    OBVIOUS
  <2> DEFINE tail == IF s[n] \in Members(x) THEN <<>> ELSE <<s[n]>>
  <2>1. tail \in X
    BY <1>1
  <2> HIDE DEF tail
  <2>2. x \o tail \in X
    BY <2>1
  <2> QED
    BY <2>2 DEF tail
<1> HIDE DEF next, N, X
<1>3. step \in [1 .. N -> [X -> X]]
  BY <1>2
<1>4. \A n \in 1 .. N, x \in X : step[n][x] = next(n, x)
  OBVIOUS
<1> HIDE DEF step
<1> DEFINE base == <<>>
<1>b. N \in Nat /\ base \in X
  BY <1>1
<1> HIDE DEF base
<1>5. PICK f \in [0 .. N -> X] : Follows(f, N, base, step)
  BY <1>b, <1>3, Recursion
<1>6. ASSUME NEW n \in 0 .. N, n # 0 PROVE f[n] = next(n, f[n - 1])
  <2>1. n \in 1 .. N /\ n - 1 \in 0 .. N
    BY <1>1, <1>6
  <2>2. f[n - 1] \in X
    BY <2>1
  <2> QED
    BY <1>4, <1>5, <2>1, <2>2 DEF Follows
<1>7. f = [n \in 0 .. N |-> IF n = 0 THEN <<>> ELSE next(n, f[n - 1])]
  <2>1. \A n \in 0 .. N : f[n] = IF n = 0 THEN <<>> ELSE next(n, f[n - 1])
    BY <1>5, <1>6 DEF base, Follows
  <2>2. f = [n \in 0 .. N |-> f[n]]
    OBVIOUS
  <2> QED
    BY <2>1, <2>2
<1>8. Keeps(f, s)
  BY <1>7, Zenon DEF Keeps, next, N
<1> QED
  BY <1>8

\* The recursion of Distinct, one element at a time.
LEMMA KeepsStep ==
  ASSUME NEW s, IsList(s), NEW kept, Keeps(kept, s)
  PROVE  /\ kept[0] = <<>>
         /\ \A n \in 1 .. Len(s) :
              kept[n] = kept[n - 1] \o IF s[n] \in Members(kept[n - 1]) THEN <<>> ELSE <<s[n]>>
<1>1. Len(s) \in Nat
  BY DEF IsList
<1> DEFINE value(n) == IF n = 0 THEN <<>>
                       ELSE kept[n - 1] \o IF s[n] \in Members(kept[n - 1]) THEN <<>> ELSE <<s[n]>>
<1>2. kept = [n \in 0 .. Len(s) |-> value(n)]
  BY Zenon DEF Keeps
<1> HIDE DEF value
<1>3. \A n \in 0 .. Len(s) : kept[n] = value(n)
  BY <1>2
<1>4. 0 \in 0 .. Len(s) /\ \A n \in 1 .. Len(s) : n \in 0 .. Len(s) /\ n # 0
  BY <1>1
<1> QED
  BY <1>3, <1>4, Zenon DEF value

\* Distinct is what its recursion gives after the last element.
LEMMA DistinctIsLast == ASSUME NEW s PROVE Distinct(s) = (CHOOSE kept : Keeps(kept, s))[Len(s)]
BY Zenon DEF Distinct, Keeps

\* The deduplication of validate_plugins keeps every value, once.
LEMMA DistinctKeepsOnce ==
  ASSUME NEW s, IsList(s)
  PROVE  /\ IsList(Distinct(s)) /\ Once(Distinct(s))
         /\ Members(Distinct(s)) = Members(s)
<1> DEFINE S == Members(s)
<1>1. PICK kept : Keeps(kept, s) /\ Distinct(s) = kept[Len(s)]
  BY KeepsExists, DistinctIsLast
<1>2. /\ kept[0] = <<>>
      /\ \A n \in 1 .. Len(s) :
           kept[n] = kept[n - 1] \o IF s[n] \in Members(kept[n - 1]) THEN <<>> ELSE <<s[n]>>
  BY <1>1, KeepsStep, Zenon
<1>3. Len(s) \in Nat /\ DOMAIN s = 1 .. Len(s) /\ \A n \in 1 .. Len(s) : s[n] \in S
  BY DEF IsList, Members
<1> HIDE DEF S
<1> DEFINE First(n) == {s[i] : i \in 1 .. n}
           Good(n) == kept[n] \in Seq(S) /\ Once(kept[n]) /\ Members(kept[n]) = First(n)
           T == {n \in Nat : n <= Len(s) => Good(n)}
<1>4. 0 \in T
  <2>1. First(0) = {}
    OBVIOUS
  <2>2. <<>> \in Seq(S) /\ Once(<<>>) /\ Members(<<>>) = {}
    BY DEF Once, Members
  <2> QED
    BY <1>2, <2>1, <2>2, Zenon
<1>5. ASSUME NEW n \in Nat, n \in T PROVE n + 1 \in T
  <2> SUFFICES ASSUME n + 1 <= Len(s) PROVE Good(n + 1)
    OBVIOUS
  <2>1. Good(n) /\ n + 1 \in 1 .. Len(s) /\ (n + 1) - 1 = n
    BY <1>3, <1>5
  <2>2. First(n + 1) = First(n) \cup {s[n + 1]}
    OBVIOUS
  <2>3. kept[n + 1] = kept[n] \o IF s[n + 1] \in Members(kept[n]) THEN <<>> ELSE <<s[n + 1]>>
    BY <1>2, <2>1, Zenon
  <2>4. CASE s[n + 1] \in Members(kept[n])
    <3>1. kept[n + 1] = kept[n]
      BY <2>1, <2>3, <2>4
    <3> HIDE DEF First
    <3>2. First(n + 1) = First(n)
      BY <2>1, <2>2, <2>4, Zenon
    <3> QED
      BY <2>1, <3>1, <3>2
  <2>5. CASE s[n + 1] \notin Members(kept[n])
    <3>1. kept[n + 1] = kept[n] \o <<s[n + 1]>> /\ s[n + 1] \in S
      BY <1>3, <2>1, <2>3, <2>5
    <3> DEFINE list == kept[n]
               x == s[n + 1]
    <3> HIDE DEF First
    <3>2. list \in Seq(S) /\ x \in S /\ Once(list) /\ x \notin Members(list)
      BY <2>1, <2>5, <3>1
    <3> HIDE DEF list, x
    <3>3. /\ list \o <<x>> \in Seq(S) /\ Once(list \o <<x>>)
          /\ Members(list \o <<x>>) = Members(list) \cup {x}
      BY <3>2, GrowsOnce
    <3> QED
      BY <2>1, <2>2, <3>1, <3>3, Zenon DEF list, x
  <2> QED
    BY <2>4, <2>5
<1>6. Len(s) \in T
  <2> HIDE DEF T
  <2> QED
    BY <1>3, <1>4, <1>5, Induction
<1>7. Good(Len(s))
  BY <1>3, <1>6
<1>8. First(Len(s)) = S
  BY <1>3 DEF S, Members
<1> HIDE DEF First
<1>9. IsList(kept[Len(s)])
  BY <1>7, <1>8 DEF IsList
<1> QED
  BY <1>1, <1>7, <1>8, <1>9 DEF S

\* Each element of a list of numbers is greater than the one before it.
Rising(list) == \A k \in 1 .. Len(list) - 1 : list[k] < list[k + 1]

\* A list that grows by a number greater than all that it has.
LEMMA GrowsUp ==
  ASSUME NEW list \in Seq(Nat), NEW x \in Nat, Rising(list), \A y \in Members(list) : y < x
  PROVE  /\ list \o <<x>> \in Seq(Nat) /\ Rising(list \o <<x>>)
         /\ Members(list \o <<x>>) = Members(list) \cup {x}
<1> DEFINE more == list \o <<x>>
<1>0. PICK L \in Nat : L = Len(list)
  OBVIOUS
<1>1. /\ more \in Seq(Nat) /\ Len(more) = L + 1 /\ DOMAIN more = 1 .. L + 1 /\ DOMAIN list = 1 .. L
      /\ \A i \in 1 .. L : more[i] = list[i] /\ list[i] \in Members(list)
      /\ more[L + 1] = x
  BY <1>0 DEF Members
<1> HIDE DEF more
<1>2. Rising(more)
  <2> SUFFICES ASSUME NEW k \in 1 .. L PROVE more[k] < more[k + 1]
    BY <1>1 DEF Rising
  <2>1. CASE k = L
    BY <1>1, <2>1
  <2>2. CASE k # L
    <3>1. k \in 1 .. L - 1 /\ k + 1 \in 1 .. L
      BY <2>2
    <3>2. list[k] < list[k + 1]
      BY <1>0, <3>1 DEF Rising
    <3> QED
      BY <1>1, <3>1, <3>2
  <2> QED
    BY <2>1, <2>2
<1>3. Members(more) = Members(list) \cup {x}
  <2>1. 1 .. L + 1 = (1 .. L) \cup {L + 1}
    OBVIOUS
  <2>2. Members(more) = {more[i] : i \in 1 .. L} \cup {more[L + 1]}
    BY <1>1, <2>1, Zenon DEF Members
  <2>3. Members(list) = {more[i] : i \in 1 .. L}
    BY <1>1, Zenon DEF Members
  <2> QED
    BY <1>1, <2>2, <2>3
<1> QED
  BY <1>1, <1>2, <1>3 DEF more

\* What PolicyEngine::new pushes for plugin n.
Pushed(plugins, id, n) ==
  [k \in 1 .. Cardinality({j \in DOMAIN plugins[n].routes : plugins[n].routes[j] = id}) |-> n]

\* A plugin whose list has no route twice is pushed once or not at all.
LEMMA PushedOnce ==
  ASSUME NEW plugins, NEW id, NEW n \in Nat, Once(plugins[n].routes)
  PROVE  Pushed(plugins, id, n) = IF id \in Members(plugins[n].routes) THEN <<n>> ELSE <<>>
<1> DEFINE routes == plugins[n].routes
           named == {j \in DOMAIN routes : routes[j] = id}
<1>1. CASE id \in Members(routes)
  <2>1. PICK j \in DOMAIN routes : routes[j] = id
    BY <1>1 DEF Members
  <2>2. named = {j}
    BY <2>1 DEF Once
  <2>3. Cardinality(named) = 1
    BY <2>2, FS_Singleton, Zenon
  <2>4. [k \in 1 .. 1 |-> n] = <<n>>
    OBVIOUS
  <2> QED
    BY <1>1, <2>3, <2>4 DEF Pushed
<1>2. CASE id \notin Members(routes)
  <2>1. named = {}
    BY <1>2 DEF Members
  <2>2. Cardinality(named) = 0
    BY <2>1, FS_EmptySet
  <2>3. [k \in 1 .. 0 |-> n] = <<>>
    OBVIOUS
  <2> QED
    BY <1>2, <2>2, <2>3, Zenon DEF Pushed
<1> QED
  BY <1>1, <1>2

\* The recursion of RoutePlugins: chain[n] is what the first n plugins add up to.
Chains(chain, plugins, id) ==
  chain = [n \in 0 .. Len(plugins) |->
             IF n = 0 THEN <<>> ELSE chain[n - 1] \o Pushed(plugins, id, n)]

\* A list of plugins none of which names a route twice.
GoodPlugins(plugins) == IsList(plugins) /\ \A n \in DOMAIN plugins : Once(plugins[n].routes)

\* What a plugin adds to a chain is a list of its index.
LEMMA PushedTyped ==
  ASSUME NEW plugins, GoodPlugins(plugins), NEW id, NEW n \in 1 .. Len(plugins)
  PROVE  /\ n \in Nat /\ Pushed(plugins, id, n) \in Seq(Nat)
         /\ Pushed(plugins, id, n) = IF id \in Members(plugins[n].routes) THEN <<n>> ELSE <<>>
<1>1. n \in DOMAIN plugins /\ n \in Nat
  BY DEF GoodPlugins, IsList
<1>2. Pushed(plugins, id, n) = IF id \in Members(plugins[n].routes) THEN <<n>> ELSE <<>>
  BY <1>1, PushedOnce DEF GoodPlugins
<1> QED
  BY <1>1, <1>2

\* The recursion of RoutePlugins has a solution.
LEMMA ChainsExists ==
  ASSUME NEW plugins, GoodPlugins(plugins), NEW id
  PROVE  \E chain : Chains(chain, plugins, id)
<1> DEFINE N == Len(plugins)
           X == Seq(Nat)
           base == <<>>
           next(n, x) == x \o Pushed(plugins, id, n)
           step == [n \in 1 .. N |-> [x \in X |-> next(n, x)]]
<1>1. N \in Nat /\ base \in X
  BY DEF GoodPlugins, IsList
<1>2. \A n \in 1 .. N, x \in X : next(n, x) \in X
  BY PushedTyped
<1> HIDE DEF next, N, X, base
<1>3. step \in [1 .. N -> [X -> X]] /\ \A n \in 1 .. N, x \in X : step[n][x] = next(n, x)
  BY <1>2
<1> HIDE DEF step
<1>4. PICK f \in [0 .. N -> X] : Follows(f, N, base, step)
  BY <1>1, <1>3, Recursion
<1>5. ASSUME NEW n \in 0 .. N, n # 0 PROVE f[n] = next(n, f[n - 1])
  <2>1. n \in 1 .. N /\ n - 1 \in 0 .. N
    BY <1>1, <1>5
  <2>2. f[n - 1] \in X
    BY <2>1
  <2> QED
    BY <1>3, <1>4, <2>1, <2>2 DEF Follows
<1>6. \A n \in 0 .. N : f[n] = IF n = 0 THEN base ELSE next(n, f[n - 1])
  BY <1>4, <1>5 DEF Follows
<1>7. f = [n \in 0 .. N |-> f[n]]
  OBVIOUS
<1>8. f = [n \in 0 .. N |-> IF n = 0 THEN base ELSE next(n, f[n - 1])]
  BY <1>6, <1>7
<1>9. Chains(f, plugins, id)
  BY <1>8, Zenon DEF Chains, next, N, base
<1> QED
  BY <1>9

\* The recursion of RoutePlugins, one plugin at a time.
LEMMA ChainsStep ==
  ASSUME NEW plugins, GoodPlugins(plugins), NEW id, NEW chain, Chains(chain, plugins, id)
  PROVE  /\ chain[0] = <<>>
         /\ \A n \in 1 .. Len(plugins) : chain[n] = chain[n - 1] \o Pushed(plugins, id, n)
<1>1. Len(plugins) \in Nat
  BY DEF GoodPlugins, IsList
<1> DEFINE value(n) == IF n = 0 THEN <<>> ELSE chain[n - 1] \o Pushed(plugins, id, n)
<1>2. chain = [n \in 0 .. Len(plugins) |-> value(n)]
  BY Zenon DEF Chains
<1> HIDE DEF value
<1>3. \A n \in 0 .. Len(plugins) : chain[n] = value(n)
  BY <1>2
<1>4. 0 \in 0 .. Len(plugins) /\ \A n \in 1 .. Len(plugins) : n \in 0 .. Len(plugins) /\ n # 0
  BY <1>1
<1> QED
  BY <1>3, <1>4, Zenon DEF value

\* RoutePlugins is what its recursion gives after the last plugin.
LEMMA ChainIsLast ==
  ASSUME NEW plugins, NEW id
  PROVE  RoutePlugins(plugins, id) = (CHOOSE chain : Chains(chain, plugins, id))[Len(plugins)]
BY Zenon DEF RoutePlugins, Chains, Pushed

\* The chain of a route has the plugins that name it, each once and in the order
\* of the list.
LEMMA ChainOfRoute ==
  ASSUME NEW plugins, GoodPlugins(plugins), NEW id
  PROVE  /\ Members(RoutePlugins(plugins, id)) =
              {n \in DOMAIN plugins : id \in Members(plugins[n].routes)}
         /\ Rising(RoutePlugins(plugins, id))
<1>1. PICK chain : Chains(chain, plugins, id) /\ RoutePlugins(plugins, id) = chain[Len(plugins)]
  BY ChainsExists, ChainIsLast
<1>2. /\ chain[0] = <<>>
      /\ \A n \in 1 .. Len(plugins) : chain[n] = chain[n - 1] \o Pushed(plugins, id, n)
  BY <1>1, ChainsStep
<1>3. Len(plugins) \in Nat /\ DOMAIN plugins = 1 .. Len(plugins)
  BY DEF GoodPlugins, IsList
<1> DEFINE Names(n) == id \in Members(plugins[n].routes)
           First(n) == {m \in 1 .. n : Names(m)}
           Good(n) == chain[n] \in Seq(Nat) /\ Rising(chain[n]) /\ Members(chain[n]) = First(n)
           T == {n \in Nat : n <= Len(plugins) => Good(n)}
<1> HIDE DEF Names
<1>4. 0 \in T
  <2>1. First(0) = {}
    OBVIOUS
  <2>2. <<>> \in Seq(Nat) /\ Rising(<<>>) /\ Members(<<>>) = {}
    BY DEF Rising, Members
  <2> QED
    BY <1>2, <2>1, <2>2, Zenon
<1>5. ASSUME NEW n \in Nat, n \in T PROVE n + 1 \in T
  <2> SUFFICES ASSUME n + 1 <= Len(plugins) PROVE Good(n + 1)
    OBVIOUS
  <2>1. Good(n) /\ n + 1 \in 1 .. Len(plugins) /\ (n + 1) - 1 = n
    BY <1>3, <1>5
  <2>2. chain[n + 1] = chain[n] \o Pushed(plugins, id, n + 1)
    BY <1>2, <2>1, Zenon
  <2>3. Pushed(plugins, id, n + 1) = IF Names(n + 1) THEN <<n + 1>> ELSE <<>>
    BY <2>1, PushedTyped DEF Names
  <2>4. CASE ~Names(n + 1)
    <3>1. chain[n + 1] = chain[n]
      <4>1. chain[n + 1] = chain[n] \o <<>>
        BY <2>2, <2>3, <2>4, Zenon
      <4>2. \A list \in Seq(Nat) : list \o <<>> = list
        OBVIOUS
      <4> QED
        BY <2>1, <4>1, <4>2
    <3>2. First(n + 1) = First(n)
      BY <2>4
    <3> HIDE DEF First
    <3> QED
      BY <2>1, <3>1, <3>2
  <2>5. CASE Names(n + 1)
    <3>1. chain[n + 1] = chain[n] \o <<n + 1>>
      BY <2>2, <2>3, <2>5, Zenon
    <3>2. First(n + 1) = First(n) \cup {n + 1} /\ \A m \in First(n) : m < n + 1
      BY <2>5
    <3> DEFINE list == chain[n]
               x == n + 1
    <3> HIDE DEF First
    <3>3. list \in Seq(Nat) /\ x \in Nat /\ Rising(list) /\ \A y \in Members(list) : y < x
      BY <2>1, <3>2
    <3> HIDE DEF list, x
    <3>4. /\ list \o <<x>> \in Seq(Nat) /\ Rising(list \o <<x>>)
          /\ Members(list \o <<x>>) = Members(list) \cup {x}
      BY <3>3, GrowsUp
    <3> QED
      BY <2>1, <3>1, <3>2, <3>4, Zenon DEF list, x
  <2> QED
    BY <2>4, <2>5
<1>6. Len(plugins) \in T
  <2> HIDE DEF T
  <2> QED
    BY <1>3, <1>4, <1>5, Induction
<1>7. Good(Len(plugins))
  BY <1>3, <1>6
<1> QED
  BY <1>1, <1>3, <1>7 DEF Names

\* The plugins of every configuration that is accepted are such a list.
LEMMA AcceptedPlugins ==
  ASSUME NEW raw, Typed(raw)
  PROVE  GoodPlugins(AppConfig(raw).plugins)
<1> DEFINE plugins == AppConfig(raw).plugins
<1>1. plugins = [i \in DOMAIN raw.plugins |-> Plugin(raw.plugins[i])]
  BY SMT DEF AppConfig
<1> HIDE DEF plugins
<1>2. IsList(raw.plugins) /\ \A plugin \in Members(raw.plugins) : IsList(plugin.routes)
  BY Zenon DEF Typed
<1>3. DOMAIN plugins = 1 .. Len(raw.plugins) /\ Len(raw.plugins) \in Nat
  BY <1>1, <1>2 DEF IsList
<1>4. IsList(plugins)
  <2>1. plugins = [i \in 1 .. Len(raw.plugins) |-> plugins[i]]
    BY <1>1, <1>3
  <2>2. \A i \in 1 .. Len(raw.plugins) : plugins[i] \in Members(plugins)
    BY <1>3 DEF Members
  <2> QED
    BY <1>3, <2>1, <2>2 DEF IsList
<1>5. ASSUME NEW i \in DOMAIN plugins PROVE Once(plugins[i].routes)
  <2>1. i \in DOMAIN raw.plugins /\ plugins[i] = Plugin(raw.plugins[i])
    BY <1>1
  <2>2. plugins[i].routes = Distinct(raw.plugins[i].routes)
    BY <2>1, SMT DEF Plugin
  <2>3. IsList(raw.plugins[i].routes)
    BY <1>2, <2>1 DEF Members
  <2> QED
    BY <2>2, <2>3, DistinctKeepsOnce
<1>6. GoodPlugins(plugins)
  BY <1>4, <1>5 DEF GoodPlugins
<1> QED
  BY <1>6 DEF plugins

-----------------------------------------------------------------------------
(* The types of Reload *)

\* Going on and answering keep the types of pc and answer.
LEMMA MovesTyped ==
  ASSUME pc \in [Handlers -> PCs], answer \in [Handlers -> Answers], NEW h \in Handlers
  PROVE  /\ \A label \in PCs : Goto(h, label) => pc' \in [Handlers -> PCs]
         /\ \A a \in Answers :
              Answer(h, a) => pc' \in [Handlers -> PCs] /\ answer' \in [Handlers -> Answers]
BY DEF Goto, Answer, PCs

\* The labels and the answers that the actions use.
LEMMA Labels ==
  /\ {"start", "auth", "load", "ask", "write", "commit", "read", "swap", "store", "end"} \subseteq PCs
  /\ {"dropped", "unauthorized", "rejected", "reloaded", "ok", "failed", "disabled", "unavailable",
      "missing"} \subseteq Answers
BY DEF PCs, Answers

\* A generation is a number and a file.
LEMMA GenerationTyped ==
  /\ \A n \in Nat, f \in Files \cup {NoFile} : Generation(n, f) \in Generations
  /\ \A g \in Generations : g.number \in Nat /\ g.number + 1 \in Nat /\ g.config \in Files \cup {NoFile}
BY DEF Generation, Generations

\* Replacing what a function gives in one place by a value of the same kind.
LEMMA PutTyped ==
  ASSUME NEW S, NEW T, NEW f \in [S -> T], NEW x \in S, NEW y \in T
  PROVE  [f EXCEPT ![x] = y] \in [S -> T]
OBVIOUS

\* What a view shows are two generations.
LEMMA ViewTyped ==
  ASSUME NEW w, NEW g \in Generations, w \in [config : Generations, gateway : Generations]
  PROVE  /\ [config |-> g, gateway |-> w.gateway] \in [config : Generations, gateway : Generations]
         /\ [config |-> w.config, gateway |-> g] \in [config : Generations, gateway : Generations]
OBVIOUS

\* A reload and a view are handlers, and an accepted file is a file.
LEMMA KindsOfHandlers ==
  /\ \A r \in Reloads : r \in Handlers
  /\ \A v \in Views : v \in Handlers
  /\ \A f \in Accepted : f \in Files \cup {NoFile}
BY ReloadAssumption DEF Handlers, Accepted

\* Every step of the specification preserves the types.
LEMMA TypeStep == TypeOK /\ [Next]_vars => TypeOK'
<1> SUFFICES ASSUME TypeOK, [Next]_vars PROVE TypeOK'
  OBVIOUS
<1> DEFINE Moved == pc' \in [Handlers -> PCs] /\ answer' \in [Handlers -> Answers]
           ViewRecord == [config : Generations, gateway : Generations]
           Kept == UNCHANGED <<server, boot, gateway, current, writing, bearer, endpoint, loaded, view>>
<1>0. /\ pc \in [Handlers -> PCs] /\ answer \in [Handlers -> Answers]
      /\ gateway \in Generations /\ current \in Generations
      /\ bearer \in [Handlers -> Bearers \cup {"none"}]
      /\ endpoint \in [Views -> LegacyEndpoints \cup ApiEndpoints \cup {"none"}]
      /\ loaded \in [Reloads -> Files \cup {NoFile}]
      /\ view \in [Views -> ViewRecord]
  BY Zenon DEF TypeOK
<1>a. Moved /\ Kept => TypeOK'
  BY Zenon DEF TypeOK
<1>1. CASE Edit
  BY <1>0, <1>1, <1>a, Zenon DEF Edit, active, locals
<1>2. CASE Serve
  <2>1. gateway' \in Generations /\ current' \in Generations /\ boot' \in Files \cup {NoFile}
    <3>1. 0 \in Nat
      OBVIOUS
    <3> QED
      BY <1>2, <3>1, GenerationTyped, KindsOfHandlers, Zenon DEF Serve
  <2>2. server' = "up" /\ UNCHANGED <<writing, pc, locals>>
    BY <1>2, Zenon DEF Serve
  <2> QED
    BY <2>1, <2>2, Zenon DEF TypeOK, locals
<1>3. CASE Exit
  BY <1>3, Zenon DEF Exit, TypeOK, active, locals
<1>4. ASSUME NEW q \in Proxied, Route(q) PROVE TypeOK'
  <2>1. Kept /\ UNCHANGED <<pc, answer>>
    BY <1>4, Zenon DEF Route, active, locals
  <2> QED
    BY <1>0, <1>a, <2>1, Zenon
<1>5. ASSUME NEW h \in Handlers, Arrive(h) PROVE TypeOK'
  <2>1. pc' \in [Handlers -> PCs]
    BY <1>0, <1>5, MovesTyped, Labels, Zenon DEF Arrive
  <2>2. bearer' \in [Handlers -> Bearers \cup {"none"}]
    <3>1. PICK b \in Bearers : bearer' = [bearer EXCEPT ![h] = b]
      BY <1>5, Zenon DEF Arrive
    <3> QED
      BY <1>0, <3>1
  <2>3. endpoint' \in [Views -> LegacyEndpoints \cup ApiEndpoints \cup {"none"}]
    <3>1. CASE h \in Views
      <4>1. PICK e \in LegacyEndpoints \cup ApiEndpoints : endpoint' = [endpoint EXCEPT ![h] = e]
        BY <1>5, <3>1, Zenon DEF Arrive
      <4> QED
        BY <1>0, <3>1, <4>1
    <3>2. CASE h \notin Views
      BY <1>0, <1>5, <3>2, Zenon DEF Arrive
    <3> QED
      BY <3>1, <3>2, Zenon
  <2>4. UNCHANGED <<server, boot, gateway, current, writing, loaded, view, answer>>
    BY <1>5, Zenon DEF Arrive, active
  <2> QED
    BY <2>1, <2>2, <2>3, <2>4, Zenon DEF TypeOK
<1>6. ASSUME NEW h \in Handlers, Drop(h) PROVE TypeOK'
  <2>1. Answer(h, "dropped") /\ Kept
    BY <1>6, Zenon DEF Drop, active
  <2> QED
    BY <1>0, <1>a, <2>1, MovesTyped, Labels, Zenon
<1>7. ASSUME NEW h \in Handlers, Unauthorized(h) PROVE TypeOK'
  <2>1. Answer(h, "unauthorized") /\ Kept
    BY <1>7, Zenon DEF Unauthorized, active
  <2> QED
    BY <1>0, <1>a, <2>1, MovesTyped, Labels, Zenon
<1>8. ASSUME NEW h \in Handlers, Ask(h) PROVE TypeOK'
  <2>1. (Goto(h, "write") \/ Goto(h, "read")) /\ UNCHANGED answer /\ Kept
    BY <1>8, Zenon DEF Ask, active, locals
  <2> QED
    BY <1>0, <1>a, <2>1, MovesTyped, Labels, Zenon
<1>9. ASSUME NEW r \in Reloads, BeginReload(r) PROVE TypeOK'
  <2>1. ((Goto(r, "load") /\ UNCHANGED answer) \/ Answer(r, "rejected")) /\ Kept
    BY <1>9, Zenon DEF BeginReload, active
  <2> QED
    BY <1>0, <1>a, <2>1, MovesTyped, Labels, KindsOfHandlers, Zenon
<1>10. ASSUME NEW r \in Reloads, LoadConfig(r) PROVE TypeOK'
  <2>1. \/ Goto(r, "ask") /\ UNCHANGED answer
        \/ Answer(r, "rejected")
    BY <1>10, Zenon DEF LoadConfig
  <2>2. Moved
    BY <1>0, <2>1, MovesTyped, Labels, KindsOfHandlers, Zenon
  <2>3. loaded' \in [Reloads -> Files \cup {NoFile}]
    <3>1. CASE file \in Accepted
      <4>1. loaded' = [loaded EXCEPT ![r] = file] /\ file \in Files \cup {NoFile}
        BY <1>10, <3>1, KindsOfHandlers, Zenon DEF LoadConfig
      <4> QED
        BY <1>0, <4>1
    <3>2. CASE file \notin Accepted
      BY <1>0, <1>10, <3>2, Zenon DEF LoadConfig
    <3> QED
      BY <3>1, <3>2, Zenon
  <2>4. UNCHANGED <<server, boot, gateway, current, writing, bearer, endpoint, view>>
    BY <1>10, Zenon DEF LoadConfig, active
  <2> QED
    BY <2>2, <2>3, <2>4, Zenon DEF TypeOK
<1>11. ASSUME NEW r \in Reloads, Reject(r) PROVE TypeOK'
  <2>1. Answer(r, "rejected") /\ Kept
    BY <1>11, Zenon DEF Reject, active
  <2> QED
    BY <1>0, <1>a, <2>1, MovesTyped, Labels, KindsOfHandlers, Zenon
<1>12. ASSUME NEW r \in Reloads, Store(r) PROVE TypeOK'
  <2>1. pc' \in [Handlers -> PCs]
    BY <1>0, <1>12, MovesTyped, Labels, KindsOfHandlers, Zenon DEF Store
  <2>2. gateway' \in Generations
    <3>1. loaded[r] \in Files \cup {NoFile}
      BY <1>0
    <3> QED
      BY <1>0, <1>12, <3>1, GenerationTyped, Zenon DEF Store
  <2>3. UNCHANGED <<server, boot, current, bearer, endpoint, loaded, view, answer>>
    BY <1>12, Zenon DEF Store, locals
  <2>4. writing' \subseteq Reloads
    BY <1>12, Zenon DEF Store
  <2> QED
    BY <2>1, <2>2, <2>3, <2>4, Zenon DEF TypeOK
<1>13. ASSUME NEW r \in Reloads, Commit(r) PROVE TypeOK'
  <2>1. Moved
    BY <1>0, <1>13, MovesTyped, Labels, KindsOfHandlers, Zenon DEF Commit
  <2>2. current' = gateway /\ writing' = {}
    BY <1>13, Zenon DEF Commit
  <2>3. UNCHANGED <<server, boot, gateway, bearer, endpoint, loaded, view>>
    BY <1>13, Zenon DEF Commit
  <2> QED
    BY <1>0, <2>1, <2>2, <2>3, Zenon DEF TypeOK
<1>14. ASSUME NEW v \in Views, BeginView(v) PROVE TypeOK'
  <2>1. \/ (Goto(v, "ask") \/ Goto(v, "store")) /\ UNCHANGED answer
        \/ \E a \in {"ok", "failed", "disabled"} : Answer(v, a)
    BY <1>14, Zenon DEF BeginView
  <2>2. Moved
    BY <1>0, <2>1, MovesTyped, Labels, KindsOfHandlers, Zenon
  <2>3. Kept
    BY <1>14, Zenon DEF BeginView, active
  <2> QED
    BY <1>a, <2>2, <2>3, Zenon
<1>15. ASSUME NEW v \in Views, ReadConfig(v) PROVE TypeOK'
  <2>1. \/ (Goto(v, "swap") \/ Goto(v, "store")) /\ UNCHANGED answer
        \/ Answer(v, "ok")
    BY <1>15, Zenon DEF ReadConfig
  <2>2. Moved
    BY <1>0, <2>1, MovesTyped, Labels, KindsOfHandlers, Zenon
  <2>3. view[v] \in ViewRecord
    BY <1>0, Zenon
  <2>4. [config |-> current, gateway |-> view[v].gateway] \in ViewRecord
    BY <1>0, <2>3, ViewTyped, Zenon
  <2>5. view' \in [Views -> ViewRecord]
    <3>1. view' = [view EXCEPT ![v] = [config |-> current, gateway |-> view[v].gateway]]
      BY <1>15 DEF ReadConfig
    <3> HIDE DEF ViewRecord
    <3> QED
      BY <1>0, <2>4, <3>1, PutTyped, Zenon
  <2>6. UNCHANGED <<server, boot, gateway, current, writing, bearer, endpoint, loaded>>
    BY <1>15, Zenon DEF ReadConfig, active
  <2> QED
    BY <2>2, <2>5, <2>6, Zenon DEF TypeOK
<1>16. ASSUME NEW v \in Views, LoadState(v) PROVE TypeOK'
  <2>1. Moved
    BY <1>0, <1>16, MovesTyped, Labels, KindsOfHandlers, Zenon DEF LoadState
  <2>2. view[v] \in ViewRecord
    BY <1>0, Zenon
  <2>3. [config |-> view[v].config, gateway |-> gateway] \in ViewRecord
    BY <1>0, <2>2, ViewTyped, Zenon
  <2>4. view' \in [Views -> ViewRecord]
    <3>1. view' = [view EXCEPT ![v] = [config |-> view[v].config, gateway |-> gateway]]
      BY <1>16 DEF LoadState, StateLoaded
    <3> HIDE DEF ViewRecord
    <3> QED
      BY <1>0, <2>3, <3>1, PutTyped, Zenon
  <2>5. UNCHANGED <<server, boot, gateway, current, writing, bearer, endpoint, loaded>>
    BY <1>16, Zenon DEF LoadState, active
  <2> QED
    BY <2>1, <2>4, <2>5, Zenon DEF TypeOK
<1>17. ASSUME NEW v \in Views, StoreAnswers(v) PROVE TypeOK'
  <2>1. \E a \in {"ok", "unavailable", "missing", "failed"} : Answer(v, a)
    BY <1>17, Zenon DEF StoreAnswers
  <2>2. Moved
    BY <1>0, <2>1, MovesTyped, Labels, KindsOfHandlers, Zenon
  <2>3. Kept
    BY <1>17, Zenon DEF StoreAnswers, active
  <2> QED
    BY <1>a, <2>2, <2>3, Zenon
<1>18. CASE UNCHANGED vars
  BY <1>0, <1>18, <1>a, Zenon DEF vars, active, locals
<1> QED
  BY <1>1, <1>2, <1>3, <1>4, <1>5, <1>6, <1>7, <1>8, <1>9, <1>10, <1>11, <1>12, <1>13, <1>14,
     <1>15, <1>16, <1>17, <1>18, Zenon DEF Next, Step, ReloadStep, ViewStep

\* The types hold in every reachable state.
THEOREM TypeCorrect == Spec => []TypeOK
<1>1. Init => TypeOK
  BY ReloadAssumption DEF Init, TypeOK, Generations, Generation, PCs, Answers
<1> QED
  BY <1>1, TypeStep, PTL DEF Spec

-----------------------------------------------------------------------------
(* Where a handler is, and what it has then *)

PlaceInv ==
  /\ \A r \in Reloads : pc[r] \in {"start", "auth", "load", "ask", "write", "commit", "end"}
  /\ \A v \in Views : pc[v] \in {"start", "auth", "ask", "read", "swap", "store", "end"}
  /\ \A h \in Handlers : pc[h] # "end" => answer[h] = "none"
  /\ \A v \in Views :
       /\ pc[v] = "swap" => endpoint[v] = "routes"
       /\ pc[v] = "store" => endpoint[v] # "routes"
  /\ server # "up" => \A h \in Handlers : pc[h] = "start"
  /\ \A r \in Reloads : pc[r] \in {"ask", "write", "commit"} => loaded[r] \in Accepted

\* Every step keeps the handlers where the code can have them.
LEMMA PlaceStep == TypeOK /\ PlaceInv /\ [Next]_vars => PlaceInv'
<1> SUFFICES ASSUME TypeOK, PlaceInv, [Next]_vars PROVE PlaceInv'
  OBVIOUS
<1>0. /\ pc \in [Handlers -> PCs] /\ answer \in [Handlers -> Answers]
      /\ endpoint \in [Views -> LegacyEndpoints \cup ApiEndpoints \cup {"none"}]
      /\ loaded \in [Reloads -> Files \cup {NoFile}]
  BY DEF TypeOK
<1> USE <1>0, ReloadAssumption DEF PlaceInv, Handlers
<1>1. CASE Edit
  BY <1>1 DEF Edit, active, locals
<1>2. CASE Serve
  BY <1>2 DEF Serve, locals
<1>3. CASE Exit
  BY <1>3 DEF Exit, active, locals
<1>4. ASSUME NEW q \in Proxied, Route(q) PROVE PlaceInv'
  BY <1>4, Zenon DEF Route, active, locals
<1>5. ASSUME NEW h \in Handlers, Arrive(h) PROVE PlaceInv'
  BY <1>5 DEF Arrive, Goto, active
<1>6. ASSUME NEW h \in Handlers, Drop(h) PROVE PlaceInv'
  BY <1>6 DEF Drop, Goto, Answer, active
<1>7. ASSUME NEW h \in Handlers, Unauthorized(h) PROVE PlaceInv'
  BY <1>7 DEF Unauthorized, Goto, Answer, active
<1>8. ASSUME NEW h \in Handlers, Ask(h) PROVE PlaceInv'
  BY <1>8 DEF Ask, Goto, active, locals
<1>9. ASSUME NEW r \in Reloads, BeginReload(r) PROVE PlaceInv'
  BY <1>9 DEF BeginReload, Goto, Answer, active
<1>10. ASSUME NEW r \in Reloads, LoadConfig(r) PROVE PlaceInv'
  BY <1>10 DEF LoadConfig, Goto, Answer, active
<1>11. ASSUME NEW r \in Reloads, Reject(r) PROVE PlaceInv'
  BY <1>11 DEF Reject, Goto, Answer, active
<1>12. ASSUME NEW r \in Reloads, Store(r) PROVE PlaceInv'
  BY <1>12 DEF Store, Goto, locals
<1>13. ASSUME NEW r \in Reloads, Commit(r) PROVE PlaceInv'
  BY <1>13 DEF Commit, Goto, Answer
<1>14. ASSUME NEW v \in Views, BeginView(v) PROVE PlaceInv'
  BY <1>14 DEF BeginView, Goto, Answer, active
<1>15. ASSUME NEW v \in Views, ReadConfig(v) PROVE PlaceInv'
  BY <1>15 DEF ReadConfig, Goto, Answer, active
<1>16. ASSUME NEW v \in Views, LoadState(v) PROVE PlaceInv'
  BY <1>16 DEF LoadState, Goto, Answer, active
<1>17. ASSUME NEW v \in Views, StoreAnswers(v) PROVE PlaceInv'
  BY <1>17 DEF StoreAnswers, Goto, Answer, active
<1>18. CASE UNCHANGED vars
  BY <1>18 DEF vars, active, locals
<1> QED
  BY <1>1, <1>2, <1>3, <1>4, <1>5, <1>6, <1>7, <1>8, <1>9, <1>10, <1>11, <1>12, <1>13, <1>14,
     <1>15, <1>16, <1>17, <1>18, Zenon DEF Next, Step, ReloadStep, ViewStep

\* So it is in every reachable state.
LEMMA PlacesHold == Spec => [](TypeOK /\ PlaceInv)
<1>1. Init => PlaceInv
  BY ReloadAssumption DEF Init, PlaceInv, Handlers
<1> QED
  BY <1>1, TypeCorrect, PlaceStep, PTL DEF Spec

-----------------------------------------------------------------------------
(* The lock and the two copies of what is active *)

\* All but four actions leave what is active, the lock and the server alone,
\* move no reload into or out of its commit and tell none that it reloaded.
Quiet ==
  /\ UNCHANGED <<server, boot, gateway, current, writing>>
  /\ \A r \in Reloads :
       /\ pc'[r] = "commit" <=> pc[r] = "commit"
       /\ answer'[r] = "reloaded" <=> answer[r] = "reloaded"

\* Every step is quiet, or one of the four.
LEMMA MostAreQuiet ==
  ASSUME TypeOK, PlaceInv, [Next]_vars
  PROVE  Quiet \/ Serve \/ Exit \/ \E r \in Reloads : Store(r) \/ Commit(r)
<1>0. pc \in [Handlers -> PCs] /\ answer \in [Handlers -> Answers]
  BY DEF TypeOK
<1> USE <1>0, ReloadAssumption DEF PlaceInv, Handlers
<1>1. CASE Edit
  BY <1>1 DEF Quiet, Edit, active, locals
<1>4. ASSUME NEW q \in Proxied, Route(q) PROVE Quiet
  BY <1>4, Zenon DEF Quiet, Route, active, locals
<1>5. ASSUME NEW h \in Handlers, Arrive(h) PROVE Quiet
  BY <1>5 DEF Quiet, Arrive, Goto, active
<1>6. ASSUME NEW h \in Handlers, Drop(h) PROVE Quiet
  BY <1>6, Zenon DEF Quiet, Drop, Goto, Answer, active
<1>7. ASSUME NEW h \in Handlers, Unauthorized(h) PROVE Quiet
  BY <1>7 DEF Quiet, Unauthorized, Goto, Answer, active
<1>8. ASSUME NEW h \in Handlers, Ask(h) PROVE Quiet
  BY <1>8 DEF Quiet, Ask, Goto, active, locals
<1>9. ASSUME NEW r \in Reloads, BeginReload(r) PROVE Quiet
  BY <1>9 DEF Quiet, BeginReload, Goto, Answer, active
<1>10. ASSUME NEW r \in Reloads, LoadConfig(r) PROVE Quiet
  BY <1>10 DEF Quiet, LoadConfig, Goto, Answer, active
<1>11. ASSUME NEW r \in Reloads, Reject(r) PROVE Quiet
  BY <1>11, SMTT(20) DEF Quiet, Reject, Goto, Answer, active
<1>14. ASSUME NEW v \in Views, BeginView(v) PROVE Quiet
  <2>1. \A r \in Reloads : pc'[r] = pc[r] /\ answer'[r] = answer[r]
    BY <1>14 DEF BeginView, Goto, Answer
  <2>2. UNCHANGED <<server, boot, gateway, current, writing>>
    BY <1>14, Zenon DEF BeginView, active
  <2> QED
    BY <2>1, <2>2, Zenon DEF Quiet
<1>15. ASSUME NEW v \in Views, ReadConfig(v) PROVE Quiet
  BY <1>15 DEF Quiet, ReadConfig, Goto, Answer, active
<1>16. ASSUME NEW v \in Views, LoadState(v) PROVE Quiet
  BY <1>16, SMTT(20) DEF Quiet, LoadState, Goto, Answer, active
<1>17. ASSUME NEW v \in Views, StoreAnswers(v) PROVE Quiet
  <2>1. \A r \in Reloads : pc'[r] = pc[r] /\ answer'[r] = answer[r]
    BY <1>17 DEF StoreAnswers, Goto, Answer
  <2>2. UNCHANGED <<server, boot, gateway, current, writing>>
    BY <1>17, Zenon DEF StoreAnswers, active
  <2> QED
    BY <2>1, <2>2, Zenon DEF Quiet
<1>18. CASE UNCHANGED vars
  BY <1>18 DEF Quiet, vars, active, locals
<1> QED
  BY <1>1, <1>4, <1>5, <1>6, <1>7, <1>8, <1>9, <1>10, <1>11, <1>14, <1>15, <1>16, <1>17, <1>18, Zenon
     DEF Next, Step, ReloadStep, ViewStep

LockInv ==
  /\ \A r \in Reloads : pc[r] = "commit" <=> r \in writing
  /\ \A r, s \in writing : r = s
  /\ writing = {} => current = gateway
  /\ writing # {} => gateway.number = current.number + 1

\* Every step keeps the lock with the reload that is about to commit.
LEMMA LockStep == TypeOK /\ PlaceInv /\ LockInv /\ [Next]_vars => LockInv'
<1> SUFFICES ASSUME TypeOK, PlaceInv, LockInv, [Next]_vars PROVE LockInv'
  OBVIOUS
<1>0. pc \in [Handlers -> PCs] /\ gateway.number \in Nat /\ current.number \in Nat
  BY DEF TypeOK, Generations
<1> USE <1>0, ReloadAssumption DEF LockInv, Handlers
<1>1. CASE Quiet
  BY <1>1 DEF Quiet
<1>2. CASE Serve
  <2>1. writing' = writing /\ pc' = pc /\ current' = gateway' /\ server = "down"
    BY <1>2 DEF Serve, locals
  <2>2. \A r \in Reloads : pc[r] = "start"
    BY <2>1 DEF PlaceInv
  <2>3. writing = {}
    BY <2>2 DEF TypeOK
  <2> QED
    BY <2>1, <2>2, <2>3
<1>3. CASE Exit
  BY <1>3 DEF Exit, locals, active
<1>4. ASSUME NEW r \in Reloads, Store(r) PROVE LockInv'
  BY <1>4 DEF Store, Granted, Goto, Generation
<1>5. ASSUME NEW r \in Reloads, Commit(r) PROVE LockInv'
  BY <1>5 DEF Commit, Goto, Answer
<1> QED
  BY <1>1, <1>2, <1>3, <1>4, <1>5, MostAreQuiet

\* So it is in every reachable state.
LEMMA LockHolds == Spec => []LockInv
<1>1. Init => LockInv
  BY ReloadAssumption DEF Init, LockInv, Handlers
<1> QED
  BY <1>1, PlacesHold, LockStep, PTL DEF Spec

\* The two copies of what is active agree whenever no reload is between its
\* store and its commit, and no two reloads are there at once.
THEOREM CopiesAlwaysAgree == Spec => []CopiesAgree
<1>1. TypeOK /\ LockInv => CopiesAgree
  <2> SUFFICES ASSUME TypeOK, LockInv PROVE CopiesAgree
    OBVIOUS
  <2> DEFINE inside == {r \in Reloads : pc[r] = "commit"}
  <2>1. inside = writing
    BY DEF LockInv, TypeOK
  <2>2. Cardinality(inside) <= 1
    <3>1. CASE inside = {}
      <4>1. Cardinality(inside) = 0
        BY <3>1, FS_EmptySet
      <4> QED
        BY <4>1
    <3>2. ASSUME NEW r \in inside PROVE Cardinality(inside) <= 1
      <4>1. inside = {r}
        BY <2>1, <3>2 DEF LockInv
      <4>2. Cardinality(inside) = 1
        BY <4>1, FS_Singleton, Zenon
      <4> QED
        BY <4>2
    <3> QED
      BY <3>1, <3>2
  <2> QED
    BY <2>1, <2>2 DEF LockInv, CopiesAgree
<1> QED
  BY <1>1, TypeCorrect, LockHolds, PTL

-----------------------------------------------------------------------------
(* What a reload may activate *)

SoundInv ==
  server = "up" =>
    \A g \in {gateway, current} :
      /\ g.config \in Accepted /\ PluginsLoad(g.config)
      /\ Immutable(App[g.config]) = Immutable(App[boot])

\* Every step keeps what is active sound: a reload compares with what is active
\* by then.
LEMMA SoundStep == TypeOK /\ PlaceInv /\ LockInv /\ SoundInv /\ [Next]_vars => SoundInv'
<1> SUFFICES ASSUME TypeOK, PlaceInv, LockInv, SoundInv, [Next]_vars PROVE SoundInv'
  OBVIOUS
<1> USE DEF SoundInv
<1>1. CASE Quiet
  BY <1>1 DEF Quiet
<1>2. CASE Serve
  BY <1>2 DEF Serve, Generation
<1>3. CASE Exit
  BY <1>3 DEF Exit
<1>4. ASSUME NEW r \in Reloads, Store(r) PROVE SoundInv'
  <2>1. loaded[r] \in Accepted /\ server = "up"
    BY <1>4, SMTT(20) DEF Store, PlaceInv, Handlers
  <2>2. PluginsLoad(loaded[r]) /\ Immutable(App[loaded[r]]) = Immutable(App[current.config])
    BY <1>4 DEF Store, ImmutablesKept
  <2>3. server' = server /\ boot' = boot /\ current' = current /\ gateway'.config = loaded[r]
    BY <1>4, Zenon DEF Store, Generation
  <2> QED
    BY <2>1, <2>2, <2>3
<1>5. ASSUME NEW r \in Reloads, Commit(r) PROVE SoundInv'
  BY <1>5, Zenon DEF Commit
<1> QED
  BY <1>1, <1>2, <1>3, <1>4, <1>5, MostAreQuiet

\* So it is in every reachable state.
LEMMA SoundHolds == Spec => []SoundInv
<1>1. Init => SoundInv
  BY Zenon DEF Init, SoundInv
<1> QED
  BY <1>1, PlacesHold, LockHolds, SoundStep, PTL DEF Spec

-----------------------------------------------------------------------------
(* What the callers of reload are told *)

\* Every step keeps the generations in step with the answers.
LEMMA ToldStep ==
  TypeOK /\ PlaceInv /\ LockInv /\ AnswersTruthful /\ [Next]_vars => AnswersTruthful'
<1> SUFFICES ASSUME TypeOK, PlaceInv, LockInv, AnswersTruthful, [Next]_vars PROVE AnswersTruthful'
  OBVIOUS
<1> DEFINE told == {r \in Reloads : answer[r] = "reloaded"} \cup writing
<1>0. gateway.number \in Nat /\ gateway.number = Cardinality(told)
  BY DEF TypeOK, Generations, AnswersTruthful
<1>f. IsFiniteSet(told)
  BY ReloadAssumption, FS_Subset, Zenon DEF TypeOK
<1>1. CASE Quiet
  <2>1. told' = told
    BY <1>1 DEF Quiet
  <2> QED
    BY <1>0, <1>1, <2>1 DEF AnswersTruthful, Quiet
<1>2. CASE Serve
  <2>1. told' = {}
    BY <1>2 DEF Serve, locals, PlaceInv, LockInv, Handlers, TypeOK
  <2>2. Cardinality(told') = 0
    BY <2>1, FS_EmptySet
  <2> QED
    BY <1>2, <2>2 DEF AnswersTruthful, Serve, Generation
<1>3. CASE Exit
  BY <1>0, <1>3 DEF AnswersTruthful, Exit, active, locals
<1>4. ASSUME NEW r \in Reloads, Store(r) PROVE AnswersTruthful'
  <2>1. told' = told \cup {r}
    BY <1>4 DEF Store, Granted, locals
  <2>2. r \notin told
    BY <1>4, Zenon DEF Store, Granted, PlaceInv, Handlers
  <2>3. Cardinality(told') = Cardinality(told) + 1
    BY <1>f, <2>1, <2>2, FS_AddElement, Zenon
  <2> QED
    BY <1>0, <1>4, <2>3 DEF AnswersTruthful, Store, Generation
<1>5. ASSUME NEW r \in Reloads, Commit(r) PROVE AnswersTruthful'
  <2>1. writing = {r}
    BY <1>5 DEF Commit, LockInv
  <2>2. told' = told
    BY <1>5, <2>1 DEF Commit, Answer, TypeOK, Handlers
  <2> QED
    BY <1>0, <1>5, <2>2 DEF AnswersTruthful, Commit
<1> QED
  BY <1>1, <1>2, <1>3, <1>4, <1>5, MostAreQuiet

\* As many reloads took effect as callers were told so, the one between its
\* store and its commit included.
THEOREM AnswersAreTruthful == Spec => []AnswersTruthful
<1>1. Init => AnswersTruthful
  <2> SUFFICES ASSUME Init PROVE AnswersTruthful
    OBVIOUS
  <2>1. {r \in Reloads : answer[r] = "reloaded"} \cup writing = {}
    BY DEF Init, Handlers
  <2>2. Cardinality({r \in Reloads : answer[r] = "reloaded"} \cup writing) = 0
    BY <2>1, FS_EmptySet
  <2> QED
    BY <2>2 DEF Init, AnswersTruthful, Generation
<1> QED
  BY <1>1, PlacesHold, LockHolds, ToldStep, PTL DEF Spec

-----------------------------------------------------------------------------
(* What a view of the routes puts together *)

ViewInv ==
  \A v \in Views :
    pc[v] = "swap" \/ (endpoint[v] = "routes" /\ answer[v] = "ok") =>
      view[v].config.number <= IF pc[v] = "swap" THEN gateway.number ELSE view[v].gateway.number

\* Most actions leave what a view of the routes has read, and still has to read,
\* alone.
Calm ==
  /\ view' = view /\ gateway' = gateway
  /\ \A v \in Views :
       /\ pc'[v] = "swap" <=> pc[v] = "swap"
       /\ endpoint'[v] = "routes" /\ answer'[v] = "ok" => endpoint[v] = "routes" /\ answer[v] = "ok"

\* Every step is calm, or one of the four that are not.
LEMMA MostAreCalm ==
  ASSUME TypeOK, PlaceInv, [Next]_vars
  PROVE  \/ Calm \/ Serve \/ \E r \in Reloads : Store(r)
         \/ \E v \in Views : ReadConfig(v) \/ LoadState(v)
<1>0. /\ pc \in [Handlers -> PCs] /\ answer \in [Handlers -> Answers]
      /\ endpoint \in [Views -> LegacyEndpoints \cup ApiEndpoints \cup {"none"}]
  BY DEF TypeOK
<1> USE <1>0, ReloadAssumption DEF PlaceInv, Handlers, Calm
<1>1. CASE Edit
  BY <1>1, Zenon DEF Edit, active, locals
<1>2. CASE Exit
  BY <1>2 DEF Exit, active, locals
<1>3. ASSUME NEW q \in Proxied, Route(q) PROVE Calm
  BY <1>3, Zenon DEF Route, active, locals
<1>4. ASSUME NEW h \in Handlers, Arrive(h) PROVE Calm
  BY <1>4, Zenon DEF Arrive, Goto, active
<1>5. ASSUME NEW h \in Handlers, Drop(h) PROVE Calm
  BY <1>5, Zenon DEF Drop, Goto, Answer, active
<1>6. ASSUME NEW h \in Handlers, Unauthorized(h) PROVE Calm
  BY <1>6, Zenon DEF Unauthorized, Goto, Answer, active
<1>7. ASSUME NEW h \in Handlers, Ask(h) PROVE Calm
  BY <1>7, Zenon DEF Ask, Goto, active, locals
<1>8. ASSUME NEW r \in Reloads, BeginReload(r) PROVE Calm
  BY <1>8, Zenon DEF BeginReload, Goto, Answer, active
<1>9. ASSUME NEW r \in Reloads, LoadConfig(r) PROVE Calm
  BY <1>9, SMTT(20) DEF LoadConfig, Goto, Answer, active
<1>10. ASSUME NEW r \in Reloads, Reject(r) PROVE Calm
  BY <1>10, SMTT(20) DEF Reject, Goto, Answer, active
<1>11. ASSUME NEW r \in Reloads, Commit(r) PROVE Calm
  BY <1>11 DEF Commit, Goto, Answer
<1>12. ASSUME NEW v \in Views, BeginView(v) PROVE Calm
  <2>1. view' = view /\ gateway' = gateway /\ endpoint' = endpoint /\ pc[v] = "auth"
    BY <1>12, Zenon DEF BeginView, active
  <2>2. \A u \in Views \ {v} : pc'[u] = pc[u] /\ answer'[u] = answer[u]
    BY <1>12, SMTT(20) DEF BeginView, Goto, Answer
  <2>3. pc'[v] # "swap" /\ (endpoint[v] = "routes" => answer'[v] = answer[v])
    BY <1>12, SMTT(20) DEF BeginView, Goto, Answer
  <2> QED
    BY <2>1, <2>2, <2>3
<1>13. ASSUME NEW v \in Views, StoreAnswers(v) PROVE Calm
  BY <1>13 DEF StoreAnswers, Goto, Answer, active
<1>14. CASE UNCHANGED vars
  BY <1>14, Zenon DEF vars, active, locals
<1> QED
  BY <1>1, <1>2, <1>3, <1>4, <1>5, <1>6, <1>7, <1>8, <1>9, <1>10, <1>11, <1>12, <1>13, <1>14, Zenon
     DEF Next, Step, ReloadStep, ViewStep

\* Every step keeps what a view has read no newer than what it has still to
\* read.
LEMMA ViewsStep ==
  TypeOK /\ PlaceInv /\ LockInv /\ ViewInv /\ [Next]_vars => ViewInv'
<1> SUFFICES ASSUME TypeOK, PlaceInv, LockInv, ViewInv, [Next]_vars PROVE ViewInv'
  OBVIOUS
<1>0. /\ pc \in [Handlers -> PCs] /\ answer \in [Handlers -> Answers] /\ Views \subseteq Handlers
      /\ view \in [Views -> [config : Generations, gateway : Generations]]
      /\ gateway.number \in Nat
  BY DEF TypeOK, Generations, Handlers
<1> USE DEF ViewInv
<1>1. CASE Calm
  BY <1>1 DEF Calm
<1>2. CASE Serve
  <2>1. \A v \in Views : pc'[v] = "start" /\ answer'[v] = "none"
    BY <1>0, <1>2 DEF Serve, PlaceInv, locals
  <2> QED
    BY <2>1, SMTT(20)
<1>3. ASSUME NEW r \in Reloads, Store(r) PROVE ViewInv'
  <2>1. gateway'.number = gateway.number + 1 /\ view' = view /\ endpoint' = endpoint /\ answer' = answer
    BY <1>3, Zenon DEF Store, Generation, locals
  <2>2. \A v \in Views : pc'[v] = pc[v]
    BY <1>0, <1>3, ReloadAssumption, Zenon DEF Store, Goto
  <2>3. ASSUME NEW v \in Views, view[v].config.number <= gateway.number
        PROVE  view[v].config.number <= gateway'.number
    <3>1. view[v].config.number \in Nat
      BY <1>0 DEF Generations
    <3> QED
      BY <1>0, <2>1, <2>3, <3>1
  <2> QED
    BY <2>1, <2>2, <2>3
<1>4. ASSUME NEW v \in Views, ReadConfig(v) PROVE ViewInv'
  <2>1. current = gateway /\ gateway' = gateway /\ endpoint' = endpoint
    BY <1>4 DEF ReadConfig, Granted, LockInv, active
  <2>2. view'[v].config = current /\ \A u \in Views \ {v} : view'[u] = view[u]
    BY <1>0, <1>4 DEF ReadConfig
  <2>3. \A u \in Views \ {v} : pc'[u] = pc[u] /\ answer'[u] = answer[u]
    BY <1>0, <1>4, Zenon DEF ReadConfig, Goto, Answer
  <2>4. endpoint[v] = "routes" => pc'[v] = "swap"
    BY <1>0, <1>4, Zenon DEF ReadConfig, Goto, Answer
  <2>5. endpoint[v] # "routes" => pc'[v] # "swap"
    BY <1>0, <1>4 DEF ReadConfig, Goto, Answer
  <2>6. gateway.number <= gateway.number
    BY <1>0
  <2> QED
    BY <2>1, <2>2, <2>3, <2>4, <2>5, <2>6, Zenon
<1>5. ASSUME NEW v \in Views, LoadState(v) PROVE ViewInv'
  <2>1. pc[v] = "swap" /\ pc'[v] = "end" /\ gateway' = gateway /\ endpoint' = endpoint
    BY <1>0, <1>5, Zenon DEF LoadState, Goto, Answer, active
  <2>2. /\ view'[v].config = view[v].config /\ view'[v].gateway = gateway
        /\ \A u \in Views \ {v} : view'[u] = view[u]
    BY <1>0, <1>5 DEF LoadState, StateLoaded
  <2>3. \A u \in Views \ {v} : pc'[u] = pc[u] /\ answer'[u] = answer[u]
    BY <1>0, <1>5, Zenon DEF LoadState, Goto, Answer
  <2> QED
    BY <2>1, <2>2, <2>3, ZenonT(30)
<1> QED
  BY <1>1, <1>2, <1>3, <1>4, <1>5, MostAreCalm, Zenon

\* api_routes never shows the runtime of an earlier generation than the
\* configuration next to it.
THEOREM ViewsAreNotOlder == Spec => []ViewNotOlder
<1>1. Init => ViewInv
  BY DEF Init, ViewInv, Handlers
<1>2. PlaceInv /\ ViewInv => ViewNotOlder
  BY Zenon DEF PlaceInv, ViewInv, ViewNotOlder, Handlers
<1> QED
  BY <1>1, <1>2, PlacesHold, LockHolds, ViewsStep, PTL DEF Spec

-----------------------------------------------------------------------------
(* Who is answered *)

\* Configurations that agree on the immutable settings have the same token,
\* although only the name of its environment variable is compared.
LEMMA SameToken ==
  ASSUME NEW f \in Accepted, NEW g \in Accepted, Immutable(App[f]) = Immutable(App[g])
  PROVE  App[f].admin.token = App[g].admin.token
<1>1. NonBlank(Parsed[f].admin.token_env) = NonBlank(Parsed[g].admin.token_env)
  BY Zenon DEF Immutable, App, AppConfig
<1>2. Token(Parsed[f]) = Token(Parsed[g])
  BY <1>1 DEF Token
<1> QED
  BY <1>2, Zenon DEF App, AppConfig

\* The handler has the token of the start, or needs none.
Known(h) ==
  \/ bearer[h] \in App[boot].admin.token
  \/ App[boot].admin.token = {} /\ h \in Views /\ endpoint[h] \in LegacyEndpoints

\* Who passes the check knows the token of the start.
LEMMA KnownWhenAuthorized ==
  ASSUME SoundInv, server = "up", boot \in Accepted, NEW h \in Handlers, Authorized(h)
  PROVE  Known(h)
<1>1. App[current.config].admin.token = App[boot].admin.token
  BY SameToken, Zenon DEF SoundInv
<1> QED
  BY <1>1, Zenon DEF Authorized, Known

AdminInv ==
  /\ server = "up" => boot \in Accepted
  /\ \A h \in Handlers :
       pc[h] \notin {"start", "auth", "end"} \/ answer[h] \notin {"none", "unauthorized", "dropped"}
         => Known(h)

\* Every step keeps the handlers past the check to those that know the token.
LEMMA AdminStep == TypeOK /\ PlaceInv /\ SoundInv /\ AdminInv /\ [Next]_vars => AdminInv'
<1> SUFFICES ASSUME TypeOK, PlaceInv, SoundInv, AdminInv, [Next]_vars PROVE AdminInv'
  OBVIOUS
<1>0. /\ pc \in [Handlers -> PCs] /\ answer \in [Handlers -> Answers]
      /\ bearer \in [Handlers -> Bearers \cup {"none"}]
      /\ endpoint \in [Views -> LegacyEndpoints \cup ApiEndpoints \cup {"none"}]
  BY DEF TypeOK
<1> USE <1>0, ReloadAssumption DEF AdminInv, Known, Handlers
<1>1. CASE Edit
  BY <1>1, Zenon DEF Edit, active, locals
<1>2. CASE Serve
  BY <1>2 DEF Serve, locals, PlaceInv
<1>3. CASE Exit
  BY <1>3, Zenon DEF Exit, active, locals
<1>4. ASSUME NEW q \in Proxied, Route(q) PROVE AdminInv'
  BY <1>4, Zenon DEF Route, active, locals
<1>5. ASSUME NEW h \in Handlers, Arrive(h) PROVE AdminInv'
  BY <1>5, Zenon DEF Arrive, PlaceInv, Goto, active
<1>6. ASSUME NEW h \in Handlers, Drop(h) PROVE AdminInv'
  BY <1>6, Zenon DEF Drop, Goto, Answer, active
<1>7. ASSUME NEW h \in Handlers, Unauthorized(h) PROVE AdminInv'
  BY <1>7, Zenon DEF Unauthorized, Goto, Answer, active
<1>8. ASSUME NEW h \in Handlers, Ask(h) PROVE AdminInv'
  BY <1>8, Zenon DEF Ask, Goto, active, locals
<1>9. ASSUME NEW r \in Reloads, BeginReload(r) PROVE AdminInv'
  <2>1. Known(r)
    BY <1>9, KnownWhenAuthorized, Zenon DEF BeginReload, PlaceInv, Handlers
  <2> QED
    BY <1>9, <2>1, Zenon DEF BeginReload, Goto, Answer, active
<1>10. ASSUME NEW r \in Reloads, LoadConfig(r) PROVE AdminInv'
  BY <1>10, Zenon DEF LoadConfig, Goto, Answer, active
<1>11. ASSUME NEW r \in Reloads, Reject(r) PROVE AdminInv'
  BY <1>11, Zenon DEF Reject, Goto, Answer, active
<1>12. ASSUME NEW r \in Reloads, Store(r) PROVE AdminInv'
  BY <1>12, Zenon DEF Store, Goto, Generation, locals
<1>13. ASSUME NEW r \in Reloads, Commit(r) PROVE AdminInv'
  BY <1>13, Zenon DEF Commit, Goto, Answer
<1>14. ASSUME NEW v \in Views, BeginView(v) PROVE AdminInv'
  <2>1. Known(v)
    BY <1>14, KnownWhenAuthorized, Zenon DEF BeginView, PlaceInv, Handlers
  <2> QED
    BY <1>14, <2>1, Zenon DEF BeginView, Goto, Answer, active
<1>15. ASSUME NEW v \in Views, ReadConfig(v) PROVE AdminInv'
  BY <1>15 DEF ReadConfig, Goto, Answer, active
<1>16. ASSUME NEW v \in Views, LoadState(v) PROVE AdminInv'
  BY <1>16 DEF LoadState, StateLoaded, Goto, Answer, active
<1>17. ASSUME NEW v \in Views, StoreAnswers(v) PROVE AdminInv'
  BY <1>17, Zenon DEF StoreAnswers, Goto, Answer, active
<1>18. CASE UNCHANGED vars
  BY <1>18, Zenon DEF vars, active, locals
<1> QED
  BY <1>1, <1>2, <1>3, <1>4, <1>5, <1>6, <1>7, <1>8, <1>9, <1>10, <1>11, <1>12, <1>13, <1>14,
     <1>15, <1>16, <1>17, <1>18, Zenon DEF Next, Step, ReloadStep, ViewStep

\* Only the token that the server was started with opens the API and reload,
\* whatever was reloaded since.
THEOREM AdminIsGuarded == Spec => []AdminGuarded
<1>1. Init => AdminInv
  BY DEF Init, AdminInv, Handlers
<1>2. AdminInv => AdminGuarded
  BY Zenon DEF AdminInv, AdminGuarded, Known
<1> QED
  BY <1>1, <1>2, PlacesHold, SoundHolds, AdminStep, PTL DEF Spec
-----------------------------------------------------------------------------
(* What is active is usable, and requests are routed by it *)

\* load_config gives usable configurations whose routes the router can match.
LEMMA AcceptedSound ==
  ASSUME NEW f \in Accepted
  PROVE  Usable(App[f]) /\ GoodRoutes(App[f].routes) /\ GoodPlugins(App[f].plugins)
<1>1. Typed(Parsed[f]) /\ Valid(Parsed[f])
  BY InputAssumption DEF Accepted
<1>2. App[f] = AppConfig(Parsed[f])
  BY DEF App
<1> QED
  BY <1>1, <1>2, AcceptedUsable, AcceptedRoutes, AcceptedPlugins, Zenon

\* Validation before activation, for every chain of reloads: what is active was
\* accepted, is usable, and agrees with the start on what may not change.
THEOREM ActiveIsAlwaysSound == Spec => []ActiveIsSound
<1>1. TypeOK /\ SoundInv => ActiveIsSound
  BY AcceptedSound, Zenon DEF SoundInv, ActiveIsSound
<1> QED
  BY <1>1, TypeCorrect, SoundHolds, PTL

\* What ChainExact says of one request.
Exact(app, i, chain) ==
  /\ Members(chain) = {n \in DOMAIN app.plugins :
                         app.routes[i].id \in Members(app.plugins[n].routes)}
  /\ Rising(chain)

\* What a request was given is right for the configuration that it was given by.
RouteInv ==
  /\ routed = [q \in Proxied |-> routed[q]]
  /\ \A q \in Proxied : \A target \in routed[q].target :
       Right(App[routed[q].config], target, routed[q].route, routed[q].runtime)
  /\ \A q \in Proxied : \A i \in routed[q].route : Exact(App[routed[q].config], i, routed[q].chain)

\* Only Route changes what a request was given.
LEMMA OnlyRoute == [Next]_vars => routed' = routed \/ \E q \in Proxied : Route(q)
BY Zenon DEF Next, vars, Edit, Serve, Exit, Arrive, Drop, Step, Unauthorized, Ask, ReloadStep, BeginReload,
   LoadConfig, Reject, Store, Commit, ViewStep, BeginView, ReadConfig, LoadState, StoreAnswers

\* A request is routed by what is active, which is sound.
LEMMA RouteStep == SoundInv /\ RouteInv /\ [Next]_vars => RouteInv'
<1> SUFFICES ASSUME SoundInv, RouteInv, [Next]_vars PROVE RouteInv'
  OBVIOUS
<1>1. CASE routed' = routed
  BY <1>1 DEF RouteInv
<1>2. ASSUME NEW q \in Proxied, Route(q) PROVE RouteInv'
  <2> DEFINE app == App[gateway.config]
             match(t) == MatchRoute(app.routes, t.host, t.path)
             found(t) == {RouteRuntime(app.routes)[app.routes[i].id] : i \in match(t)}
             chain(t) == IF match(t) = {} THEN <<>>
                         ELSE RoutePlugins(app.plugins, app.routes[TheOne(match(t))].id)
  <2>1. GoodRoutes(app.routes) /\ GoodPlugins(app.plugins)
    BY <1>2, AcceptedSound, Zenon DEF Route, SoundInv
  <2> DEFINE given(t) ==
               [config |-> gateway.config, target |-> {t}, route |-> match(t), runtime |-> found(t),
                chain |-> chain(t)]
  <2>2. PICK t \in Targets : routed' = [routed EXCEPT ![q] = given(t)]
    BY <1>2, Zenon DEF Route
  <2>4. Right(app, t, match(t), found(t))
    BY <2>1, InputAssumption, RouterIsRight, Zenon
  <2>e. ASSUME NEW i \in match(t) PROVE Exact(app, i, chain(t))
    <3>1. TheOne(match(t)) \in match(t)
      BY DEF TheOne
    <3>2. \A j \in match(t) : found(t) = {j}
      BY <2>4, Zenon DEF Right
    <3> HIDE DEF match, found
    <3>3. TheOne(match(t)) = i
      BY <3>1, <3>2, Zenon
    <3>4. chain(t) = RoutePlugins(app.plugins, app.routes[i].id)
      BY <3>1, <3>3, Zenon
    <3> HIDE DEF chain, app
    <3> QED
      BY <2>1, <3>4, ChainOfRoute DEF Exact
  <2> HIDE DEF match, found, app, chain
  <2>5. routed' = [p \in Proxied |-> routed'[p]] /\ \A p \in Proxied : p # q => routed'[p] = routed[p]
    BY <2>2, Zenon DEF RouteInv
  <2>6. /\ routed'[q].config = gateway.config /\ routed'[q].target = {t}
        /\ routed'[q].route = match(t) /\ routed'[q].runtime = found(t)
        /\ routed'[q].chain = chain(t)
    BY <2>2, Zenon DEF RouteInv
  <2>7. ASSUME NEW p \in Proxied, NEW target \in routed'[p].target
        PROVE  Right(App[routed'[p].config], target, routed'[p].route, routed'[p].runtime)
    <3>1. CASE p # q
      BY <2>5, <2>7, <3>1 DEF RouteInv
    <3>2. CASE p = q
      BY <2>4, <2>6, <2>7, <3>2, Zenon DEF app
    <3> QED
      BY <3>1, <3>2
  <2>8. ASSUME NEW p \in Proxied, NEW i \in routed'[p].route
        PROVE  Exact(App[routed'[p].config], i, routed'[p].chain)
    <3>1. CASE p # q
      BY <2>5, <2>8, <3>1 DEF RouteInv
    <3>2. CASE p = q
      BY <2>e, <2>6, <2>8, <3>2, Zenon DEF app
    <3> QED
      BY <3>1, <3>2
  <2> QED
    BY <2>5, <2>7, <2>8 DEF RouteInv
<1> QED
  BY <1>1, <1>2, OnlyRoute

\* RouteInv holds in every state.
LEMMA RoutesHold == Spec => []RouteInv
<1>1. Init => RouteInv
  <2> SUFFICES ASSUME Init PROVE RouteInv
    OBVIOUS
  <2>1. routed = [q \in Proxied |-> NotRouted] /\ NotRouted.target = {} /\ NotRouted.route = {}
    BY Zenon DEF Init, NotRouted
  <2> QED
    BY <2>1 DEF RouteInv
<1> QED
  BY <1>1, SoundHolds, RouteStep, PTL DEF Spec

\* Every request gets the route with the longest prefix that fits, and the
\* runtime of that route, whichever reloads go on.
THEOREM RequestsAreRoutedRight == Spec => []RoutedRight
<1>1. RouteInv => RoutedRight
  BY Zenon DEF RouteInv, RoutedRight, Right
<1> QED
  BY <1>1, RoutesHold, PTL

\* Every request gets the plugins that name its route in the configuration that
\* it was routed by, each once and in the order of the file.
THEOREM ChainsAreExact == Spec => []ChainExact
<1>1. RouteInv => ChainExact
  BY DEF RouteInv, ChainExact, Exact, Rising
<1> QED
  BY <1>1, RoutesHold, PTL

-----------------------------------------------------------------------------
(* Who waits for the lock *)

\* The places where a handler waits for it.
Waiting == {"auth", "write", "read"}

\* How far each place of a handler is from its answer.
Rank ==
  [start |-> 6, auth |-> 5, load |-> 4, ask |-> 3, write |-> 2, read |-> 2,
   commit |-> 1, swap |-> 1, store |-> 1, end |-> 0]

\* h goes on to a place nearer to its answer; the line changes with it.
Moves(h, label) ==
  /\ Goto(h, label) /\ Rank[label] < Rank[pc[h]]
  /\ \/ queue' = queue /\ pc[h] \notin Waiting /\ label \notin Waiting
     \/ Wait(h) /\ pc[h] \notin Waiting /\ label \in Waiting
     \/ (Granted(h) \/ Leave(h)) /\ label \notin Waiting

\* Every step moves one handler on, or none.
LEMMA OneMoves ==
  ASSUME TypeOK, PlaceInv, [Next]_vars
  PROVE  (pc' = pc /\ queue' = queue) \/ \E h \in Handlers, label \in PCs : Moves(h, label)
<1> USE DEF Waiting, Rank, PCs
<1>1. CASE Edit \/ Serve \/ Exit \/ (\E q \in Proxied : Route(q)) \/ UNCHANGED vars
  BY <1>1, Zenon DEF Edit, Serve, Exit, Route, vars
<1>2. ASSUME NEW h \in Handlers, Arrive(h) PROVE Moves(h, "auth")
  <2>1. pc[h] = "start" /\ Goto(h, "auth") /\ Wait(h)
    BY <1>2, Zenon DEF Arrive
  <2> QED
    BY <2>1 DEF Moves
<1>3. ASSUME NEW h \in Handlers, Ask(h) PROVE Moves(h, "write") \/ Moves(h, "read")
  <2>1. pc[h] = "ask" /\ (Goto(h, "write") \/ Goto(h, "read")) /\ Wait(h)
    BY <1>3, Zenon DEF Ask
  <2> QED
    BY <2>1 DEF Moves
<1>4. ASSUME NEW h \in Handlers, Drop(h) PROVE Moves(h, "end")
  <2>1. pc[h] \in {"auth", "write", "read", "store"} /\ Goto(h, "end") /\ Leave(h)
    BY <1>4, Zenon DEF Drop, Answer
  <2> QED
    BY <2>1 DEF Moves
<1>5. ASSUME NEW h \in Handlers, Granted(h),
             \/ pc[h] = "auth" /\ \E label \in {"load", "ask", "store", "end"} : Goto(h, label)
             \/ pc[h] \in {"write", "read"} /\ \E label \in {"commit", "swap", "store", "end"} : Goto(h, label)
      PROVE  \E label \in PCs : Moves(h, label)
  BY <1>5 DEF Moves
<1>6. ASSUME NEW h \in Handlers, Unauthorized(h) PROVE \E label \in PCs : Moves(h, label)
  BY <1>5, <1>6, Zenon DEF Unauthorized, Answer
<1>7. ASSUME NEW h \in Handlers, BeginReload(h) PROVE \E label \in PCs : Moves(h, label)
  BY <1>5, <1>7, Zenon DEF BeginReload, Answer
<1>8. ASSUME NEW h \in Handlers, Reject(h) \/ Store(h) PROVE \E label \in PCs : Moves(h, label)
  BY <1>5, <1>8, Zenon DEF Reject, Store, Answer
<1>9. ASSUME NEW h \in Handlers, BeginView(h) PROVE \E label \in PCs : Moves(h, label)
  BY <1>5, <1>9, Zenon DEF BeginView, Answer
<1>10. ASSUME NEW h \in Handlers, ReadConfig(h) PROVE \E label \in PCs : Moves(h, label)
  BY <1>5, <1>10, Zenon DEF ReadConfig, Answer
<1>11. ASSUME NEW h \in Handlers, LoadConfig(h) PROVE Moves(h, "ask") \/ Moves(h, "end")
  <2>1. pc[h] = "load" /\ (Goto(h, "ask") \/ Goto(h, "end")) /\ queue' = queue
    BY <1>11, Zenon DEF LoadConfig, Answer
  <2> QED
    BY <2>1 DEF Moves
<1>12. ASSUME NEW h \in Handlers, Commit(h) \/ LoadState(h) \/ StoreAnswers(h)
       PROVE  Moves(h, "end")
  <2>1. pc[h] \in {"commit", "swap", "store"} /\ Goto(h, "end") /\ queue' = queue
    BY <1>12, Zenon DEF Commit, LoadState, StoreAnswers, Answer
  <2> QED
    BY <2>1 DEF Moves
<1>13. {"auth", "write", "read", "ask", "end"} \subseteq PCs
  OBVIOUS
<1> HIDE DEF Waiting, Rank, PCs
<1> QED
  BY <1>1, <1>2, <1>3, <1>4, <1>6, <1>7, <1>8, <1>9, <1>10, <1>11, <1>12, <1>13, Zenon
     DEF Next, Step, ReloadStep, ViewStep

\* The line is exactly of those that wait, each once.
LineInv ==
  /\ queue \in Seq(Handlers) /\ Once(queue)
  /\ \A h \in Handlers : pc[h] \in Waiting <=> Has(queue, h)

\* What leaving or being served does to the line.
LEMMA LineShrinks ==
  ASSUME LineInv, NEW h \in Handlers, Granted(h) \/ Leave(h)
  PROVE  /\ queue' \in Seq(Handlers) /\ Once(queue')
         /\ \A g : Has(queue', g) <=> g # h /\ Has(queue, g)
         /\ \A g, k : Precedes(queue', g, k) => Precedes(queue, g, k)
<1>1. queue \in Seq(Handlers) /\ Once(queue)
  BY DEF LineInv
<1>2. ASSUME NEW i \in DOMAIN queue, queue[i] = h,
             queue' = [j \in 1 .. Len(queue) - 1 |-> queue[IF j < i THEN j ELSE j + 1]]
      PROVE  /\ queue' \in Seq(Handlers) /\ Once(queue')
             /\ \A g : Has(queue', g) <=> g # h /\ Has(queue, g)
             /\ \A g, k : Precedes(queue', g, k) => Precedes(queue, g, k)
  <2>1. queue' = Closed(queue, i)
    BY <1>2 DEF Closed
  <2>2. /\ Closed(queue, i) \in Seq(Handlers) /\ Once(Closed(queue, i))
        /\ \A g : Has(Closed(queue, i), g) <=> g # queue[i] /\ Has(queue, g)
        /\ \A g, k : Precedes(Closed(queue, i), g, k) => Precedes(queue, g, k)
    BY <1>1, LineCloses, ZenonT(40)
  <2> QED
    BY <1>2, <2>1, <2>2, Zenon
<1>3. CASE Granted(h)
  <2>1. queue # <<>> /\ Head(queue) = h /\ queue' = Tail(queue)
    BY <1>3, Zenon DEF Granted
  <2> QED
    BY <1>1, <2>1, LineIsServed, Zenon
<1>4. CASE Leave(h)
  <2>1. CASE (\A i \in DOMAIN queue : queue[i] # h) /\ queue' = queue
    BY <1>1, <2>1, Zenon DEF Has
  <2>2. CASE \E i \in DOMAIN queue :
               /\ queue[i] = h
               /\ queue' = [j \in 1 .. Len(queue) - 1 |-> queue[IF j < i THEN j ELSE j + 1]]
    BY <1>2, <2>2, Zenon
  <2> QED
    BY <1>4, <2>1, <2>2, Zenon DEF Leave
<1> QED
  BY <1>3, <1>4

\* Every step keeps the line so.
LEMMA LineStep == TypeOK /\ PlaceInv /\ LineInv /\ [Next]_vars => LineInv'
<1> SUFFICES ASSUME TypeOK, PlaceInv, LineInv, [Next]_vars PROVE LineInv'
  OBVIOUS
<1>0. pc \in [Handlers -> PCs] /\ queue \in Seq(Handlers) /\ Once(queue)
  BY DEF TypeOK, LineInv
<1>1. CASE pc' = pc /\ queue' = queue
  BY <1>1, Zenon DEF LineInv
<1>2. ASSUME NEW h \in Handlers, NEW label \in PCs, Moves(h, label) PROVE LineInv'
  <2>1. pc' \in [Handlers -> PCs] /\ pc'[h] = label /\ \A g \in Handlers : g # h => pc'[g] = pc[g]
    BY <1>0, <1>2 DEF Moves, Goto
  <2>2. CASE queue' = queue /\ pc[h] \notin Waiting /\ label \notin Waiting
    BY <2>1, <2>2, Zenon DEF LineInv
  <2>3. CASE Wait(h) /\ pc[h] \notin Waiting /\ label \in Waiting
    <3>1. ~Has(queue, h) /\ queue' = Append(queue, h)
      BY <2>3, Zenon DEF LineInv, Wait
    <3>2. /\ queue' \in Seq(Handlers) /\ Once(queue')
          /\ \A g : Has(queue', g) <=> g = h \/ Has(queue, g)
      BY <1>0, <3>1, LineGrows, Zenon
    <3> QED
      BY <2>1, <2>3, <3>2, Zenon DEF LineInv
  <2>4. CASE (Granted(h) \/ Leave(h)) /\ label \notin Waiting
    <3>1. /\ queue' \in Seq(Handlers) /\ Once(queue')
          /\ \A g : Has(queue', g) <=> g # h /\ Has(queue, g)
      BY <2>4, LineShrinks, Zenon
    <3> QED
      BY <2>1, <2>4, <3>1, Zenon DEF LineInv
  <2> QED
    BY <1>2, <2>2, <2>3, <2>4, Zenon DEF Moves
<1> QED
  BY <1>1, <1>2, OneMoves, Zenon

\* So it is in every reachable state.
LEMMA LineHolds == Spec => []LineInv
<1>1. Init => LineInv
  <2> SUFFICES ASSUME Init PROVE LineInv
    OBVIOUS
  <2>1. queue = <<>> /\ \A h \in Handlers : pc[h] = "start"
    BY DEF Init
  <2>2. queue \in Seq(Handlers) /\ DOMAIN queue = {}
    BY <2>1
  <2> QED
    BY <2>1, <2>2 DEF LineInv, Once, Has, Waiting
<1> QED
  BY <1>1, PlacesHold, LineStep, PTL DEF Spec

\* The lock is handed on in the order of arrival: as long as a handler waits,
\* nobody gets before it who was not before it, and each handler only ever
\* comes nearer to its answer.  So a stream of reads cannot starve a reload,
\* nor reloads a read.
InTurn ==
  [][\A h \in Handlers :
       /\ pc'[h] = pc[h] \/ Rank[pc'[h]] < Rank[pc[h]]
       /\ pc[h] \in Waiting /\ pc'[h] = pc[h] =>
            \A g \in Handlers : Precedes(queue', g, h) => Precedes(queue, g, h)]_vars
THEOREM EverybodyInTurn == Spec => InTurn
<1> DEFINE Nearer(h) == pc'[h] = pc[h] \/ Rank[pc'[h]] < Rank[pc[h]]
           Kept(h) == pc[h] \in Waiting /\ pc'[h] = pc[h] =>
                        \A g \in Handlers : Precedes(queue', g, h) => Precedes(queue, g, h)
<1>1. ASSUME TypeOK, PlaceInv, LineInv, [Next]_vars, NEW h \in Handlers PROVE Nearer(h) /\ Kept(h)
  <2>0. pc \in [Handlers -> PCs] /\ queue \in Seq(Handlers) /\ Once(queue)
    BY <1>1 DEF TypeOK, LineInv
  <2>1. CASE pc' = pc /\ queue' = queue
    BY <2>1, Zenon
  <2>2. ASSUME NEW k \in Handlers, NEW label \in PCs, Moves(k, label) PROVE Nearer(h) /\ Kept(h)
    <3>1. pc'[k] = label /\ (h # k => pc'[h] = pc[h]) /\ Rank[label] < Rank[pc[k]]
      BY <2>0, <2>2 DEF Moves, Goto
    <3>2. Nearer(h)
      BY <3>1, Zenon
    <3>3. CASE queue' = queue
      BY <3>2, <3>3, Zenon
    <3>4. CASE Wait(k) /\ pc[k] \notin Waiting
      <4>1. ~Has(queue, k) /\ queue' = Append(queue, k)
        BY <1>1, <3>4, Zenon DEF LineInv, Wait
      <4>2. \A g : h # k /\ Precedes(queue', g, h) => Precedes(queue, g, h)
        BY <2>0, <4>1, LineGrows, Zenon
      <4> QED
        BY <3>2, <3>4, <4>2, Zenon
    <3>5. CASE Granted(k) \/ Leave(k)
      <4>1. \A g : Precedes(queue', g, h) => Precedes(queue, g, h)
        BY <1>1, <3>5, LineShrinks, Zenon
      <4> QED
        BY <3>2, <4>1, Zenon
    <3> QED
      BY <2>2, <3>3, <3>4, <3>5, Zenon DEF Moves
  <2> QED
    BY <1>1, <2>1, <2>2, OneMoves, Zenon
<1>2. TypeOK /\ PlaceInv /\ LineInv /\ [Next]_vars =>
        \A h \in Handlers :
          /\ pc'[h] = pc[h] \/ Rank[pc'[h]] < Rank[pc[h]]
          /\ pc[h] \in Waiting /\ pc'[h] = pc[h] =>
               \A g \in Handlers : Precedes(queue', g, h) => Precedes(queue, g, h)
  BY <1>1, Zenon
<1> QED
  BY <1>2, PlacesHold, LineHolds, PTL DEF Spec, InTurn

\* What a reading endpoint was asked for by the time it is at each place.
AskedInv ==
  \A v \in Views :
    /\ pc[v] # "start" => endpoint[v] \in LegacyEndpoints \cup ApiEndpoints
    /\ pc[v] \in {"ask", "read"} => endpoint[v] \in {"routes", "overview", "plugins"}

\* Every step keeps it so.
LEMMA AskedStep == TypeOK /\ PlaceInv /\ AskedInv /\ [Next]_vars => AskedInv'
<1> SUFFICES ASSUME TypeOK, PlaceInv, AskedInv, [Next]_vars PROVE AskedInv'
  OBVIOUS
<1>0. /\ pc \in [Handlers -> PCs] /\ Views \subseteq Handlers
      /\ endpoint \in [Views -> LegacyEndpoints \cup ApiEndpoints \cup {"none"}]
  BY DEF TypeOK, Handlers
<1>1. ASSUME UNCHANGED endpoint, NEW h \in Handlers, NEW label \in PCs, Goto(h, label),
             pc[h] # "start",
             h \in Views /\ label \in {"ask", "read"} =>
               endpoint[h] \in {"routes", "overview", "plugins"}
      PROVE  AskedInv'
  <2>1. \A v \in Views : pc'[v] = IF v = h THEN label ELSE pc[v]
    BY <1>0, <1>1 DEF Goto
  <2> QED
    BY <1>0, <1>1, <2>1, Zenon DEF AskedInv
<1>2. CASE pc' = pc /\ endpoint' = endpoint
  BY <1>2, Zenon DEF AskedInv
<1>3. CASE Edit \/ Serve \/ Exit \/ (\E q \in Proxied : Route(q)) \/ UNCHANGED vars
  BY <1>2, <1>3, Zenon DEF Edit, Serve, Exit, Route, vars, locals
<1>4. ASSUME NEW h \in Handlers, Arrive(h) PROVE AskedInv'
  <2>1. \A v \in Views : pc'[v] = IF v = h THEN "auth" ELSE pc[v]
    BY <1>0, <1>4 DEF Arrive, Goto
  <2>2. CASE h \in Views
    <3>1. PICK e \in LegacyEndpoints \cup ApiEndpoints : endpoint' = [endpoint EXCEPT ![h] = e]
      BY <1>4, <2>2, Zenon DEF Arrive
    <3>2. \A v \in Views : endpoint'[v] = IF v = h THEN e ELSE endpoint[v]
      BY <1>0, <3>1
    <3> QED
      BY <2>1, <3>2 DEF AskedInv
  <2>3. CASE h \notin Views
    <3>1. endpoint' = endpoint
      BY <1>4, <2>3, Zenon DEF Arrive
    <3> QED
      BY <2>1, <2>3, <3>1 DEF AskedInv
  <2> QED
    BY <2>2, <2>3
<1>5. \A label \in {"end", "load", "commit", "swap", "store"} :
        label \in PCs /\ label \notin {"ask", "read"}
  BY DEF PCs
<1>6. \A label \in {"write", "ask", "read"} : label \in PCs
  BY DEF PCs
<1>7. ASSUME NEW h \in Handlers, UNCHANGED endpoint, pc[h] # "start",
             \E label \in {"end", "load", "commit", "swap", "store"} : Goto(h, label)
      PROVE  AskedInv'
  BY <1>1, <1>5, <1>7, Zenon
<1>8. ASSUME NEW h \in Handlers, Drop(h) \/ Unauthorized(h) PROVE AskedInv'
  <2>1. endpoint' = endpoint /\ Goto(h, "end") /\ pc[h] \in {"auth", "write", "read", "store"}
    BY <1>8, Zenon DEF Drop, Unauthorized, Answer
  <2> QED
    BY <1>7, <2>1
<1>9. ASSUME NEW h \in Handlers, Ask(h) PROVE AskedInv'
  <2>1. endpoint' = endpoint /\ pc[h] = "ask" /\ (Goto(h, "write") \/ Goto(h, "read"))
    BY <1>9, Zenon DEF Ask, locals
  <2>2. h \in Views => endpoint[h] \in {"routes", "overview", "plugins"}
    BY <2>1 DEF AskedInv
  <2> QED
    BY <1>1, <1>6, <2>1, <2>2
<1>10. ASSUME NEW r \in Reloads, ReloadStep(r) PROVE AskedInv'
  <2>1. /\ endpoint' = endpoint /\ pc[r] \in {"auth", "load", "write", "commit"}
        /\ \E label \in {"load", "ask", "commit", "end"} : Goto(r, label)
    BY <1>10, Zenon DEF ReloadStep, BeginReload, LoadConfig, Reject, Store, Commit, Answer, locals
  <2>2. \A v \in Views : pc'[v] = pc[v]
    BY <1>0, <2>1, ReloadAssumption DEF Goto
  <2> QED
    BY <2>1, <2>2, Zenon DEF AskedInv
<1>11. ASSUME NEW v \in Views, BeginView(v) PROVE AskedInv'
  <2>1. /\ endpoint' = endpoint /\ pc[v] = "auth"
        /\ \/ endpoint[v] \in {"overview", "routes", "plugins"} /\ Goto(v, "ask")
           \/ Goto(v, "store") \/ Goto(v, "end")
    BY <1>11, Zenon DEF BeginView, Answer
  <2>2. CASE endpoint[v] \in {"overview", "routes", "plugins"} /\ Goto(v, "ask")
    BY <1>0, <1>1, <1>6, <2>1, <2>2
  <2>3. CASE Goto(v, "store") \/ Goto(v, "end")
    BY <1>0, <1>7, <2>1, <2>3
  <2> QED
    BY <2>1, <2>2, <2>3
<1>12. ASSUME NEW v \in Views, ReadConfig(v) \/ LoadState(v) \/ StoreAnswers(v) PROVE AskedInv'
  <2>1. /\ endpoint' = endpoint /\ pc[v] \in {"read", "swap", "store"}
        /\ \E label \in {"swap", "store", "end"} : Goto(v, label)
    BY <1>12, Zenon DEF ReadConfig, LoadState, StoreAnswers, Answer
  <2> QED
    BY <1>0, <1>7, <2>1
<1> QED
  BY <1>3, <1>4, <1>8, <1>9, <1>10, <1>11, <1>12, Zenon DEF Next, Step, ViewStep

\* So it is in every reachable state.
LEMMA AskedHolds == Spec => []AskedInv
<1>1. Init => AskedInv
  BY DEF Init, AskedInv, Handlers
<1> QED
  BY <1>1, PlacesHold, AskedStep, PTL DEF Spec

\* h is the next to be served.
First(h) == writing = {} /\ queue # <<>> /\ Head(queue) = h

\* The guard of one of the steps of h is true: it holds the lock, needs none, or
\* is the next to get it and knows what to do then.
CanGoOn(h) ==
  \/ h \in Reloads /\ pc[h] \in {"load", "ask", "commit"}
  \/ h \in Views /\ pc[h] \in {"ask", "swap", "store"}
  \/ First(h) /\ h \in Reloads /\ pc[h] \in {"auth", "write"}
  \/ /\ First(h) /\ h \in Views
     /\ \/ pc[h] = "auth" /\ endpoint[h] \in LegacyEndpoints \cup ApiEndpoints
        \/ pc[h] = "read" /\ endpoint[h] \in {"routes", "overview", "plugins"}

\* Nobody waits for ever on nobody: whatever was dropped, rejected or not
\* authorized before, as long as some admin request is without its answer one
\* of them can go on.  The line holds exactly those that wait, so the lock is
\* never kept for a connection that went away.
NeverStuck ==
  (\E h \in Handlers : pc[h] \notin {"start", "end"}) => \E g \in Handlers : CanGoOn(g)
THEOREM AdminIsNeverStuck == Spec => []NeverStuck
<1>1. ASSUME TypeOK, PlaceInv, LockInv, LineInv, AskedInv,
             NEW h \in Handlers, pc[h] \notin {"start", "end"}
      PROVE  \E g \in Handlers : CanGoOn(g)
  <2>1. \A g \in Handlers :
          \/ g \in Reloads /\ pc[g] \in {"start", "auth", "load", "ask", "write", "commit", "end"}
          \/ g \in Views /\ pc[g] \in {"start", "auth", "ask", "read", "swap", "store", "end"}
    BY <1>1, Zenon DEF PlaceInv, Handlers
  <2>2. CASE pc[h] \notin Waiting
    <3>1. CanGoOn(h)
      BY <1>1, <2>1, <2>2 DEF CanGoOn, Waiting
    <3> QED
      BY <3>1
  <2>3. CASE pc[h] \in Waiting /\ writing = {}
    <3>1. queue \in Seq(Handlers) /\ Has(queue, h)
      BY <1>1, <2>3, Zenon DEF LineInv
    <3>2. queue # <<>>
      BY <3>1 DEF Has
    <3> DEFINE g == Head(queue)
    <3>3. g \in Handlers /\ Has(queue, g)
      BY <1>1, <3>2, LineIsServed, Zenon DEF LineInv
    <3>4. First(g)
      BY <2>3, <3>2 DEF First
    <3> HIDE DEF g
    <3>5. pc[g] \in Waiting
      BY <1>1, <3>3, Zenon DEF LineInv
    <3>6. CanGoOn(g)
      BY <1>1, <2>1, <3>3, <3>4, <3>5 DEF CanGoOn, Waiting, AskedInv
    <3> QED
      BY <3>3, <3>6
  <2>4. CASE writing # {}
    <3>1. PICK r \in writing : TRUE
      BY <2>4
    <3>2. r \in Reloads /\ r \in Handlers /\ pc[r] = "commit"
      BY <1>1, <3>1 DEF TypeOK, LockInv, Handlers
    <3> QED
      BY <3>2 DEF CanGoOn
  <2> QED
    BY <2>2, <2>3, <2>4
<1>2. TypeOK /\ PlaceInv /\ LockInv /\ LineInv /\ AskedInv => NeverStuck
  BY <1>1, Zenon DEF NeverStuck
<1> QED
  BY <1>2, PlacesHold, LockHolds, LineHolds, AskedHolds, PTL
=============================================================================
