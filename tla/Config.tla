------------------------------- MODULE Config -------------------------------
(***************************************************************************)
(* RawConfig::validate (crates/tracegate-config/src/lib.rs): which         *)
(* configuration files are accepted, and the AppConfig made of them.       *)
(*                                                                         *)
(* A raw configuration is what the TOML parser returns, with the fields of *)
(* the source.  An optional value is a set of at most one, and so is a     *)
(* text that may fail to parse as an address; a URL is a record, with an   *)
(* empty scheme when it does not parse.  Which rule a file breaks first    *)
(* only changes the wording of the error, so the rules are a conjunction.  *)
(***************************************************************************)
EXTENDS Routing, TLC

CONSTANTS
  Trimmed,   \* the texts with blanks around them, without these
  Oddities,  \* the characters of a text other than letters, digits, "-", "_"
  Env,       \* the non-blank environment variables
  Readable,  \* the paths of readable regular files
  Loopback,  \* the loopback addresses
  Reserved   \* host names of the machine itself and of the metadata service

ASSUME TrimmedAssumption == NoName \notin DOMAIN Trimmed

Trim(text) == IF text \in DOMAIN Trimmed THEN Trimmed[text] ELSE text
IsBlank(text) == Trim(text) = NoName
Keyword(text) == InLower(Trim(text))
Odd(text) == IF text \in DOMAIN Oddities THEN Oddities[text] ELSE {}

NonBlank(option) == {Trim(text) : text \in option} \ {NoName}
EnvVar(name) == IF name \in DOMAIN Env THEN {Env[name]} ELSE {}
TheOne(option) == CHOOSE value \in option : TRUE
OrDefault(option, default) == IF option = {} THEN default ELSE TheOne(option)
Between(number, low, high) == low <= number /\ number <= high

\* validate_route_id, validate_plugin_id
LegalId(id) == id # NoName /\ Odd(id) = {}
LegalName(name) == name # NoName /\ Odd(name) \subseteq {"."}

\* The first occurrence of each value stays.
MutantDistinct(s) == s
Distinct(s) ==
  LET kept[n \in 0 .. Len(s)] ==
        IF n = 0 THEN <<>>
        ELSE kept[n - 1] \o IF s[n] \in Members(kept[n - 1]) THEN <<>> ELSE <<s[n]>>
  IN  kept[Len(s)]

\* normalize_redaction_list
ListOK(names) == \A name \in Members(names) : LegalName(Keyword(name))
Normalized(names) == Distinct([i \in DOMAIN names |-> Keyword(names[i])])

-----------------------------------------------------------------------------
(* [server], [admin], [upstream_tls], [observability] *)

Mode(raw) == Keyword(raw.server.mode)
Production(raw) == Mode(raw) = "production"

\* required_or_default
Explicit(option, raw) == option # {} \/ ~Production(raw)

DefaultAdminListen == [ip |-> "127.0.0.1", port |-> 9090]
AdminListen(raw) == OrDefault(raw.server.admin_listen, {DefaultAdminListen})

ServerOK(raw) ==
  /\ Mode(raw) \in {"demo", "production"}
  /\ raw.server.listen # {} /\ AdminListen(raw) # {}

TlsOK(raw) ==
  LET tls == raw.server.tls
      cert == NonBlank(tls.cert_path)
      key == NonBlank(tls.key_path)
  IN  /\ Production(raw) => tls.enabled
      /\ tls.enabled => cert # {} /\ key # {} /\ cert \cup key \subseteq Readable

Token(raw) == UNION {EnvVar(name) : name \in NonBlank(raw.admin.token_env)}

AdminOK(raw) ==
  Production(raw) =>
    /\ raw.admin.allow_internal_network \/ TheOne(AdminListen(raw)).ip \in Loopback
    /\ Token(raw) # {}

UpstreamTlsOK(raw) == NonBlank(raw.upstream_tls.ca_cert_path) \subseteq Readable

ObservabilityOK(raw) ==
  /\ ~IsBlank(raw.observability.service_name)
  /\ ~IsBlank(raw.observability.environment)
  /\ \A url \in raw.observability.otlp_endpoint : url.scheme \in {"http", "https"}

-----------------------------------------------------------------------------
(* [storage], [redaction] *)

DefaultStorage ==
  [driver |-> "sqlite", url |-> [scheme |-> "sqlite", rest |-> "tracegate.db"],
   retention_days |-> 7, max_total_capture_bytes |-> 1073741824,
   max_capture_bytes_per_request |-> 1048576, capture_queue_capacity |-> 1024]

\* What serde puts in the place of a missing [storage] section: limits that
\* count as set.
Limits == DOMAIN DefaultStorage \ {"driver", "url"}
MissingStorage ==
  [driver |-> DefaultStorage.driver, url |-> {DefaultStorage.url}, url_env |-> {}]
  @@ [limit \in Limits |-> {DefaultStorage[limit]}]

StorageUrl(storage) ==
  LET env == NonBlank(storage.url_env)
  IN  CASE storage.url = {} /\ env = {} -> {DefaultStorage.url}
        [] storage.url = {} /\ env # {} -> EnvVar(TheOne(env))
        [] storage.url # {} /\ env = {} -> storage.url
        [] OTHER -> {}

Schemes(driver) ==
  CASE driver = "sqlite" -> {"sqlite"}
    [] driver = "postgres" -> {"postgres", "postgresql"}
    [] OTHER -> {}

Storage(raw) ==
  LET limit(name) == OrDefault(raw.storage[name], DefaultStorage[name])
  IN  [driver |-> Keyword(raw.storage.driver), url |-> TheOne(StorageUrl(raw.storage)),
       retention_days |-> limit("retention_days"),
       max_total_capture_bytes |-> limit("max_total_capture_bytes"),
       max_capture_bytes_per_request |-> limit("max_capture_bytes_per_request"),
       capture_queue_capacity |-> limit("capture_queue_capacity")]

StorageOK(raw) ==
  /\ StorageUrl(raw.storage) # {}
  /\ Storage(raw).url.scheme \in Schemes(Storage(raw).driver)
  /\ \A limit \in Limits : Explicit(raw.storage[limit], raw)
  /\ Between(Storage(raw).retention_days, 1, 365)
  /\ Storage(raw).max_capture_bytes_per_request > 0
  /\ Storage(raw).max_capture_bytes_per_request <= Storage(raw).max_total_capture_bytes
  /\ Between(Storage(raw).capture_queue_capacity, 1, 1000000)

RedactionOK(raw) ==
  \A list \in {"headers", "query_params"} :
    ListOK(raw.redaction[list]) /\ raw.redaction[list] # <<>>

-----------------------------------------------------------------------------
(* [[routes]] *)

Unique(items) == \A i, j \in DOMAIN items : items[i].id = items[j].id => i = j

HostsOK(hosts) ==
  /\ hosts # <<>>
  /\ \A host \in Members(hosts) :
       ~IsBlank(host) /\ (host = "*" \/ Odd(host) \cap {"/", ":"} = {})

PrefixOK(prefix) ==
  /\ prefix # <<>> /\ prefix[1] = Slash
  /\ prefix = Root \/ prefix[Len(prefix)] # Slash

\* is_blocked_upstream_host
Blocked(raw, upstream) ==
  LET admin == TheOne(AdminListen(raw))
  IN  \/ upstream.host \in Loopback \cup Reserved
      \/ upstream.host = admin.ip /\ upstream.port = admin.port

UpstreamOK(raw, upstream) ==
  /\ upstream.scheme \in IF Production(raw) THEN {"https"} ELSE {"http", "https"}
  /\ upstream.host # NoName
  /\ Production(raw) => ~Blocked(raw, upstream)
  /\ upstream.is_origin

CaptureOK(raw, route) ==
  /\ Keyword(route.capture_policy) \in {"off", "errors", "slow", "errors_and_slow", "always"}
  /\ Between(route.slow_threshold_ms, 1, 600000)
  /\ route.capture_response_body_bytes <= Storage(raw).max_capture_bytes_per_request

RouteOK(raw, route) ==
  /\ LegalId(route.id) /\ HostsOK(route.hosts) /\ PrefixOK(route.path_prefix)
  /\ route.upstreams # <<>>
  /\ Between(route.timeout_ms, 1, 60000)
  /\ route.retries <= 3
  /\ Between(route.concurrency_limit, 1, 100000)
  /\ Between(route.passive_health_failures, 1, 100)
  /\ Between(route.passive_health_cooldown_ms, 1, 600000)
  /\ \A upstream \in Members(route.upstreams) : UpstreamOK(raw, upstream)
  /\ CaptureOK(raw, route)

RoutesOK(raw) ==
  /\ raw.routes # <<>> /\ Unique(raw.routes)
  /\ \A route \in Members(raw.routes) : RouteOK(raw, route)

-----------------------------------------------------------------------------
(* [[plugins]] *)

DefaultPlugin == [timeout_ms |-> 5, memory_limit_bytes |-> 16777216, fuel |-> 10000000]

Plugin(plugin) ==
  LET limit(name) == OrDefault(plugin[name], DefaultPlugin[name])
  IN  [id |-> plugin.id, path |-> Trim(plugin.path), routes |-> Distinct(plugin.routes),
       timeout_ms |-> limit("timeout_ms"), memory_limit_bytes |-> limit("memory_limit_bytes"),
       fuel |-> limit("fuel"), body_preview_bytes |-> plugin.body_preview_bytes,
       raw_headers |-> Normalized(plugin.raw_headers),
       config |-> {[entry EXCEPT !.key = Trim(@)] : entry \in plugin.config}]

RouteIds(raw) == {route.id : route \in Members(raw.routes)}

PluginOK(raw, plugin) ==
  /\ LegalId(plugin.id)
  /\ ~IsBlank(plugin.path)
  /\ Keyword(plugin.hook) = "before_request"
  /\ plugin.routes # <<>>
  /\ Members(plugin.routes) \subseteq RouteIds(raw)
  /\ \A limit \in DOMAIN DefaultPlugin : Explicit(plugin[limit], raw)
  /\ Between(Plugin(plugin).timeout_ms, 1, 5000)
  /\ Between(Plugin(plugin).memory_limit_bytes, 65536, 134217728)
  /\ Plugin(plugin).fuel > 0
  /\ plugin.body_preview_bytes <= 65536
  /\ ListOK(plugin.raw_headers)
  /\ \A entry \in plugin.config : LegalName(Trim(entry.key)) /\ entry.length <= 4096

PluginsOK(raw) ==
  Unique(raw.plugins) /\ \A plugin \in Members(raw.plugins) : PluginOK(raw, plugin)

-----------------------------------------------------------------------------
(* validate *)

\* What the types of RawConfig say of a file that parses: where the source has a
\* list, a path or a number, so has the raw configuration.
IsList(s) == s \in Seq(Members(s))
Typed(raw) ==
  /\ \A limit \in Limits : raw.storage[limit] \subseteq Nat
  /\ IsList(raw.routes) /\ IsList(raw.plugins)
  /\ \A route \in Members(raw.routes) :
       /\ {"id", "hosts", "path_prefix", "upstreams", "concurrency_limit", "passive_health_failures",
           "passive_health_cooldown_ms", "capture_response_body_bytes"} \subseteq DOMAIN route
       /\ IsList(route.hosts) /\ IsList(route.path_prefix) /\ IsList(route.upstreams)
       /\ route.capture_response_body_bytes \in Nat
  /\ \A plugin \in Members(raw.plugins) :
       /\ IsList(plugin.routes)
       /\ \A limit \in DOMAIN DefaultPlugin : plugin[limit] \subseteq Nat

Valid(raw) ==
  /\ ServerOK(raw) /\ TlsOK(raw) /\ AdminOK(raw) /\ UpstreamTlsOK(raw)
  /\ ObservabilityOK(raw) /\ StorageOK(raw) /\ RedactionOK(raw)
  /\ RoutesOK(raw) /\ PluginsOK(raw)

AppConfig(raw) ==
  [mode |-> Mode(raw), listen |-> TheOne(raw.server.listen),
   admin_listen |-> TheOne(AdminListen(raw)),
   server_tls |-> [enabled |-> raw.server.tls.enabled,
                   cert_path |-> NonBlank(raw.server.tls.cert_path),
                   key_path |-> NonBlank(raw.server.tls.key_path)],
   admin |-> [token_env |-> NonBlank(raw.admin.token_env), token |-> Token(raw),
              allow_internal_network |-> raw.admin.allow_internal_network],
   upstream_tls |-> NonBlank(raw.upstream_tls.ca_cert_path),
   storage |-> Storage(raw),
   redaction |-> [list \in {"headers", "query_params"} |-> Normalized(raw.redaction[list])],
   prometheus_enabled |-> raw.observability.prometheus_enabled,
   routes |-> [i \in DOMAIN raw.routes |-> [raw.routes[i] EXCEPT !.capture_policy = Keyword(@)]],
   plugins |-> [i \in DOMAIN raw.plugins |-> Plugin(raw.plugins[i])]]
=============================================================================
