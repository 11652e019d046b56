------------------------------ MODULE MCReload ------------------------------
(* TLC instance of Reload: two reloads and a view, one proxied request.  The
   files are a demo and a production configuration, legal variations of them
   and one file for each rule of the validation, which breaks just that rule. *)
EXTENDS Reload

CONSTANTS r1, r2, v1, q1

MCReloads == {r1, r2}
MCViews == {v1}
MCProxied == {q1}
MCBearers == {"secret", "wrong"}

MCLower == [Production |-> "production", API |-> "api", Cookie |-> "cookie"]
MCTrimmed == (" Production" :> "Production") @@ (" cookie" :> "cookie") @@ (" " :> "") @@ (" api" :> "api")
MCOddities == ("a.b" :> {"."}) @@ ("a b" :> {" "}) @@ ("api:80" :> {":"})
MCEnv == [TRACEGATE_ADMIN_TOKEN |-> "secret", DB |-> [scheme |-> "postgres", rest |-> "db"]]
MCReadable == {"cert.pem", "key.pem"}
MCLoopback == {"127.0.0.1"}
MCReserved == {"localhost"}
MCComponent == ("guard.wasm" :> {"wasi:io/poll"}) @@ ("files.wasm" :> {"wasi:filesystem/preopens"})

\* "/", "/a", "/a/b" and paths below, beside and above them
A == <<"/", "a">>
AB == <<"/", "a", "/", "b">>
Host(name, port) == {[name |-> name, port |-> port]}
MCTargets ==
  {[host |-> Host("API", "80"), path |-> AB], [host |-> Host("api", ""), path |-> <<"/", "a", "b">>],
   [host |-> Host("", "80"), path |-> AB \o <<"/">>]}

HttpService == [scheme |-> "http", host |-> "service", port |-> 3000, is_origin |-> TRUE]
Service == [HttpService EXCEPT !.scheme = "https"]

DemoRoute(id, hosts, prefix, upstream) ==
  [id |-> id, hosts |-> hosts, path_prefix |-> prefix, upstreams |-> <<upstream>>,
   timeout_ms |-> 3000, retries |-> 0, concurrency_limit |-> 100, passive_health_failures |-> 3,
   passive_health_cooldown_ms |-> 10000, capture_policy |-> "off", slow_threshold_ms |-> 500,
   capture_response_body_bytes |-> 1048576]

DemoPlugin(id, routes) ==
  [id |-> id, path |-> "guard.wasm", hook |-> "before_request", routes |-> routes,
   timeout_ms |-> {}, memory_limit_bytes |-> {}, fuel |-> {}, body_preview_bytes |-> 0,
   raw_headers |-> <<"Cookie", " cookie">>, config |-> {}]

Demo ==
  [server |-> [mode |-> "demo", listen |-> {[ip |-> "10.0.0.1", port |-> 80]}, admin_listen |-> {},
               tls |-> [enabled |-> FALSE, cert_path |-> {}, key_path |-> {}]],
   admin |-> [token_env |-> {}, allow_internal_network |-> FALSE],
   upstream_tls |-> [ca_cert_path |-> {}],
   observability |-> [service_name |-> "tracegate", environment |-> "local",
                      otlp_endpoint |-> {}, prometheus_enabled |-> FALSE],
   storage |-> MissingStorage,
   redaction |-> [headers |-> <<"cookie">>, query_params |-> <<"token">>],
   routes |-> <<DemoRoute("all", <<"*">>, Root, HttpService), DemoRoute("a", <<"api">>, A, HttpService)>>,
   plugins |-> <<DemoPlugin("guard", <<"a", "all", "a">>)>>]

Limited(plugin) == [plugin EXCEPT !.timeout_ms = {5}, !.memory_limit_bytes = {65536}, !.fuel = {1}]

Prod ==
  [Demo EXCEPT
     !.server = [@ EXCEPT !.mode = " Production",
                          !.tls = [enabled |-> TRUE, cert_path |-> {"cert.pem"}, key_path |-> {"key.pem"}]],
     !.admin.token_env = {"TRACEGATE_ADMIN_TOKEN"},
     !.observability.prometheus_enabled = TRUE,
     !.storage = [@ EXCEPT !.driver = "postgres", !.url = {}, !.url_env = {"DB"}],
     !.routes = <<DemoRoute("all", <<"*">>, Root, Service), DemoRoute("a", <<"api">>, A, Service)>>,
     !.plugins = <<Limited(DemoPlugin("guard", <<"a", "all", "a">>))>>]

\* Files that a reload accepts in a server started with prod.
Legal ==
  [prod |-> Prod,
   routes |-> [Prod EXCEPT !.routes = <<DemoRoute("ab", <<"*">>, AB, Service), DemoRoute("first", <<"*">>, A, Service),
                                        DemoRoute("second", <<"api">>, A, Service)>>,
                           !.plugins = <<Limited(DemoPlugin("one", <<"ab">>)), Limited(DemoPlugin("two", <<"first">>)),
                                         Limited(DemoPlugin("three", <<"ab", "second">>))>>]]

\* Files that are accepted as such, but not by a server started with prod.
Other ==
  [demo |-> Demo,
   port |-> [Prod EXCEPT !.server.listen = {[ip |-> "10.0.0.1", port |-> 443]}],
   internal |-> [Prod EXCEPT !.server.admin_listen = {{[ip |-> "10.0.0.1", port |-> 9090]}},
                             !.admin.allow_internal_network = TRUE],
   otherenv |-> [Prod EXCEPT !.admin.token_env = {"OTHER"}, !.server.mode = "demo"],
   days |-> [Prod EXCEPT !.storage.retention_days = {30}],
   files |-> [Prod EXCEPT !.plugins[1].path = "files.wasm"],
   section |-> [Prod EXCEPT !.storage = MissingStorage],
   untrimmed |-> [Demo EXCEPT !.routes[2].hosts = <<" api">>]]

\* Files that are refused.
Broken ==
  [mode |-> [Prod EXCEPT !.server.mode = "test"],
   listen |-> [Prod EXCEPT !.server.listen = {}],
   adminlisten |-> [Prod EXCEPT !.server.admin_listen = {{}}],
   plain |-> [Prod EXCEPT !.server.tls.enabled = FALSE],
   cert |-> [Prod EXCEPT !.server.tls.cert_path = {" "}],
   key |-> [Prod EXCEPT !.server.tls.key_path = {"missing.pem"}],
   external |-> [Prod EXCEPT !.server.admin_listen = {{[ip |-> "10.0.0.1", port |-> 9090]}}],
   token |-> [Prod EXCEPT !.admin.token_env = {"UNSET"}],
   ca |-> [Prod EXCEPT !.upstream_tls.ca_cert_path = {"missing.pem"}],
   service |-> [Prod EXCEPT !.observability.service_name = " "],
   otlp |-> [Prod EXCEPT !.observability.otlp_endpoint = {[scheme |-> "ftp"]}],
   driver |-> [Prod EXCEPT !.storage.driver = "mysql"],
   scheme |-> [Prod EXCEPT !.storage.driver = "sqlite"],
   bothurls |-> [Prod EXCEPT !.storage.url = {DefaultStorage.url}],
   urlenv |-> [Prod EXCEPT !.storage.url_env = {"UNSET"}],
   implicit |-> [Prod EXCEPT !.storage.retention_days = {}],
   nodays |-> [Prod EXCEPT !.storage.retention_days = {0}],
   budget |-> [Prod EXCEPT !.storage.max_total_capture_bytes = {1000}],
   queue |-> [Prod EXCEPT !.storage.capture_queue_capacity = {0}],
   redaction |-> [Prod EXCEPT !.redaction.headers = <<>>],
   header |-> [Prod EXCEPT !.redaction.headers = <<"a b">>],
   noroutes |-> [Prod EXCEPT !.routes = <<>>],
   twins |-> [Prod EXCEPT !.routes[2].id = "all", !.plugins = <<>>],
   routeid |-> [Prod EXCEPT !.routes[2].id = "a.b", !.plugins = <<>>],
   host |-> [Prod EXCEPT !.routes[2].hosts = <<"api:80">>],
   prefix |-> [Prod EXCEPT !.routes[2].path_prefix = A \o Root],
   nowhere |-> [Prod EXCEPT !.routes[2].upstreams = <<>>],
   http |-> [Prod EXCEPT !.routes[2].upstreams = <<HttpService>>],
   itself |-> [Prod EXCEPT !.routes[2].upstreams = <<[Service EXCEPT !.host = "localhost"]>>],
   path |-> [Prod EXCEPT !.routes[2].upstreams = <<[Service EXCEPT !.is_origin = FALSE]>>],
   permits |-> [Prod EXCEPT !.routes[2].concurrency_limit = 0],
   failures |-> [Prod EXCEPT !.routes[2].passive_health_failures = 0],
   capture |-> [Prod EXCEPT !.routes[2].capture_response_body_bytes = 1048577],
   policy |-> [Prod EXCEPT !.routes[2].capture_policy = "some"],
   unknown |-> [Prod EXCEPT !.plugins[1].routes = <<"b">>],
   hook |-> [Prod EXCEPT !.plugins[1].hook = "after"],
   nofuel |-> [Prod EXCEPT !.plugins[1].fuel = {0}],
   nolimit |-> [Prod EXCEPT !.plugins[1].timeout_ms = {}],
   memory |-> [Prod EXCEPT !.plugins[1].memory_limit_bytes = {65535}],
   preview |-> [Prod EXCEPT !.plugins[1].body_preview_bytes = 65537],
   value |-> [Prod EXCEPT !.plugins[1].config = {[key |-> "a", length |-> 4097]}]]

MCParsed == Legal @@ Other @@ Broken
MCFiles == DOMAIN MCParsed \cup {"unparsable"}
MCStarted == {"prod", "demo", "unparsable"} \cup DOMAIN Broken
MCSaved == {"routes", "port", "files", "unparsable"}

\* The validation tells the legal files from the broken ones.
ASSUME ValidationDecides == Accepted = DOMAIN Legal \cup DOMAIN Other
=============================================================================
