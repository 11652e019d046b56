------------------------------- MODULE Routing -------------------------------
(***************************************************************************)
(* Which route, which runtime and which plugins a request gets: the Router *)
(* (crates/tracegate-core/src/lib.rs) and what GatewayState::new and       *)
(* PolicyEngine::new build from a list of routes and a list of plugins.    *)
(*                                                                         *)
(* A path is a sequence of characters.  A host is a name; a Host header is *)
(* a name and a port, and an optional value is a set of at most one.       *)
(***************************************************************************)
EXTENDS Integers, Sequences, FiniteSets

CONSTANT
  Lower  \* ASCII lower case of the names that are not spelled that way

NoName == ""

\* Lower case has no lower case of its own, and keeps the length.
ASSUME LowerAssumption ==
  /\ NoName \notin DOMAIN Lower
  /\ \A name \in DOMAIN Lower : Lower[name] \notin DOMAIN Lower \cup {NoName}

InLower(name) == IF name \in DOMAIN Lower THEN Lower[name] ELSE name

Members(s) == {s[i] : i \in DOMAIN s}

-----------------------------------------------------------------------------
(* Router *)

\* The port goes, and an empty name is no host.
NormalizeHost(header) == {InLower(h.name) : h \in {x \in header : x.name # NoName}}

HostMatches(route, host) ==
  \E candidate \in Members(route.hosts) :
    \/ candidate = "*"
    \/ \E h \in host : InLower(candidate) = InLower(h)

Slash == "/"
Root == <<Slash>>

StartsWith(path, prefix) ==
  Len(prefix) <= Len(path) /\ \A i \in 1 .. Len(prefix) : path[i] = prefix[i]

\* A prefix ends where a segment ends.
MutantPathMatches(prefix, path) == prefix = Root \/ StartsWith(path, prefix)
PathMatches(prefix, path) ==
  \/ prefix = Root
  \/ path = prefix
  \/ StartsWith(path, prefix) /\ Len(prefix) < Len(path) /\ path[Len(prefix) + 1] = Slash

Candidates(routes, header, path) ==
  {i \in DOMAIN routes :
     /\ HostMatches(routes[i], NormalizeHost(header))
     /\ PathMatches(routes[i].path_prefix, path)}

\* The order of max_by: the longer prefix, then the earlier route.
Beats(routes, i, j) ==
  \/ Len(routes[i].path_prefix) > Len(routes[j].path_prefix)
  \/ Len(routes[i].path_prefix) = Len(routes[j].path_prefix) /\ i < j

\* The index of the route that a request gets.
MatchRoute(routes, header, path) ==
  LET found == Candidates(routes, header, path)
  IN  {i \in found : \A j \in found \ {i} : Beats(routes, i, j)}

-----------------------------------------------------------------------------
(* GatewayState::new *)

\* route_runtime: for an id the route whose runtime is found under it, which is
\* the one inserted last.
RouteRuntime(routes) ==
  [id \in {route.id : route \in Members(routes)} |->
     CHOOSE i \in DOMAIN routes :
       /\ routes[i].id = id
       /\ \A j \in DOMAIN routes : routes[j].id = id => j <= i]

\* route_plugins: an index is pushed for each time that its plugin names the route.
RoutePlugins(plugins, id) ==
  LET named(i) == {j \in DOMAIN plugins[i].routes : plugins[i].routes[j] = id}
      chain[n \in 0 .. Len(plugins)] ==
        IF n = 0 THEN <<>> ELSE chain[n - 1] \o [k \in 1 .. Cardinality(named(n)) |-> n]
  IN  chain[Len(plugins)]

\* validate_component: a plugin may import nothing but its own types and parts of
\* wasi that give it neither files nor sockets.
AllowedImports ==
  {"tracegate:policy/types", "wasi:io/poll", "wasi:io/error", "wasi:io/streams",
   "wasi:cli/environment", "wasi:cli/exit", "wasi:cli/stdin", "wasi:cli/stdout",
   "wasi:cli/stderr", "wasi:cli/terminal-input", "wasi:cli/terminal-output",
   "wasi:cli/terminal-stdin", "wasi:cli/terminal-stdout", "wasi:cli/terminal-stderr"}
ComponentAccepted(imports) == imports \subseteq AllowedImports

-----------------------------------------------------------------------------
(* Reference definitions *)

\* The segments of a path, the empty one after a trailing slash included.
Segments(path) ==
  LET ends == {i \in DOMAIN path : i = Len(path) \/ path[i + 1] = Slash}
  IN  {SubSeq(path, 1, i) : i \in ends}

\* A route is below another one when it takes a part of its paths.
Within(path, prefix) == prefix = Root \/ prefix \in Segments(path)
==============================================================================
