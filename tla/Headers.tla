------------------------------ MODULE Headers ------------------------------
(***************************************************************************)
(* What the gateway does to headers and queries (crates/tracegate-proxy/   *)
(* src/lib.rs): what the plugins and the store get to see of a request,    *)
(* what the plugins' decisions do to it, and what is sent upstream.        *)
(*                                                                         *)
(* A HeaderMap is the sequence of its headers <<name, value>>, the names   *)
(* in lower case; a name may occur several times.  A query is a sequence   *)
(* of parameters <<key, value>>, an optional one a set of at most one.     *)
(***************************************************************************)
EXTENDS Integers, Sequences, FiniteSetsExt

CONSTANTS
  Sensitive,        \* redaction.headers
  SensitiveParams,  \* redaction.query_params
  Shown,            \* of a value that is too long or not UTF-8: its replacement
  Uuids             \* the values that are UUIDs

IsList(s) == s \in Seq(Range(s))

\* Those of the headers that have one of the names, in their order.
Only(headers, names) ==
  LET only[n \in 0 .. Len(headers)] ==
        IF n = 0 THEN <<>>
        ELSE only[n - 1] \o IF headers[n][1] \in names THEN <<headers[n]>> ELSE <<>>
  IN  only[Len(headers)]

NamesOf(headers) == {h[1] : h \in Range(headers)}
Named(headers, name) == Only(headers, {name})
Without(headers, names) == Only(headers, NamesOf(headers) \ names)
Get(headers, name) == IF Named(headers, name) = <<>> THEN {} ELSE {Named(headers, name)[1][2]}
Insert(headers, h) == Append(Without(headers, {h[1]}), h)
InsertAll(headers, list) ==
  LET done[n \in 0 .. Len(list)] == IF n = 0 THEN headers ELSE Insert(done[n - 1], list[n])
  IN  done[Len(list)]

\* truncate_header_value and "<non-utf8>"
Text(value) == IF value \in DOMAIN Shown THEN Shown[value] ELSE value
AsText(headers) == [i \in DOMAIN headers |-> <<headers[i][1], Text(headers[i][2])>>]

RequestIdFromHeaders(headers) ==
  IF Get(headers, "x-request-id") \subseteq Uuids /\ Get(headers, "x-request-id") # {}
  THEN CHOOSE id \in Get(headers, "x-request-id") : TRUE
  ELSE "generated"

StoredHeaders(headers) == AsText(Without(headers, Sensitive))
PolicyHeaders(headers) == AsText(headers)

\* A query of which nothing is left is None.
RedactedQuery(query) == {Without(q, SensitiveParams) : q \in query} \ {<<>>}

\* All removals of the chain come before all insertions.
MutantApplyPolicyMutations(headers, sets, removes) == Without(InsertAll(headers, sets), removes)
ApplyPolicyMutations(headers, sets, removes) == InsertAll(Without(headers, removes), sets)

HopByHop ==
  {"connection", "keep-alive", "proxy-authenticate", "proxy-authorization", "te", "trailer",
   "transfer-encoding", "upgrade"}

\* With a tracer the span's own context replaces the client's; without one the
\* client's is passed on, and one is made up when there is none.
InjectContext(headers, traced) ==
  IF traced THEN Insert(headers, <<"traceparent", "span">>)
  ELSE IF Get(headers, "traceparent") = {} THEN Insert(headers, <<"traceparent", "generated">>)
  ELSE headers

\* build_upstream_request; "upstream" and "peer" are the addresses.
BuildUpstreamRequest(template, id, traced) ==
  LET owned == <<<<"host", "upstream">>, <<"x-request-id", id>>>>
      host == [i \in 1 .. Len(Named(template.headers, "host")) |->
                 <<"x-forwarded-host", Named(template.headers, "host")[1][2]>>]
      peer == <<<<"x-forwarded-for", "peer">>, <<"x-forwarded-proto", "http">>>>
  IN  [query |-> template.query,
       headers |-> InjectContext(InsertAll(Without(template.headers, HopByHop),
                                           owned \o host \o peer), traced)]

\* request_once and response_with_request_id: the answer carries the id.
ResponseWithRequestId(headers, id) == Insert(headers, <<"x-request-id", id>>)
=============================================================================
