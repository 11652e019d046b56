---------------------------- MODULE PolicyEngine ----------------------------
(***************************************************************************)
(* PolicyEngine::evaluate (crates/tracegate-wasm/src/lib.rs): the chain of *)
(* before_request plugins of a route, run for several requests at once on  *)
(* one wasmtime Engine; and what the handler (crates/tracegate-proxy/      *)
(* src/lib.rs) gives to the plugins, sends upstream and stores.            *)
(*                                                                         *)
(* A plugin call is a blocking task of its own.  The handler waits for it  *)
(* no longer than the plugin's timeout and then increments the epoch of    *)
(* the engine, which all calls on it share; the task itself goes on until  *)
(* the guest notices or its fuel is used up.  When wasmtime notices is     *)
(* external: at its next check, so a call may also end before.  The        *)
(* operators named Mutant... are plausible slips in the code, each caught  *)
(* by a property below.                                                    *)
(***************************************************************************)
EXTENDS Headers

CONSTANTS
  Requests,  \* requests under evaluation
  Client,    \* of each: headers, optional query, length of the body
  Plugins,   \* loaded: raw_headers, body_preview_bytes, and what the guest does
  Chain,     \* of each request: the plugins on its route
  Fuel,      \* fuel of a call, in units of guest work
  Statuses,  \* status codes a plugin may deny with
  Replies    \* headers of the answers an upstream may give

ASSUME PolicyAssumption ==
  /\ Chain \in [Requests -> Seq(Plugins)]
  /\ \A r \in Requests :
       IsList(Client[r].headers) /\ (\A q \in Client[r].query : IsList(q)) /\ Client[r].body \in Nat
  /\ \A p \in Plugins : p.body_preview_bytes \in Nat /\ \A deed \in p.guest : IsList(deed.sets)
  /\ \A reply \in Replies : IsList(reply)
  /\ Fuel \in Nat
  /\ Statuses \subseteq Nat

VARIABLES
  epoch,     \* the epoch of the engine
  pc,        \* next, await, allowed, denied, dropped or done, of each request
  records,   \* evaluation.records
  denied,    \* status of evaluation.denied, 0 for None
  sets,      \* evaluation.set_headers
  removes,   \* evaluation.remove_headers
  input,     \* of the latest call: the plugin and what it was given
  task,      \* its blocking task: none, queued, running or ended
  deadline,  \* epoch deadline of its store
  fuel,      \* fuel left in its store
  result,    \* what the task returned
  outcome    \* request sent upstream, answer and stored record, at most one

evaluation == <<records, denied, sets, removes>>
call == <<input, task, deadline, fuel, result>>
vars == <<epoch, pc, evaluation, call, outcome>>

\* A result is a decision of the plugin or an error: a trap, no fuel, an
\* epoch past the deadline, a decision that normalize_decision refuses.
Error == [kind |-> "error", status |-> 0, sets |-> <<>>, removes |-> {}, events |-> {}]
NoInput == [index |-> 0, headers |-> <<>>, query |-> {}, body_preview |-> {}]

Init ==
  /\ epoch = 0
  /\ pc = [r \in Requests |-> "next"]
  /\ records = [r \in Requests |-> <<>>]
  /\ denied = [r \in Requests |-> 0]
  /\ sets = [r \in Requests |-> <<>>]
  /\ removes = [r \in Requests |-> {}]
  /\ input = [r \in Requests |-> NoInput]
  /\ task = [r \in Requests |-> "none"]
  /\ deadline = [r \in Requests |-> 0]
  /\ fuel = [r \in Requests |-> 0]
  /\ result = [r \in Requests |-> Error]
  /\ outcome = [r \in Requests |-> {}]

Goto(r, label) == pc' = [pc EXCEPT ![r] = label]

-----------------------------------------------------------------------------
(* evaluate *)

\* max_body_preview_bytes of the route, and what split_body_preview reads of a
\* body (module BodyCapture).
PreviewRead(r) ==
  LET limit == Max({0} \cup {p.body_preview_bytes : p \in Range(Chain[r])})
  IN  IF limit = 0 THEN {} ELSE {Min({limit, Client[r].body})}

\* input_for: a plugin gets the client's headers, the sensitive ones only if it
\* names them, the redacted query, and of the body as much as it asks for.
MutantInputHeaders(headers, plugin) == headers
InputHeaders(headers, plugin) == Without(headers, Sensitive \ plugin.raw_headers)
InputFor(r, i) ==
  LET plugin == Chain[r][i]
  IN  [index |-> i,
       headers |-> InputHeaders(PolicyHeaders(Client[r].headers), plugin),
       query |-> RedactedQuery(Client[r].query),
       body_preview |-> IF plugin.body_preview_bytes = 0 THEN {}
                        ELSE {Min({n, plugin.body_preview_bytes}) : n \in PreviewRead(r)}]

\* spawn_blocking for the next plugin of the chain ...
Spawn(r) ==
  /\ pc[r] = "next" /\ Len(records[r]) < Len(Chain[r])
  /\ Goto(r, "await")
  /\ input' = [input EXCEPT ![r] = InputFor(r, Len(records[r]) + 1)]
  /\ task' = [task EXCEPT ![r] = "queued"]
  /\ UNCHANGED <<epoch, evaluation, deadline, fuel, result, outcome>>

\* ... or the evaluation when all have allowed the request.
Return(r) ==
  /\ pc[r] = "next" /\ Len(records[r]) = Len(Chain[r])
  /\ Goto(r, "allowed")
  /\ UNCHANGED <<epoch, evaluation, call, outcome>>

\* deny.status of normalize_decision
NormalStatus(s) == IF s \in 400 .. 599 THEN s ELSE 403

\* The record of a call: record_from_decision and error_record.  It keeps the
\* names of the headers that were set, not their values.
RecordOf(res, timedOut) ==
  [action |-> IF res.kind = "allow" THEN "allow" ELSE "deny",
   sets |-> [i \in DOMAIN res.sets |-> res.sets[i][1]], removes |-> res.removes,
   events |-> res.events, timedOut |-> timedOut, error |-> res.kind = "error"]

\* The evaluation goes on after an allow and breaks after anything else.
MutantSettle(r, res, timedOut) ==
  /\ records' = [records EXCEPT ![r] = Append(@, RecordOf(res, timedOut))]
  /\ sets' = [sets EXCEPT ![r] = @ \o res.sets]
  /\ removes' = [removes EXCEPT ![r] = @ \cup res.removes]
  /\ Goto(r, IF res.kind = "deny" THEN "denied" ELSE "next")
  /\ denied' = [denied EXCEPT ![r] =
                  IF res.kind = "deny" THEN NormalStatus(res.status) ELSE 0]
Settle(r, res, timedOut) ==
  /\ records' = [records EXCEPT ![r] = Append(@, RecordOf(res, timedOut))]
  /\ sets' = [sets EXCEPT ![r] = @ \o res.sets]
  /\ removes' = [removes EXCEPT ![r] = @ \cup res.removes]
  /\ Goto(r, IF res.kind = "allow" THEN "next" ELSE "denied")
  /\ denied' = [denied EXCEPT ![r] =
                  IF res.kind = "allow" THEN 0
                  ELSE IF res.kind = "deny" THEN NormalStatus(res.status) ELSE 403]

\* The task ended in time.
Receive(r) ==
  /\ pc[r] = "await" /\ task[r] = "ended"
  /\ Settle(r, result[r], FALSE)
  /\ task' = [task EXCEPT ![r] = "none"]
  /\ UNCHANGED <<epoch, input, deadline, fuel, result, outcome>>

\* The timeout fires first; timeout() prefers the task when both are ready.
MutantTimeout(r) ==
  /\ pc[r] = "await" /\ task[r] = "running"
  /\ Settle(r, Error, TRUE)
  /\ epoch' = epoch + 1
  /\ UNCHANGED <<call, outcome>>
Timeout(r) ==
  /\ pc[r] = "await" /\ task[r] # "ended"
  /\ Settle(r, Error, TRUE)
  /\ epoch' = epoch + 1
  /\ UNCHANGED <<call, outcome>>

\* The connection task is dropped while it awaits the call; the blocking
\* task stays, and no epoch is incremented for it.
Cancel(r) ==
  /\ pc[r] = "await"
  /\ Goto(r, "dropped")
  /\ UNCHANGED <<epoch, evaluation, call, outcome>>

-----------------------------------------------------------------------------
(* LoadedPlugin::call on a thread of the blocking pool *)

\* store_for: the deadline is one epoch after the present one.
MutantDeadlineNow == epoch + 2
DeadlineNow == epoch + 1

StartCall(r) ==
  /\ task[r] = "queued"
  /\ task' = [task EXCEPT ![r] = "running"]
  /\ deadline' = [deadline EXCEPT ![r] = DeadlineNow]
  /\ fuel' = [fuel EXCEPT ![r] = Fuel]
  /\ UNCHANGED <<epoch, pc, evaluation, input, result, outcome>>

\* The guest works.
MutantFuelAfter(r) == IF fuel[r] = 1 THEN Fuel ELSE fuel[r] - 1
FuelAfter(r) == fuel[r] - 1

Work(r) ==
  /\ task[r] = "running" /\ epoch < deadline[r] /\ fuel[r] > 0
  /\ fuel' = [fuel EXCEPT ![r] = FuelAfter(r)]
  /\ UNCHANGED <<epoch, pc, evaluation, input, task, deadline, result, outcome>>

\* What guest code can do, given its input: set headers to values it was shown
\* or made up itself ("own"), remove headers, and emit values in events.
Value(shown, source) == IF source = "own" THEN {source} ELSE Get(shown, source)
Able(shown, deed) ==
  \A source \in {h[2] : h \in Range(deed.sets)} \cup deed.events : Value(shown, source) # {}
Decision(shown, deed, kind, status) ==
  [kind |-> kind, status |-> status, removes |-> deed.removes,
   sets |-> [i \in DOMAIN deed.sets |->
               <<deed.sets[i][1], CHOOSE v \in Value(shown, deed.sets[i][2]) : TRUE>>],
   events |-> UNION {Value(shown, source) : source \in deed.events}]

Decisions(r) ==
  LET shown == input[r].headers
      deeds == {deed \in Chain[r][input[r].index].guest : Able(shown, deed)}
  IN  {Decision(shown, deed, "allow", 0) : deed \in deeds}
        \cup {Decision(shown, deed, "deny", status) : status \in Statuses, deed \in deeds}

\* It returns a decision, or fails: a trap of its own, no fuel left, the epoch
\* past its deadline, or a decision that normalize_decision refuses.
EndCall(r) ==
  /\ task[r] = "running"
  /\ task' = [task EXCEPT ![r] = "ended"]
  /\ \E res \in {Error} \cup Decisions(r) :
       result' = [result EXCEPT ![r] = res]
  /\ UNCHANGED <<epoch, pc, evaluation, input, deadline, fuel, outcome>>

-----------------------------------------------------------------------------
(* The handler, once the evaluation has returned *)

\* What is stored of the request was taken from it when it came in.
Stored(r, response) ==
  [id |-> RequestIdFromHeaders(Client[r].headers),
   request |-> StoredHeaders(Client[r].headers), query |-> RedactedQuery(Client[r].query),
   response |-> StoredHeaders(response), plugin_decisions |-> records[r]]

Finish(r, sent, reply) ==
  LET response == ResponseWithRequestId(reply, RequestIdFromHeaders(Client[r].headers))
  IN  /\ outcome' = [outcome EXCEPT ![r] =
                       {[sent |-> sent, response |-> response, stored |-> Stored(r, response)]}]
      /\ Goto(r, "done")
      /\ UNCHANGED <<epoch, evaluation, call>>

Deny(r) == pc[r] = "denied" /\ Finish(r, {}, <<>>)

\* The upstream answers, or the gateway does when it fails; module Gateway has
\* the selection, the attempts and the errors between.
Forward(r) ==
  /\ pc[r] = "allowed"
  /\ \E traced \in BOOLEAN, reply \in Replies :
       LET template == [query |-> Client[r].query,
                        headers |-> ApplyPolicyMutations(Client[r].headers, sets[r], removes[r])]
       IN  Finish(r, {BuildUpstreamRequest(template, RequestIdFromHeaders(Client[r].headers), traced)},
                  reply)

Evaluate(r) == Spawn(r) \/ Return(r) \/ Receive(r) \/ Timeout(r)
Guest(r) == StartCall(r) \/ Work(r) \/ EndCall(r)

Next == \E r \in Requests : Evaluate(r) \/ Guest(r) \/ Cancel(r) \/ Deny(r) \/ Forward(r)

Spec == Init /\ [][Next]_vars

\* The timers fire; nothing is assumed of the guests.
TimerSpec == Spec /\ \A r \in Requests : WF_vars(Evaluate(r))

\* The threads of the blocking pool run; of the guest nothing is assumed.
PoolRuns == \A r \in Requests : WF_vars(Guest(r))

-----------------------------------------------------------------------------
(* Properties *)

\* PLAN.md:459 and PLAN.md:509: a request goes upstream only when each plugin
\* of its route has answered "allow" in time; an error, a trap caused by the
\* timeout of some other request, or a timeout denies it.  The records explain
\* the outcome: a denial is the last of them and the only one that is not an
\* allow, so no plugin runs after one that denied; and its status is that of an
\* error response, whatever the plugin asked for.
FailClosed ==
  \A r \in Requests :
    /\ pc[r] = "allowed" \/ (\E o \in outcome[r] : o.sent # {}) =>
         /\ Len(records[r]) = Len(Chain[r])
         /\ \A i \in DOMAIN records[r] :
              records[r][i].action = "allow" /\ ~records[r][i].timedOut /\ ~records[r][i].error
    /\ Len(records[r]) <= Len(Chain[r])
    /\ {i \in DOMAIN records[r] : records[r][i].action = "deny"} =
         IF denied[r] # 0 THEN {Len(records[r])} ELSE {}
    /\ denied[r] \in {0} \cup 400 .. 599

\* The values of header name in the request sent for r, in terms of what the
\* client sent and the plugins decided.
Wanted(r, name) ==
  LET last == {i \in DOMAIN sets[r] : sets[r][i][1] = name
                 /\ \A j \in DOMAIN sets[r] : sets[r][j][1] = name => j <= i}
  IN  IF last # {} THEN <<sets[r][CHOOSE i \in last : TRUE][2]>>
      ELSE IF name \in removes[r] THEN <<>>
      ELSE [i \in DOMAIN Named(Client[r].headers, name) |-> Named(Client[r].headers, name)[i][2]]

\* Whatever the plugins of the chain set and removed, and whatever the client
\* sent under these names: the upstream gets no hop-by-hop header, the
\* gateway's own host, request id and forwarding headers, of what the plugins
\* set the last, and everything else as the client sent it, with the whole
\* query.  The id is the one of the answer and of the stored record.
ForwardedFaithful ==
  \A r \in Requests : \A o \in outcome[r] : \A sent \in o.sent :
    LET Sent(name) == [i \in DOMAIN Named(sent.headers, name) |-> Named(sent.headers, name)[i][2]]
        names == {h[1] : h \in Range(sent.headers) \cup Range(Client[r].headers) \cup Range(sets[r])}
        own == {"host", "x-request-id", "x-forwarded-for", "x-forwarded-host", "x-forwarded-proto",
                "traceparent"}
    IN  /\ \A name \in names \ own :
             Sent(name) = IF name \in HopByHop THEN <<>> ELSE Wanted(r, name)
        /\ Sent("host") = <<"upstream">> /\ Sent("x-forwarded-for") = <<"peer">>
        /\ Sent("x-forwarded-host") = IF Wanted(r, "host") = <<>> THEN Wanted(r, "x-forwarded-host")
                                      ELSE <<Wanted(r, "host")[1]>>
        /\ Sent("traceparent") \in {<<"span">>, <<"generated">>, Wanted(r, "traceparent")} \ {<<>>}
        /\ sent.query = Client[r].query
        /\ Sent("x-request-id") = <<o.stored.id>> /\ {o.stored.id} = Get(o.response, "x-request-id")

\* PLAN.md:511: "Sensitive headers and query parameters are redacted before
\* logs, storage, and replay; plugin input receives only safe headers plus
\* explicit per-plugin raw_headers allowlist entries."  What is stored of
\* headers and queries is not sensitive, also when a plugin which may see a
\* sensitive value has put it under another name; the events of a plugin hold
\* only what it made up and values that it may see.  And no plugin is given a
\* sensitive header that it does not name, or more of the body than it asks
\* for because another plugin of the route asks for more.
Safe(headers, known) ==
  {<<h[1], Text(h[2])>> : h \in {x \in Range(headers) : x[1] \notin Sensitive \ known}}
SafeParams(query) == {p \in UNION {Range(q) : q \in query} : p[1] \notin SensitiveParams}
SecretsContained ==
  \A r \in Requests :
    LET headers == Client[r].headers
        query == Client[r].query
        Visible(i) == Safe(headers, Chain[r][i].raw_headers)
    IN  /\ \A o \in outcome[r] :
             /\ Range(o.stored.request) \subseteq Safe(headers, {})
             /\ UNION {Range(q) : q \in o.stored.query} \subseteq SafeParams(query)
             /\ Range(o.stored.response) \subseteq Safe(o.response, {})
             /\ \A i \in DOMAIN o.stored.plugin_decisions :
                  o.stored.plugin_decisions[i].events \subseteq {"own"} \cup {h[2] : h \in Visible(i)}
        /\ input[r].index # 0 =>
             /\ Range(input[r].headers) \subseteq Visible(input[r].index)
             /\ UNION {Range(q) : q \in input[r].query} \subseteq SafeParams(query)
             /\ \A n \in input[r].body_preview :
                  n <= Chain[r][input[r].index].body_preview_bytes /\ n <= Client[r].body

\* A timeout puts the call it gives up on past its epoch deadline at once if
\* that call has begun, however many others share the engine; it then does no
\* more work.
TimedOut(r) == \E i \in DOMAIN records[r] : records[r][i].timedOut
TimeoutInterrupts ==
  [][\A r \in Requests :
       pc[r] = "await" /\ task[r] = "running" /\ TimedOut(r)' => epoch' >= deadline'[r]]_vars

\* Every evaluation ends, whatever the guests and the blocking pool do.
EvaluationEnds ==
  \A r \in Requests : pc[r] = "await" ~> pc[r] # "await"

\* Every plugin call ends: also one whose request is gone, and one that began
\* after its timeout and that no epoch interrupts, because its fuel runs out.
CallsEnd ==
  PoolRuns => \A r \in Requests : task[r] = "queued" ~> task[r] \in {"ended", "none"}
=============================================================================
