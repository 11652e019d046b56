------------------------------ MODULE Gateway ------------------------------
(***************************************************************************)
(* The life of the requests of one route through Proxy::handle             *)
(* (crates/tracegate-proxy/src/lib.rs), with hot reloads under them and a  *)
(* shutdown of the server around them.                                     *)
(*                                                                         *)
(* A handler holds the GatewayState it loaded first, hence the semaphore,  *)
(* policy and redaction of that generation, except for the one place that  *)
(* loads the state again.  Its future is dropped only where it awaits: the *)
(* client left, or the runtime did.  What select_upstream may answer is    *)
(* left open here (module UpstreamHealth); where the finished record goes  *)
(* is the subject of module CaptureQueue.  The operators named Mutant...   *)
(* are plausible slips in the code, each caught by a property below.       *)
(***************************************************************************)
EXTENDS Integers, FiniteSets

CONSTANTS
  Requests,  \* requests the clients may send, one per connection
  Limit,     \* concurrency_limit of the route in each configuration
  Retries,   \* route.retries
  MaxGen     \* bound of the model: reloads of the configuration

Gens == 0 .. MaxGen

ASSUME GatewayAssumption ==
  /\ IsFiniteSet(Requests)
  /\ MaxGen \in Nat
  /\ Limit \in [Gens -> Nat \ {0}]
  /\ Retries \in Nat

VARIABLES
  state,     \* generation in the ArcSwap<GatewayState>
  avail,     \* free permits of each generation's semaphore
  returned,  \* serve_listeners_with_config_path is past its accept loop
  pc,        \* where each handler is
  gen,       \* generation of the Arc<GatewayState> the handler holds
  permit,    \* the handler or its finalizer owns a permit
  eligible,  \* retry_eligible(method, headers)
  attempts,  \* calls of request_once
  allowed,   \* policy_evaluation.denied is None
  record,    \* RequestInsert of the handler
  redacted,  \* generation whose redaction the response headers went through
  logged,    \* completion events emitted
  enqueued   \* calls of CaptureWriter::enqueue

server == <<state, avail, returned>>
vars == <<state, avail, returned, pc, gen, permit, eligible, attempts, allowed,
          record, redacted, logged, enqueued>>

PCs == {"closed", "accepted", "route", "preview", "policy", "select", "attempt",
        "conclude", "attach", "body", "ended", "done"}

\* What the properties need of a RequestInsert: the class of its status, and
\* the flags is_error and capture_dropped.
Statuses == {"ok", "4xx", "5xx"}
Record(status, isError, dropped) ==
  [status |-> status, isError |-> isError, dropped |-> dropped]
NoRecord == Record("ok", FALSE, FALSE)

Goto(r, label) == pc' = [pc EXCEPT ![r] = label]

Init ==
  /\ state = 0
  /\ avail = Limit
  /\ returned = FALSE
  /\ pc = [r \in Requests |-> "closed"]
  /\ gen = [r \in Requests |-> 0]
  /\ permit = [r \in Requests |-> FALSE]
  /\ eligible = [r \in Requests |-> FALSE]
  /\ attempts = [r \in Requests |-> 0]
  /\ allowed = [r \in Requests |-> FALSE]
  /\ record = [r \in Requests |-> NoRecord]
  /\ redacted = [r \in Requests |-> 0]
  /\ logged = [r \in Requests |-> 0]
  /\ enqueued = [r \in Requests |-> 0]

-----------------------------------------------------------------------------
(* The server around the handlers *)

\* The accept loop spawns a detached task for the connection.
Accept(r) ==
  /\ pc[r] = "closed" /\ ~returned
  /\ Goto(r, "accepted")
  /\ UNCHANGED <<server, gen, permit, eligible, attempts, allowed, record,
                 redacted, logged, enqueued>>

\* A reload that passed its checks: a new GatewayState, with fresh semaphores,
\* replaces the current one (reload_gateway of admin.rs).
Reload ==
  /\ state < MaxGen
  /\ state' = state + 1
  /\ UNCHANGED <<avail, returned, pc, gen, permit, eligible, attempts, allowed,
                 record, redacted, logged, enqueued>>

\* The shutdown branch of the accept loop breaks and the function returns.
Shutdown ==
  /\ ~returned
  /\ returned' = TRUE
  /\ UNCHANGED <<state, avail, pc, gen, permit, eligible, attempts, allowed,
                 record, redacted, logged, enqueued>>

-----------------------------------------------------------------------------
(* Proxy::handle and handle_instrumented *)

\* The state is loaded once, before anything else is looked at.
Load(r) ==
  /\ pc[r] = "accepted"
  /\ Goto(r, "route")
  /\ gen' = [gen EXCEPT ![r] = state]
  /\ UNCHANGED <<server, permit, eligible, attempts, allowed, record, redacted,
                 logged, enqueued>>

\* Every path to a response logs the completion event, builds the record and
\* goes on to attach_storage_finalizer without an await in between.
Finish(r, rec) ==
  /\ Goto(r, "attach")
  /\ record' = [record EXCEPT ![r] = rec]
  /\ logged' = [logged EXCEPT ![r] = @ + 1]
  /\ UNCHANGED <<server, gen, permit, eligible, attempts, allowed, redacted,
                 enqueued>>

\* 404: no route of the handler's generation matches.
NoRoute(r) ==
  /\ pc[r] = "route"
  /\ Finish(r, Record("4xx", FALSE, FALSE))

\* try_acquire_owned asks the semaphore of the handler's own generation.
MutantCanAcquire(r) == avail[state] > 0
CanAcquire(r) == avail[gen[r]] > 0

\* 503 when it fails.
LimitReached(r) ==
  /\ pc[r] = "route"
  /\ ~CanAcquire(r)
  /\ Finish(r, Record("5xx", TRUE, TRUE))

\* When it succeeds: retry_eligible and whether a plugin of the route wants a
\* body preview depend on the request and the configuration.
Acquire(r) ==
  /\ pc[r] = "route"
  /\ CanAcquire(r)
  /\ Goto(r, "preview") \/ Goto(r, "policy")
  /\ avail' = [avail EXCEPT ![gen[r]] = @ - 1]
  /\ permit' = [permit EXCEPT ![r] = TRUE]
  /\ \E e \in BOOLEAN : eligible' = [eligible EXCEPT ![r] = e]
  /\ UNCHANGED <<state, returned, gen, attempts, allowed, record, redacted,
                 logged, enqueued>>

\* split_body_preview ends ...
PreviewRead(r) ==
  /\ pc[r] = "preview"
  /\ Goto(r, "policy")
  /\ UNCHANGED <<server, gen, permit, eligible, attempts, allowed, record,
                 redacted, logged, enqueued>>

\* ... or the client's body fails: 403.
PreviewFailed(r) ==
  /\ pc[r] = "preview"
  /\ Finish(r, Record("4xx", FALSE, FALSE))

\* PolicyEngine::evaluate allows the request ...
PolicyAllows(r) ==
  /\ pc[r] = "policy"
  /\ Goto(r, "select")
  /\ allowed' = [allowed EXCEPT ![r] = TRUE]
  /\ UNCHANGED <<server, gen, permit, eligible, attempts, record, redacted,
                 logged, enqueued>>

\* The record of a denial.
DenialRecord(s) == Record(s, s = "5xx", FALSE)

\* ... or a plugin denies it, fails or times out.  The plugin picks the status.
MutantPolicyFailsOpen(r) ==
  /\ pc[r] = "policy"
  /\ Goto(r, "select")
  /\ UNCHANGED <<server, gen, permit, eligible, attempts, allowed, record,
                 redacted, logged, enqueued>>
PolicyDenies(r) ==
  /\ pc[r] = "policy"
  /\ \E s \in {"4xx", "5xx"} : Finish(r, DenialRecord(s))

\* select_upstream returns None: 503.
NoUpstream(r) ==
  /\ pc[r] = "select"
  /\ Finish(r, Record("5xx", TRUE, TRUE))

\* select_upstream returns the upstream all attempts go to.
Select(r) ==
  /\ pc[r] = "select"
  /\ Goto(r, "attempt")
  /\ UNCHANGED <<server, gen, permit, eligible, attempts, allowed, record,
                 redacted, logged, enqueued>>

\* The handler has another attempt left: request_with_retries makes
\* retries + 1, the direct call of request_once one.
MutantRetriesAll(r) == attempts[r] < Retries
RetriesLeft(r) == eligible[r] /\ attempts[r] < Retries

\* request_once answers: any response ends the loop ...
AttemptAnswered(r) ==
  /\ pc[r] = "attempt"
  /\ Goto(r, "conclude")
  /\ attempts' = [attempts EXCEPT ![r] = @ + 1]
  /\ \E s \in Statuses : record' = [record EXCEPT ![r] = Record(s, s = "5xx", FALSE)]
  /\ UNCHANGED <<server, gen, permit, eligible, allowed, redacted, logged, enqueued>>

\* ... and a timeout, transport or build error (504, 502) only the last one.
AttemptFailed(r) ==
  /\ pc[r] = "attempt"
  /\ Goto(r, IF RetriesLeft(r) THEN "attempt" ELSE "conclude")
  /\ attempts' = [attempts EXCEPT ![r] = @ + 1]
  /\ record' = [record EXCEPT ![r] =
                  IF RetriesLeft(r) THEN @ ELSE Record("5xx", TRUE, FALSE)]
  /\ UNCHANGED <<server, gen, permit, eligible, allowed, redacted, logged, enqueued>>

\* The result is reported to the route's health and logged.
Conclude(r) ==
  /\ pc[r] = "conclude"
  /\ Finish(r, record[r])

\* The redaction of the response headers is that of the state loaded anew.
ResponseRedaction == state

\* attach_storage_finalizer: the finalizer takes the permit.
Attach(r) ==
  /\ pc[r] = "attach"
  /\ Goto(r, "body")
  /\ redacted' = [redacted EXCEPT ![r] = ResponseRedaction]
  /\ UNCHANGED <<server, gen, permit, eligible, attempts, allowed, record,
                 logged, enqueued>>

-----------------------------------------------------------------------------
(* The response body, and handlers that are dropped *)

\* CaptureFinalizer::finalize runs at most once: the calls it makes.
MutantFinalizeTwice(r) == enqueued' = [enqueued EXCEPT ![r] = @ + 1]
Finalize(r) ==
  enqueued' = [enqueued EXCEPT ![r] = IF pc[r] = "ended" THEN @ ELSE @ + 1]

\* The permit is given back when its owner is dropped.
MutantReleaseCurrent(r) ==
  /\ permit' = [permit EXCEPT ![r] = FALSE]
  /\ avail' = IF permit[r] THEN [avail EXCEPT ![state] = @ + 1] ELSE avail
MutantLeakPermit(r) == UNCHANGED <<permit, avail>>
Release(r) ==
  /\ permit' = [permit EXCEPT ![r] = FALSE]
  /\ avail' = IF permit[r] THEN [avail EXCEPT ![gen[r]] = @ + 1] ELSE avail

\* poll_frame meets the end or an error of the upstream's body.
BodyEnds(r) ==
  /\ pc[r] = "body"
  /\ Goto(r, "ended")
  /\ Finalize(r)
  /\ UNCHANGED <<server, gen, permit, eligible, attempts, allowed, record,
                 redacted, logged>>

\* The CapturingBody is dropped, at its end or before: drop finalizes first,
\* its fields, the permit among them, are dropped after that.
BodyDropped(r) ==
  /\ pc[r] \in {"body", "ended"}
  /\ Goto(r, "done")
  /\ Finalize(r)
  /\ Release(r)
  /\ UNCHANGED <<state, returned, gen, eligible, attempts, allowed, record,
                 redacted, logged>>

\* The connection task is dropped while the handler awaits: nothing is logged
\* or recorded, the permit's destructor runs.
Cancel(r) ==
  /\ pc[r] \in {"accepted", "preview", "policy", "attempt"}
  /\ Goto(r, "done")
  /\ Release(r)
  /\ UNCHANGED <<state, returned, gen, eligible, attempts, allowed, record,
                 redacted, logged, enqueued>>

-----------------------------------------------------------------------------
\* Steps a handler takes without waiting for anybody.
Run(r) ==
  \/ NoRoute(r) \/ LimitReached(r) \/ Acquire(r)
  \/ NoUpstream(r) \/ Select(r) \/ Conclude(r) \/ Attach(r)

\* Steps a timeout bounds: plugin timeouts and route.timeout.
Timed(r) ==
  \/ PolicyAllows(r) \/ PolicyDenies(r)
  \/ AttemptAnswered(r) \/ AttemptFailed(r)

\* Steps that wait for the client, or for the upstream to end its body.
Peer(r) ==
  \/ Load(r) \/ PreviewRead(r) \/ PreviewFailed(r)
  \/ BodyEnds(r) \/ BodyDropped(r) \/ Cancel(r)

Next ==
  \/ Reload \/ Shutdown
  \/ \E r \in Requests : Accept(r) \/ Run(r) \/ Timed(r) \/ Peer(r)

Spec == Init /\ [][Next]_vars

\* Run and Timed come from the scheduler and the timers.  Nothing in the code
\* bounds Peer: its fairness is an assumption on the clients and upstreams,
\* that none of them keeps a connection open and silent for ever.
Fairness == \A r \in Requests : WF_vars(Run(r)) /\ WF_vars(Timed(r)) /\ WF_vars(Peer(r))

FairSpec == Spec /\ Fairness

-----------------------------------------------------------------------------
(* Properties *)

Records == [status : Statuses, isError : BOOLEAN, dropped : BOOLEAN]

\* Type invariant.
TypeOK ==
  /\ state \in Gens
  /\ avail \in [Gens -> Nat]
  /\ returned \in BOOLEAN
  /\ pc \in [Requests -> PCs]
  /\ gen \in [Requests -> Gens]
  /\ permit \in [Requests -> BOOLEAN]
  /\ eligible \in [Requests -> BOOLEAN]
  /\ attempts \in [Requests -> Nat]
  /\ allowed \in [Requests -> BOOLEAN]
  /\ record \in [Requests -> Records]
  /\ redacted \in [Requests -> Gens]
  /\ logged \in [Requests -> Nat]
  /\ enqueued \in [Requests -> Nat]

\* Requests that hold a permit of generation g.
Holders(g) == {r \in Requests : permit[r] /\ gen[r] = g}

\* No path through the handler, no cancellation and no reload loses or forges
\* a permit: for every generation the free permits and the requests that hold
\* one add up to concurrency_limit, also while requests of several
\* generations are in flight.
PermitsConserved ==
  \A g \in Gens : avail[g] + Cardinality(Holders(g)) = Limit[g]

\* An upstream is contacted only for a request that the policy of its own
\* generation allowed and that holds a permit for as long as its response
\* lasts: a plugin that denies, fails or times out keeps it away.
AdmittedOnly ==
  \A r \in Requests :
    /\ attempts[r] > 0 \/ pc[r] \in {"attempt", "conclude"} => allowed[r]
    /\ allowed[r] /\ pc[r] # "done" => permit[r]

\* A request is sent more than once only if it is idempotent and carries no
\* body (retry_eligible), and never more than retries + 1 times.
AttemptsBounded ==
  \A r \in Requests :
    /\ attempts[r] <= Retries + 1
    /\ attempts[r] > 1 => eligible[r]

\* Every request that got a response is logged once and handed to the capture
\* writer once, and its permit is free only after that: a body that ends and
\* is then dropped is not recorded twice.
RecordedOnce ==
  \A r \in Requests :
    /\ logged[r] <= 1 /\ enqueued[r] <= logged[r]
    /\ pc[r] \in {"ended", "done"} => enqueued[r] = logged[r]

\* The flags of a response's record agree with its status on every path: it is
\* an error exactly if the status is 5xx, and marked capture_dropped only for
\* the 503s of the gateway itself, which reached no upstream.
RecordFlags ==
  \A r \in Requests : pc[r] \in {"attach", "body", "ended"} =>
    /\ record[r].isError <=> record[r].status = "5xx"
    /\ record[r].dropped => record[r].status = "5xx" /\ attempts[r] = 0

\* The response headers of a record are never redacted with a configuration
\* older than the one its request headers were redacted with.
RedactionNotOlder ==
  \A r \in Requests : pc[r] \in {"body", "ended"} => redacted[r] >= gen[r]

\* What a handler has done by the time it is at each place: the inductive
\* strengthening of the invariants above, checked on the instance and proved
\* in GatewayProofs.
HandlerOK(r) ==
  /\ gen[r] <= state
  /\ pc[r] \in {"closed", "accepted", "route"} => ~permit[r]
  /\ pc[r] \in {"closed", "accepted", "route", "preview", "policy"} => ~allowed[r]
  /\ pc[r] \in {"select", "attempt", "conclude"} => allowed[r]
  /\ pc[r] \in {"preview", "policy"} \/ (allowed[r] /\ pc[r] # "done") => permit[r]
  /\ attempts[r] > 0 => allowed[r] /\ pc[r] # "select"
  /\ attempts[r] <= IF pc[r] = "attempt" THEN Retries ELSE Retries + 1
  /\ attempts[r] > (IF pc[r] = "attempt" THEN 0 ELSE 1) => eligible[r]
  /\ pc[r] \notin {"attach", "body", "ended", "done"} => logged[r] = 0
  /\ pc[r] \in {"attach", "body", "ended"} => logged[r] = 1
  /\ pc[r] \notin {"ended", "done"} => enqueued[r] = 0
  /\ pc[r] \in {"ended", "done"} => enqueued[r] = logged[r] /\ logged[r] <= 1
  /\ pc[r] \in {"conclude", "attach", "body", "ended"} =>
       /\ record[r].isError <=> record[r].status = "5xx"
       /\ record[r].dropped => record[r].status = "5xx" /\ attempts[r] = 0
  /\ pc[r] \in {"body", "ended"} => redacted[r] >= gen[r]

\* No step of any handler, reload or shutdown takes a handler out of step
\* with what it owns, has sent and has recorded.
HandlerInv == \A r \in Requests : HandlerOK(r)

\* Every connection the server accepted comes to its end, across reloads and a
\* shutdown, and no permit is lost on the way.
RequestsEnd ==
  \A r \in Requests : pc[r] = "accepted" ~> pc[r] = "done" /\ ~permit[r]

\* PLAN.md:516: "Graceful shutdown drains in-flight requests within
\* `shutdown_grace_ms`."
ShutdownDrains ==
  returned => \A r \in Requests : pc[r] \in {"closed", "done"}
=============================================================================
