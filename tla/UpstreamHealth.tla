--------------------------- MODULE UpstreamHealth ---------------------------
(***************************************************************************)
(* Passive upstream health and round-robin selection of one route          *)
(* (RouteRuntime in crates/tracegate-proxy/src/lib.rs).                    *)
(*                                                                         *)
(* Every request handler runs select_upstream and, once the upstream has   *)
(* answered, record_upstream_result.  Both touch only Relaxed atomics, so  *)
(* each atomic operation is one step here and the handlers interleave      *)
(* between any two of them.  A handler slot is reused for the next request *)
(* when it is back in "idle".                                              *)
(***************************************************************************)
EXTENDS Integers, FiniteSets

CONSTANTS
  Requests,    \* slots of concurrently running request handlers
  NumUpstreams,\* route.upstreams.len()
  Threshold,   \* passive_health_failures
  Cooldown,    \* passive_health_cooldown, in clock ticks
  Wrap,        \* 2^64 in the code: the width of the AtomicUsize next_upstream
  MaxTime      \* bound of the model: the clock stops here

ASSUME HealthAssumption ==
  /\ IsFiniteSet(Requests)
  /\ NumUpstreams \in Nat \ {0}
  /\ Threshold \in Nat \ {0}
  /\ Cooldown \in Nat \ {0}
  /\ Wrap \in Nat \ {0}
  /\ MaxTime \in Nat

Upstreams == 0 .. NumUpstreams - 1

VARIABLES
  next,        \* next_upstream
  failures,    \* failures of each UpstreamRuntime
  until,       \* unhealthy_until_ms of each UpstreamRuntime
  now,         \* the wall clock behind now_ms()
  pc,          \* where each handler is
  at,          \* the handler's upstream index
  tried,       \* iterations of the scan loop done
  scanNow,     \* `now` local of select_upstream
  deadline,    \* value about to be stored in unhealthy_until_ms
  seen,        \* history: indices the current scan has looked at
  clean        \* history: nobody else moved next_upstream during the scan

vars == <<next, failures, until, now, pc, at, tried, scanNow, deadline,
          seen, clean>>
shared == <<next, failures, until, now>>
scan == <<tried, scanNow, seen, clean>>

PCs == {"idle", "scan", "check", "rejected", "dispatched",
        "count", "clock", "trip", "reset", "zero", "clear"}

Goto(r, label) == pc' = [pc EXCEPT ![r] = label]

\* The handler leaves both functions; its locals go out of scope.
Return(r) == Goto(r, "idle") /\ at' = [at EXCEPT ![r] = 0]

\* The locals of select_upstream go out of scope.
EndScan(r) ==
  /\ tried' = [tried EXCEPT ![r] = 0]
  /\ scanNow' = [scanNow EXCEPT ![r] = 0]
  /\ seen' = [seen EXCEPT ![r] = {}]
  /\ clean' = [clean EXCEPT ![r] = TRUE]

\* RouteRuntime::new
Init ==
  /\ next = 0
  /\ failures = [u \in Upstreams |-> 0]
  /\ until = [u \in Upstreams |-> 0]
  /\ now = 0
  /\ pc = [r \in Requests |-> "idle"]
  /\ at = [r \in Requests |-> 0]
  /\ tried = [r \in Requests |-> 0]
  /\ scanNow = [r \in Requests |-> 0]
  /\ deadline = [r \in Requests |-> 0]
  /\ seen = [r \in Requests |-> {}]
  /\ clean = [r \in Requests |-> TRUE]

Tick ==
  /\ now < MaxTime
  /\ now' = now + 1
  /\ UNCHANGED <<next, failures, until, pc, at, deadline, scan>>

-----------------------------------------------------------------------------
(* The expressions of the two functions.  The operators named Mutant...      *)
(* are plausible slips in the code, each caught by a property below.         *)

\* The upstream a counter value stands for.
MutantIndexFromOne(n) == (n % NumUpstreams) + 1
Index(n) == n % NumUpstreams

\* Loop iterations done once the current one ends.
MutantHastyIterations(r) == tried[r] + 2
Iterations(r) == tried[r] + 1

\* One more failure of u reaches the threshold.
MutantTripsLate(u) == failures[u] + 1 > Threshold
Trips(u) == failures[u] + 1 >= Threshold

\* The end of a cooldown of u that starts at the present.
MutantExtendedCooldown(u) == (IF until[u] > now THEN until[u] ELSE now) + Cooldown
CooldownEnd(u) == now + Cooldown

-----------------------------------------------------------------------------
(* select_upstream *)

\* The clock is read once, before the loop.
BeginScan(r) ==
  /\ pc[r] = "idle"
  /\ Goto(r, "scan")
  /\ scanNow' = [scanNow EXCEPT ![r] = now]
  /\ UNCHANGED <<shared, at, deadline, tried, seen, clean>>

\* A scan that has moved next_upstream and will move it again.
MidScan(r) ==
  \/ pc[r] = "scan" /\ tried[r] > 0
  \/ pc[r] = "check" /\ Iterations(r) < NumUpstreams

\* next_upstream.fetch_add(1) % len.  A scan under way is disturbed when
\* another handler moves the counter, or when its own step wraps it at a
\* width that len does not divide.
FetchAdd(r) ==
  /\ pc[r] = "scan"
  /\ Goto(r, "check")
  /\ next' = (next + 1) % Wrap
  /\ at' = [at EXCEPT ![r] = Index(next)]
  /\ seen' = [seen EXCEPT ![r] = @ \cup {Index(next)}]
  /\ clean' = [q \in Requests |->
                 /\ clean[q]
                 /\ q # r => ~MidScan(q)
                 /\ q = r => next' # 0 \/ Wrap % NumUpstreams = 0]
  /\ UNCHANGED <<failures, until, now, tried, scanNow, deadline>>

\* unhealthy_until_ms.load() <= now, else the next iteration or None.
LoadUntil(r) ==
  /\ pc[r] = "check"
  /\ \/ /\ until[at[r]] <= scanNow[r]
        /\ Goto(r, "dispatched")
        /\ EndScan(r)
        /\ UNCHANGED at
     \/ /\ until[at[r]] > scanNow[r]
        /\ Goto(r, IF Iterations(r) < NumUpstreams THEN "scan" ELSE "rejected")
        /\ tried' = [tried EXCEPT ![r] = Iterations(r)]
        /\ at' = [at EXCEPT ![r] = 0]
        /\ UNCHANGED <<scanNow, seen, clean>>
  /\ UNCHANGED <<shared, deadline>>

\* 503 "all route upstreams are temporarily unhealthy".
Reject(r) ==
  /\ pc[r] = "rejected"
  /\ Return(r)
  /\ EndScan(r)
  /\ UNCHANGED <<shared, deadline>>

-----------------------------------------------------------------------------
(* The upstream answers, fails or times out; record_upstream_result.       *)

\* An error, a timeout or a 5xx is counted, anything else is a success.
UpstreamResult(r) ==
  /\ pc[r] = "dispatched"
  /\ Goto(r, "count") \/ Goto(r, "zero")
  /\ UNCHANGED <<shared, at, deadline, scan>>

\* The client goes away: the handler future is dropped, nothing is recorded.
Cancel(r) ==
  /\ pc[r] = "dispatched"
  /\ Return(r)
  /\ UNCHANGED <<shared, deadline, scan>>

\* failures.fetch_add(1) + 1, compared with the threshold.
CountFailure(r) ==
  /\ pc[r] = "count"
  /\ failures' = [failures EXCEPT ![at[r]] = @ + 1]
  /\ \/ /\ Trips(at[r])
        /\ Goto(r, "clock")
        /\ UNCHANGED at
     \/ /\ ~Trips(at[r])
        /\ Return(r)
  /\ UNCHANGED <<next, until, now, deadline, scan>>

\* now_ms().saturating_add(cooldown_ms) is computed ...
ReadClock(r) ==
  /\ pc[r] = "clock"
  /\ Goto(r, "trip")
  /\ deadline' = [deadline EXCEPT ![r] = CooldownEnd(at[r])]
  /\ UNCHANGED <<shared, at, scan>>

\* ... stored in unhealthy_until_ms ...
StoreUntil(r) ==
  /\ pc[r] = "trip"
  /\ Goto(r, "reset")
  /\ until' = [until EXCEPT ![at[r]] = deadline[r]]
  /\ deadline' = [deadline EXCEPT ![r] = 0]
  /\ UNCHANGED <<next, failures, now, at, scan>>

\* ... and failures is stored 0.
ResetFailures(r) ==
  /\ pc[r] = "reset"
  /\ Return(r)
  /\ failures' = [failures EXCEPT ![at[r]] = 0]
  /\ UNCHANGED <<next, until, now, deadline, scan>>

\* Success: failures.store(0), then unhealthy_until_ms.store(0).
ZeroFailures(r) ==
  /\ pc[r] = "zero"
  /\ Goto(r, "clear")
  /\ failures' = [failures EXCEPT ![at[r]] = 0]
  /\ UNCHANGED <<next, until, now, at, deadline, scan>>

ClearUntil(r) ==
  /\ pc[r] = "clear"
  /\ Return(r)
  /\ until' = [until EXCEPT ![at[r]] = 0]
  /\ UNCHANGED <<next, failures, now, deadline, scan>>

\* The steps a handler takes by itself: the code runs them without waiting.
HandlerStep(r) ==
  \/ FetchAdd(r) \/ LoadUntil(r) \/ Reject(r)
  \/ CountFailure(r) \/ ReadClock(r) \/ StoreUntil(r) \/ ResetFailures(r)
  \/ ZeroFailures(r) \/ ClearUntil(r)

Next ==
  \/ Tick
  \/ \E r \in Requests : BeginScan(r) \/ UpstreamResult(r) \/ Cancel(r)
                           \/ HandlerStep(r)

Spec == Init /\ [][Next]_vars

-----------------------------------------------------------------------------
(* Properties *)

\* Type invariant.
TypeOK ==
  /\ next \in Nat
  /\ failures \in [Upstreams -> Nat]
  /\ until \in [Upstreams -> Nat]
  /\ now \in Nat
  /\ pc \in [Requests -> PCs]
  /\ at \in [Requests -> Upstreams]
  /\ tried \in [Requests -> Nat]
  /\ scanNow \in [Requests -> Nat]
  /\ deadline \in [Requests -> Nat]
  /\ seen \in [Requests -> SUBSET Upstreams]
  /\ clean \in [Requests -> BOOLEAN]

\* Handlers whose own failure count reached the threshold on u and that have
\* not stored 0 in its counter yet.
Tripping(u) == {r \in Requests : at[r] = u /\ pc[r] \in {"clock", "trip", "reset"}}

\* The failure counter of an upstream exceeds threshold - 1 by at most the
\* number of handlers that are on their way to put it in cooldown: with no
\* such handler it is below the threshold, so no upstream that has reached
\* the threshold is left in rotation by an interleaving of
\* record_upstream_result, and the AtomicU32 cannot overflow.
FailureBound ==
  \A u \in Upstreams :
    failures[u] <= (Threshold - 1) + Cardinality(Tripping(u))

\* No interleaving of stores, however late, takes an upstream out of
\* rotation beyond one cooldown from the present: neither unhealthy_until_ms
\* nor a value still to be stored in it lies more than cooldown_ms after the
\* clock.
CooldownBound ==
  /\ \A u \in Upstreams : until[u] <= now + Cooldown
  /\ \A r \in Requests : deadline[r] <= now + Cooldown

\* A scan of select_upstream that no other handler disturbed returns None
\* only after it has looked at every upstream of the route.
SoleScanComplete ==
  \A r \in Requests : pc[r] = "rejected" /\ clean[r] => seen[r] = Upstreams

\* The message of the 503 that a None turns into: "all route upstreams are
\* temporarily unhealthy".  An upstream the scan skipped must not be one that
\* could have taken the request.
RejectedMeansUnhealthy ==
  \A r \in Requests : pc[r] = "rejected" =>
    \A u \in Upstreams : u \in seen[r] \/ until[u] > scanNow[r]
=============================================================================
