------------------------ MODULE UpstreamHealthProofs ------------------------
(***************************************************************************)
(* Proofs about UpstreamHealth, for any number of handlers, upstreams, any *)
(* threshold, cooldown and counter width.                                  *)
(***************************************************************************)
EXTENDS UpstreamHealth, FiniteSetTheorems, TLAPS

\* The index fetch_add(1) % len is always one of the route's upstreams.
LEMMA ModInRange ==
  ASSUME NEW a \in Nat, NEW n \in Nat \ {0}
  PROVE  a % n \in 0 .. n - 1
  OBVIOUS

\* A route has a first upstream, the placeholder of an idle handler.
LEMMA ZeroIsUpstream == 0 \in Upstreams
  BY HealthAssumption DEF Upstreams

\* Every step of the specification preserves the types.
LEMMA TypeStep == TypeOK /\ [Next]_vars => TypeOK'
<1> SUFFICES ASSUME TypeOK, [Next]_vars PROVE TypeOK'
  OBVIOUS
<1> USE HealthAssumption, ZeroIsUpstream DEF TypeOK, PCs
<1>1. CASE Tick
  BY <1>1 DEF Tick, scan
<1>2. ASSUME NEW r \in Requests, BeginScan(r) PROVE TypeOK'
  BY <1>2 DEF BeginScan, Goto, shared
<1>3. ASSUME NEW r \in Requests, FetchAdd(r) PROVE TypeOK'
  <2>1. Index(next) \in Upstreams
    BY ModInRange DEF Index, Upstreams
  <2>2. (next + 1) % Wrap \in Nat
    BY ModInRange
  <2>3. clean' \in [Requests -> BOOLEAN]
    BY <1>3 DEF FetchAdd
  <2>4. at' \in [Requests -> Upstreams] /\ seen' \in [Requests -> SUBSET Upstreams]
    BY <1>3, <2>1 DEF FetchAdd
  <2> QED
    BY <1>3, <2>2, <2>3, <2>4 DEF FetchAdd, Goto
<1>4. ASSUME NEW r \in Requests, LoadUntil(r) PROVE TypeOK'
  <2>1. CASE until[at[r]] <= scanNow[r]
    <3>1. Goto(r, "dispatched") /\ EndScan(r) /\ UNCHANGED <<at, shared, deadline>>
      BY <1>4, <2>1 DEF LoadUntil
    <3> QED
      BY <3>1 DEF Goto, EndScan, shared
  <2>2. CASE until[at[r]] > scanNow[r]
    <3>1. pc' \in [Requests -> PCs]
      BY <1>4, <2>2 DEF LoadUntil, Goto
    <3> QED
      BY <1>4, <2>2, <3>1 DEF LoadUntil, Iterations, shared
  <2> QED
    BY <2>1, <2>2
<1>5. ASSUME NEW r \in Requests, Reject(r) PROVE TypeOK'
  BY <1>5 DEF Reject, Return, Goto, EndScan, shared
<1>6. ASSUME NEW r \in Requests, UpstreamResult(r) PROVE TypeOK'
  BY <1>6 DEF UpstreamResult, Goto, shared, scan
<1>7. ASSUME NEW r \in Requests, Cancel(r) PROVE TypeOK'
  BY <1>7 DEF Cancel, Return, Goto, shared, scan
<1>8. ASSUME NEW r \in Requests, CountFailure(r) PROVE TypeOK'
  BY <1>8 DEF CountFailure, Return, Goto, scan
<1>9. ASSUME NEW r \in Requests, ReadClock(r) PROVE TypeOK'
  BY <1>9 DEF ReadClock, CooldownEnd, Goto, shared, scan
<1>10. ASSUME NEW r \in Requests, StoreUntil(r) PROVE TypeOK'
  BY <1>10 DEF StoreUntil, Goto, scan
<1>11. ASSUME NEW r \in Requests, ResetFailures(r) PROVE TypeOK'
  BY <1>11 DEF ResetFailures, Return, Goto, scan
<1>12. ASSUME NEW r \in Requests, ZeroFailures(r) PROVE TypeOK'
  BY <1>12 DEF ZeroFailures, Goto, scan
<1>13. ASSUME NEW r \in Requests, ClearUntil(r) PROVE TypeOK'
  BY <1>13 DEF ClearUntil, Return, Goto, scan
<1>14. CASE UNCHANGED vars
  BY <1>14 DEF vars
<1> QED
  BY <1>1, <1>2, <1>3, <1>4, <1>5, <1>6, <1>7, <1>8, <1>9, <1>10, <1>11,
     <1>12, <1>13, <1>14 DEF Next, HandlerStep

\* Type correctness of the health state and of every handler's locals.
THEOREM TypeCorrect == Spec => []TypeOK
<1>1. Init => TypeOK
  BY HealthAssumption, ZeroIsUpstream DEF Init, TypeOK, PCs
<1> QED
  BY <1>1, TypeStep, PTL DEF Spec

-----------------------------------------------------------------------------
\* An upstream is never out of rotation for more than one cooldown ahead of
\* the clock, whatever stale deadline a slow handler stores.
THEOREM CooldownIsBounded == Spec => []CooldownBound
<1>1. Init => CooldownBound
  BY HealthAssumption DEF Init, CooldownBound
<1>2. TypeOK /\ CooldownBound /\ [Next]_vars => CooldownBound'
  <2> SUFFICES ASSUME TypeOK, CooldownBound, [Next]_vars PROVE CooldownBound'
    OBVIOUS
  <2> USE HealthAssumption DEF TypeOK, CooldownBound
  <2>1. CASE Tick
    BY <2>1 DEF Tick
  <2>2. ASSUME NEW r \in Requests, ReadClock(r) PROVE CooldownBound'
    BY <2>2 DEF ReadClock, CooldownEnd, shared
  <2>3. ASSUME NEW r \in Requests, StoreUntil(r) PROVE CooldownBound'
    BY <2>3 DEF StoreUntil
  <2>4. ASSUME NEW r \in Requests, ClearUntil(r) PROVE CooldownBound'
    BY <2>4 DEF ClearUntil
  <2>5. ASSUME NEW r \in Requests,
               \/ BeginScan(r) \/ FetchAdd(r) \/ LoadUntil(r) \/ Reject(r)
               \/ UpstreamResult(r) \/ Cancel(r)
               \/ CountFailure(r) \/ ResetFailures(r) \/ ZeroFailures(r)
        PROVE  CooldownBound'
    <3>1. UNCHANGED <<until, now, deadline>>
      BY <2>5 DEF BeginScan, FetchAdd, LoadUntil, Reject, UpstreamResult,
                  Cancel, CountFailure, ResetFailures, ZeroFailures, shared
    <3> QED
      BY <3>1
  <2>6. CASE UNCHANGED vars
    BY <2>6 DEF vars
  <2> QED
    BY <2>1, <2>2, <2>3, <2>4, <2>5, <2>6 DEF Next, HandlerStep
<1> QED
  BY <1>1, <1>2, TypeCorrect, PTL DEF Spec

-----------------------------------------------------------------------------
\* Tripping(u) is a finite set of handlers, so its cardinality is a number.
LEMMA TrippingFinite ==
  ASSUME NEW u
  PROVE  IsFiniteSet(Tripping(u)) /\ Cardinality(Tripping(u)) \in Nat
<1>1. Tripping(u) \in SUBSET Requests
  BY DEF Tripping
<1> QED
  BY <1>1, FS_Subset, FS_CardinalityType, HealthAssumption

\* The same for the handlers that are tripping u in the next state.
LEMMA TrippingFiniteNext ==
  ASSUME NEW u
  PROVE  IsFiniteSet(Tripping(u)') /\ Cardinality(Tripping(u)') \in Nat
<1>1. Tripping(u)' \in SUBSET Requests
  BY DEF Tripping
<1> QED
  BY <1>1, FS_Subset, FS_CardinalityType, HealthAssumption

\* The failure counter of an upstream is below the threshold except for what
\* the handlers that are putting it in cooldown have added: the invariant of
\* record_upstream_result under every interleaving of its atomic operations.
THEOREM FailuresAreBounded == Spec => []FailureBound
<1>1. Init => FailureBound
  BY HealthAssumption, TrippingFinite DEF Init, FailureBound
<1>2. TypeOK /\ FailureBound /\ [Next]_vars => FailureBound'
  <2> SUFFICES ASSUME TypeOK, FailureBound, [Next]_vars,
                      NEW u \in Upstreams
               PROVE  failures'[u] <= (Threshold - 1) + Cardinality(Tripping(u)')
    BY DEF FailureBound
  <2> USE HealthAssumption DEF TypeOK
  <2>0. /\ failures[u] \in Nat
        /\ failures[u] <= (Threshold - 1) + Cardinality(Tripping(u))
        /\ Cardinality(Tripping(u)) \in Nat
        /\ Cardinality(Tripping(u)') \in Nat
    BY TrippingFinite, TrippingFiniteNext DEF FailureBound
  <2>1. ASSUME NEW r \in Requests, CountFailure(r), at[r] = u
        PROVE  failures'[u] <= (Threshold - 1) + Cardinality(Tripping(u)')
    <3>1. failures'[u] = failures[u] + 1
      BY <2>1 DEF CountFailure
    <3>2. CASE failures[u] + 1 >= Threshold
      <4>1. Tripping(u)' = Tripping(u) \cup {r} /\ r \notin Tripping(u)
        BY <2>1, <3>2, <2>0 DEF CountFailure, Trips, Goto, Tripping
      <4>2. Cardinality(Tripping(u)') = Cardinality(Tripping(u)) + 1
        BY <4>1, TrippingFinite, FS_AddElement, ZenonT(60)
      <4> QED
        BY <3>1, <4>2, <2>0
    <3>3. CASE failures[u] + 1 < Threshold
      BY <3>1, <3>3, <2>0
    <3> QED
      BY <3>2, <3>3, <2>0
  <2>2. ASSUME NEW r \in Requests, at[r] = u, ResetFailures(r) \/ ZeroFailures(r)
        PROVE  failures'[u] <= (Threshold - 1) + Cardinality(Tripping(u)')
    <3>1. failures'[u] = 0
      BY <2>2 DEF ResetFailures, ZeroFailures
    <3> QED
      BY <3>1, <2>0
  <2>3. ASSUME failures'[u] = failures[u], Tripping(u)' = Tripping(u)
        PROVE  failures'[u] <= (Threshold - 1) + Cardinality(Tripping(u)')
    BY <2>3, <2>0
  <2>4. ASSUME NEW r \in Requests, at[r] # u,
               CountFailure(r) \/ ResetFailures(r) \/ ZeroFailures(r)
        PROVE  failures'[u] = failures[u] /\ Tripping(u)' \subseteq Tripping(u)
                                         /\ Tripping(u) \subseteq Tripping(u)'
    <3>1. CASE CountFailure(r)
      BY <2>4, <3>1 DEF CountFailure, Return, Goto, Tripping
    <3>2. CASE ResetFailures(r) \/ ZeroFailures(r)
      BY <2>4, <3>2 DEF ResetFailures, ZeroFailures, Return, Goto, Tripping
    <3> QED
      BY <2>4, <3>1, <3>2
  <2>5. ASSUME NEW r \in Requests, ReadClock(r) \/ StoreUntil(r)
        PROVE  failures'[u] = failures[u] /\ Tripping(u)' = Tripping(u)
    BY <2>5 DEF ReadClock, StoreUntil, Goto, shared, Tripping
  <2>6. ASSUME NEW r \in Requests,
               \/ BeginScan(r) \/ FetchAdd(r) \/ LoadUntil(r) \/ Reject(r)
               \/ UpstreamResult(r) \/ Cancel(r) \/ ClearUntil(r)
        PROVE  failures'[u] = failures[u] /\ Tripping(u)' = Tripping(u)
    <3>1. failures' = failures
      BY <2>6 DEF BeginScan, FetchAdd, LoadUntil, Reject, UpstreamResult,
                  Cancel, ClearUntil, shared
    <3>2. /\ pc[r] \notin {"clock", "trip", "reset"}
          /\ \E l \in PCs \ {"clock", "trip", "reset"} : Goto(r, l)
      BY <2>6 DEF BeginScan, FetchAdd, LoadUntil, Reject, UpstreamResult,
                  Cancel, ClearUntil, Return, PCs
    <3>3. \A q \in Requests \ {r} : at'[q] = at[q]
      BY <2>6 DEF BeginScan, FetchAdd, LoadUntil, Reject, UpstreamResult,
                  Cancel, ClearUntil, Return, shared
    <3> QED
      BY <3>1, <3>2, <3>3 DEF Goto, Tripping
  <2>7. CASE Tick \/ UNCHANGED vars
    BY <2>7, <2>3 DEF Tick, vars, Tripping
  <2>8. CASE \E r \in Requests : BeginScan(r) \/ UpstreamResult(r)
                                   \/ Cancel(r) \/ HandlerStep(r)
    <3>1. PICK r \in Requests :
             BeginScan(r) \/ UpstreamResult(r) \/ Cancel(r) \/ HandlerStep(r)
      BY <2>8
    <3>2. CASE CountFailure(r) \/ ResetFailures(r) \/ ZeroFailures(r)
      <4>1. CASE at[r] = u
        BY <3>2, <4>1, <2>1, <2>2
      <4>2. CASE at[r] # u
        BY <3>2, <4>2, <2>3, <2>4
      <4> QED
        BY <4>1, <4>2
    <3> QED
      BY <3>1, <3>2, <2>3, <2>5, <2>6 DEF HandlerStep
  <2> QED
    BY <2>7, <2>8 DEF Next
<1> QED
  BY <1>1, <1>2, TypeCorrect, PTL DEF Spec
-----------------------------------------------------------------------------
(* A scan walks the ring of upstreams from the index its first fetch_add     *)
(* gave.  Arc(f, k) are the k upstreams it has met when it started at f, and *)
(* Ahead(f, k) is the one it meets next.                                     *)

Arc(f, k) == {u \in Upstreams : (f <= u /\ u < f + k) \/ u < f + k - NumUpstreams}

Ahead(f, k) == IF f + k < NumUpstreams THEN f + k ELSE f + k - NumUpstreams

\* Quotient and remainder of a number are unique.
LEMMA DivMod ==
  ASSUME NEW N \in Nat \ {0}, NEW n \in Nat, NEW q \in Int, NEW r \in 0 .. N - 1,
         n = N * q + r
  PROVE  n % N = r
<1> DEFINE p == n \div N
           m == n % N
<1>1. p \in Int /\ m \in 0 .. N - 1 /\ n = N * p + m
  OBVIOUS
<1> HIDE DEF p, m
<1>2. N * p - N * q = N * (p - q) /\ p - q \in Int
  BY <1>1
<1> DEFINE d == p - q
<1>3. d \in Int /\ N * d = r - m
  BY <1>1, <1>2
<1> HIDE DEF d
<1>4. d >= 1 => N * d >= N
  BY <1>3
<1>5. d <= -1 => N * d <= -N
  BY <1>3
<1>6. d = 0
  BY <1>1, <1>3, <1>4, <1>5
<1>7. m = r
  BY <1>1, <1>3, <1>6
<1> QED
  BY <1>7 DEF m

\* The counter values of a scan: one more is the next upstream of the ring ...
LEMMA IndexStep ==
  ASSUME NEW n \in Nat
  PROVE  Index(n + 1) = IF Index(n) = NumUpstreams - 1 THEN 0 ELSE Index(n) + 1
<1> DEFINE N == NumUpstreams
           q == n \div N
           r == n % N
<1>1. N \in Nat \ {0} /\ q \in Int /\ r \in 0 .. N - 1 /\ n = N * q + r
  BY HealthAssumption
<1> HIDE DEF q, r, N
<1>2. CASE r = N - 1
  <2>1. n + 1 = N * (q + 1) + 0 /\ q + 1 \in Int /\ 0 \in 0 .. N - 1 /\ n + 1 \in Nat
    BY <1>1, <1>2
  <2>2. (n + 1) % N = 0
    BY <1>1, <2>1, DivMod
  <2> QED
    BY <1>2, <2>2 DEF r, N, Index
<1>3. CASE r # N - 1
  <2>1. n + 1 = N * q + (r + 1) /\ r + 1 \in 0 .. N - 1 /\ n + 1 \in Nat
    BY <1>1, <1>3
  <2>2. (n + 1) % N = r + 1
    BY <1>1, <2>1, DivMod
  <2> QED
    BY <1>3, <2>2 DEF r, N, Index
<1> QED
  BY <1>2, <1>3

\* ... also where fetch_add wraps, when len divides the width of the counter.
LEMMA CounterStep ==
  ASSUME next \in Nat, next < Wrap,
         (next + 1) % Wrap # 0 \/ Wrap % NumUpstreams = 0
  PROVE  /\ (next + 1) % Wrap < Wrap
         /\ Index((next + 1) % Wrap) =
              IF Index(next) = NumUpstreams - 1 THEN 0 ELSE Index(next) + 1
<1> USE HealthAssumption
<1>1. (next + 1) % Wrap < Wrap
  BY ModInRange
<1>2. CASE next + 1 < Wrap
  <2>1. (next + 1) % Wrap = next + 1
    BY <1>2
  <2> QED
    BY <1>1, <2>1, IndexStep
<1>3. CASE next + 1 = Wrap
  <2>1. (next + 1) % Wrap = 0
    BY <1>3
  <2>2. Index(next + 1) = 0 /\ Index(0) = 0
    BY <1>3, <2>1 DEF Index
  <2>3. Index(next) \in 0 .. NumUpstreams - 1
    BY ModInRange DEF Index
  <2> QED
    BY <1>1, <2>1, <2>2, <2>3, IndexStep
<1> QED
  BY <1>2, <1>3

\* An arc grows by the upstream ahead of it, and after len steps it is the
\* whole ring.
LEMMA ArcStep ==
  ASSUME NEW f \in Upstreams, NEW k \in Nat, k < NumUpstreams
  PROVE  /\ Arc(f, k + 1) = Arc(f, k) \cup {Ahead(f, k)}
         /\ Ahead(f, k + 1) = IF Ahead(f, k) = NumUpstreams - 1 THEN 0 ELSE Ahead(f, k) + 1
BY HealthAssumption DEF Arc, Ahead, Upstreams

\* The arc of no step is empty, and the arc of a full round is everything.
LEMMA ArcEnds ==
  ASSUME NEW f \in Upstreams
  PROVE  Arc(f, 0) = {} /\ Ahead(f, 0) = f /\ Arc(f, NumUpstreams) = Upstreams
BY HealthAssumption DEF Arc, Ahead, Upstreams

\* The upstreams a scan has looked at so far.
Looked(r) == IF pc[r] = "check" THEN tried[r] + 1 ELSE tried[r]

\* What a scan has seen is an arc of that length, and while it is under way
\* the counter stands at the upstream ahead of the arc.
OnArc(r) ==
  \E f \in Upstreams :
    /\ seen[r] = Arc(f, Looked(r))
    /\ MidScan(r) => Index(next) = Ahead(f, Looked(r))

\* The invariant of the scan: how many iterations are done at each place, and
\* that an undisturbed scan has seen an arc.
ScanOf(r) ==
  /\ pc[r] \in {"scan", "check"} => tried[r] < NumUpstreams
  /\ pc[r] = "rejected" => tried[r] = NumUpstreams
  /\ pc[r] \notin {"scan", "check", "rejected"} => tried[r] = 0 /\ seen[r] = {}
  /\ pc[r] \in {"scan", "check", "rejected"} /\ clean[r] => OnArc(r)

ScanInv == next < Wrap /\ \A r \in Requests : ScanOf(r)

\* The handler that moves the counter: its arc grows by one.
LEMMA FetchAddScan ==
  ASSUME TypeOK, ScanInv, NEW r \in Requests, FetchAdd(r)
  PROVE  ScanOf(r)'
<1> USE HealthAssumption
<1>1. /\ pc[r] = "scan" /\ pc'[r] = "check" /\ tried'[r] = tried[r] /\ tried[r] \in Nat
      /\ seen'[r] = seen[r] \cup {Index(next)} /\ next' = (next + 1) % Wrap
      /\ clean'[r] => clean[r] /\ (next' # 0 \/ Wrap % NumUpstreams = 0)
      /\ next \in Nat /\ next < Wrap /\ tried[r] < NumUpstreams
  BY DEF FetchAdd, Goto, TypeOK, ScanInv, ScanOf
<1>2. ASSUME clean'[r] PROVE OnArc(r)'
  <2>1. Index(next') = IF Index(next) = NumUpstreams - 1 THEN 0 ELSE Index(next) + 1
    BY <1>1, <1>2, CounterStep
  <2>2. Index(next) \in Upstreams
    BY <1>1, ModInRange DEF Index, Upstreams
  <2>3. PICK f \in Upstreams : seen[r] = Arc(f, tried[r]) /\ Index(next) = Ahead(f, tried[r])
    <3>1. PICK e \in Upstreams : /\ seen[r] = Arc(e, tried[r])
                                 /\ tried[r] > 0 => Index(next) = Ahead(e, tried[r])
      BY <1>1, <1>2 DEF ScanInv, ScanOf, OnArc, Looked, MidScan
    <3>2. CASE tried[r] > 0
      BY <3>1, <3>2
    <3>3. CASE tried[r] = 0
      BY <2>2, <3>1, <3>3, ArcEnds
    <3> QED
      BY <1>1, <3>2, <3>3
  <2>4. seen'[r] = Arc(f, tried[r] + 1) /\ Index(next') = Ahead(f, tried[r] + 1)
    BY <1>1, <2>1, <2>3, ArcStep
  <2>5. Looked(r)' = tried[r] + 1
    BY <1>1 DEF Looked
  <2> QED
    BY <2>4, <2>5 DEF OnArc
<1> QED
  BY <1>1, <1>2 DEF ScanOf

\* Every other scan it disturbs or leaves alone.
LEMMA FetchAddOthers ==
  ASSUME TypeOK, ScanInv, NEW r \in Requests, FetchAdd(r), NEW q \in Requests, q # r
  PROVE  ScanOf(q)'
<1>1. /\ pc'[q] = pc[q] /\ tried'[q] = tried[q] /\ seen'[q] = seen[q]
      /\ clean'[q] => clean[q] /\ ~MidScan(q)
  BY DEF FetchAdd, Goto, TypeOK
<1>2. MidScan(q)' = MidScan(q) /\ Looked(q)' = Looked(q)
  BY <1>1 DEF MidScan, Looked, Iterations
<1>3. OnArc(q) /\ clean'[q] => OnArc(q)'
  BY <1>1, <1>2 DEF OnArc
<1> QED
  BY <1>1, <1>3 DEF ScanInv, ScanOf

\* A step that leaves the counter alone disturbs no scan but its own.
LEMMA ScanFrame ==
  ASSUME ScanInv, NEW q \in Requests, next' = next,
         pc'[q] = pc[q], tried'[q] = tried[q], seen'[q] = seen[q], clean'[q] = clean[q]
  PROVE  ScanOf(q)'
<1>1. OnArc(q)' = OnArc(q)
  BY DEF OnArc, Looked, MidScan, Iterations
<1> QED
  BY <1>1 DEF ScanInv, ScanOf

\* The end of a loop iteration that finds its upstream in cooldown.
LEMMA LoadUntilScan ==
  ASSUME TypeOK, ScanInv, NEW r \in Requests, LoadUntil(r), until[at[r]] > scanNow[r]
  PROVE  ScanOf(r)'
<1> USE HealthAssumption
<1>1. /\ pc[r] = "check" /\ tried[r] \in Nat /\ tried[r] < NumUpstreams
      /\ pc'[r] = (IF tried[r] + 1 < NumUpstreams THEN "scan" ELSE "rejected")
      /\ tried'[r] = tried[r] + 1 /\ seen'[r] = seen[r] /\ clean'[r] = clean[r]
      /\ next' = next
  <2>1. at[r] \in Upstreams /\ until[at[r]] \in Nat /\ scanNow[r] \in Nat
    BY DEF TypeOK
  <2>2. ~(until[at[r]] <= scanNow[r])
    BY <2>1
  <2> QED
    BY <2>2 DEF LoadUntil, Goto, Iterations, shared, TypeOK, ScanInv, ScanOf
<1>2. Looked(r)' = Looked(r) /\ MidScan(r)' = MidScan(r)
  BY <1>1 DEF Looked, MidScan, Iterations
<1>3. OnArc(r) => OnArc(r)'
  BY <1>1, <1>2 DEF OnArc
<1> QED
  BY <1>1, <1>3 DEF ScanInv, ScanOf

\* A scan that starts has seen nothing.
LEMMA BeginScanScan ==
  ASSUME TypeOK, ScanInv, NEW r \in Requests, BeginScan(r)
  PROVE  ScanOf(r)'
<1> USE HealthAssumption
<1>1. /\ pc'[r] = "scan" /\ tried'[r] = 0 /\ seen'[r] = {}
  BY DEF BeginScan, Goto, TypeOK, ScanInv, ScanOf
<1>2. Looked(r)' = 0 /\ ~MidScan(r)'
  BY <1>1 DEF Looked, MidScan
<1>3. OnArc(r)'
  BY <1>1, <1>2, ZeroIsUpstream, ArcEnds DEF OnArc
<1> QED
  BY <1>1, <1>3 DEF ScanOf

\* Every step of the specification preserves the invariant of the scan.
LEMMA ScanStep == TypeOK /\ ScanInv /\ [Next]_vars => ScanInv'
<1> SUFFICES ASSUME TypeOK, ScanInv, [Next]_vars PROVE ScanInv'
  OBVIOUS
<1>1. CASE Tick \/ UNCHANGED vars
  <2>1. UNCHANGED <<next, pc, tried, seen, clean>>
    BY <1>1 DEF Tick, vars, scan
  <2> QED
    BY <2>1, ScanFrame DEF ScanInv
<1>2. ASSUME NEW r \in Requests, FetchAdd(r) PROVE ScanInv'
  <2>1. next' < Wrap
    BY <1>2, HealthAssumption, ModInRange DEF FetchAdd, TypeOK
  <2> QED
    BY <1>2, <2>1, FetchAddScan, FetchAddOthers DEF ScanInv
<1>3. ASSUME NEW r \in Requests, next' = next,
             \A q \in Requests \ {r} : /\ pc'[q] = pc[q] /\ tried'[q] = tried[q]
                                       /\ seen'[q] = seen[q] /\ clean'[q] = clean[q],
             ScanOf(r)'
      PROVE  ScanInv'
  <2>1. \A q \in Requests \ {r} : ScanOf(q)'
    BY <1>3, ScanFrame
  <2> QED
    BY <1>3, <2>1 DEF ScanInv
<1>4. ASSUME NEW r \in Requests, BeginScan(r) PROVE ScanInv'
  <2>1. ScanOf(r)'
    BY <1>4, BeginScanScan
  <2>2. /\ next' = next
        /\ \A q \in Requests \ {r} : /\ pc'[q] = pc[q] /\ tried'[q] = tried[q]
                                     /\ seen'[q] = seen[q] /\ clean'[q] = clean[q]
    BY <1>4 DEF BeginScan, Goto, shared, TypeOK
  <2> QED
    BY <1>3, <2>1, <2>2
<1>5. ASSUME NEW r \in Requests, LoadUntil(r) PROVE ScanInv'
  <2>1. /\ next' = next
        /\ \A q \in Requests \ {r} : /\ pc'[q] = pc[q] /\ tried'[q] = tried[q]
                                     /\ seen'[q] = seen[q] /\ clean'[q] = clean[q]
    BY <1>5 DEF LoadUntil, Goto, EndScan, shared, TypeOK
  <2>2. CASE until[at[r]] > scanNow[r]
    <3>1. ScanOf(r)'
      BY <1>5, <2>2, LoadUntilScan
    <3> QED
      BY <1>3, <2>1, <3>1
  <2>3. CASE ~(until[at[r]] > scanNow[r])
    <3>1. pc'[r] = "dispatched" /\ tried'[r] = 0 /\ seen'[r] = {}
      BY <1>5, <2>3 DEF LoadUntil, Goto, EndScan, TypeOK
    <3>2. ScanOf(r)'
      BY <3>1 DEF ScanOf
    <3> QED
      BY <1>3, <2>1, <3>2
  <2> QED
    BY <2>2, <2>3
<1>6. ASSUME NEW r \in Requests, Reject(r) PROVE ScanInv'
  <2>1. /\ next' = next
        /\ \A q \in Requests \ {r} : /\ pc'[q] = pc[q] /\ tried'[q] = tried[q]
                                     /\ seen'[q] = seen[q] /\ clean'[q] = clean[q]
    BY <1>6 DEF Reject, Return, Goto, EndScan, shared, TypeOK
  <2>2. pc'[r] = "idle" /\ tried'[r] = 0 /\ seen'[r] = {}
    BY <1>6 DEF Reject, Return, Goto, EndScan, TypeOK
  <2>3. ScanOf(r)'
    BY <2>2 DEF ScanOf
  <2> QED
    BY <1>3, <2>1, <2>3
<1>7. ASSUME NEW r \in Requests,
             \/ UpstreamResult(r) \/ Cancel(r) \/ CountFailure(r) \/ ReadClock(r)
             \/ StoreUntil(r) \/ ResetFailures(r) \/ ZeroFailures(r) \/ ClearUntil(r)
      PROVE  ScanInv'
  <2>1. UNCHANGED <<next, tried, seen, clean>>
    BY <1>7 DEF UpstreamResult, Cancel, CountFailure, ReadClock, StoreUntil,
                ResetFailures, ZeroFailures, ClearUntil, shared, scan
  <2>2. /\ pc[r] \notin {"scan", "check", "rejected"}
        /\ \E l \in PCs \ {"scan", "check", "rejected"} : pc' = [pc EXCEPT ![r] = l]
    BY <1>7 DEF UpstreamResult, Cancel, CountFailure, ReadClock, StoreUntil,
                ResetFailures, ZeroFailures, ClearUntil, Return, Goto, PCs
  <2>3. ScanOf(r)'
    BY <2>1, <2>2 DEF ScanInv, ScanOf, TypeOK
  <2>4. \A q \in Requests \ {r} : pc'[q] = pc[q]
    BY <2>2 DEF TypeOK
  <2> QED
    BY <1>3, <2>1, <2>3, <2>4
<1> QED
  BY <1>1, <1>2, <1>4, <1>5, <1>6, <1>7 DEF Next, HandlerStep

\* A None of select_upstream that nobody disturbed comes after a look at every
\* upstream of the route: len fetch_adds in a row walk the whole ring, from
\* wherever the counter stands.
THEOREM UndisturbedScanIsComplete == Spec => []SoleScanComplete
<1>1. Init => ScanInv
  BY HealthAssumption DEF Init, ScanInv, ScanOf
<1>2. TypeOK /\ ScanInv => SoleScanComplete
  <2> SUFFICES ASSUME TypeOK, ScanInv, NEW r \in Requests, pc[r] = "rejected", clean[r]
               PROVE  seen[r] = Upstreams
    BY DEF SoleScanComplete
  <2>1. OnArc(r) /\ Looked(r) = NumUpstreams
    BY DEF ScanInv, ScanOf, Looked
  <2> QED
    BY <2>1, ArcEnds DEF OnArc
<1> QED
  BY <1>1, <1>2, ScanStep, TypeCorrect, PTL DEF Spec
=============================================================================
