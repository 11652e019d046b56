---------------------------- MODULE CaptureStore ----------------------------
(***************************************************************************)
(* The capture store (crates/tracegate-storage/src/lib.rs): the tables,    *)
(* the transaction with which the writer task inserts a finished request,  *)
(* and the background retention run.                                       *)
(*                                                                         *)
(* A transaction, and a statement outside one, is a step: SQLite and       *)
(* PostgreSQL serialise them.  The retention run is a sequence of such     *)
(* statements without a transaction around them, so inserts get between.   *)
(* A request id comes from the client (request_id_from_headers), so the    *)
(* same id may be inserted again.  The operators named Mutant... are       *)
(* plausible slips in the code, each caught by a property below.           *)
(***************************************************************************)
EXTENDS Integers, FiniteSets, FiniteSetsExt

CONSTANTS
  Ids,        \* request ids
  Metas,      \* metadata a record may have: [failed, method, upstream]
  Payloads,   \* captures it may carry: [bodies, bytes, truncated]
  MaxTotal,   \* max_total_capture_bytes
  Days,       \* retention_days, in clock ticks
  Batch,      \* LIMIT of EVICTION_CANDIDATES
  MaxTime,    \* bound of the model: the clock stops here
  MaxInserts  \* bound of the model: inserts of the writer

ASSUME StoreAssumption ==
  /\ IsFiniteSet(Ids)
  /\ \A p \in Payloads : p.bytes \in Nat /\ (p.bodies = {} => p.bytes = 0)
  /\ MaxTotal \in Nat /\ Days \in Nat \ {0}
  /\ Batch \in Nat \ {0}
  /\ MaxTime \in Nat /\ MaxInserts \in Nat

VARIABLES
  now,       \* the clock behind now_ms()
  inserts,   \* inserts so far; numbers the records
  requests,  \* table requests, by request_id
  captures,  \* table captures, by request_id
  replays,   \* table replay_runs
  rpc,       \* where the retention run is
  cutoff,    \* its `cutoff`
  total,     \* its `total`
  todo,      \* candidates it has read and not dealt with
  added      \* history: body bytes inserted since `total` was read

tables == <<requests, captures, replays>>
run == <<rpc, cutoff, total, todo>>
storeVars == <<now, inserts, requests, captures, replays, rpc, cutoff, total,
               todo, added>>

\* The rows, with the number of the insert that wrote them.  Of the bodies
\* of a capture matters which are not NULL and their length together; their
\* hashes stay when the bodies go.
NoPayload == [bodies |-> {}, bytes |-> 0, truncated |-> FALSE]
NoRow == [ver |-> 0, at |-> 0, meta |-> [failed |-> FALSE, method |-> "none", upstream |-> "none"]]
NoCapture ==
  [ver |-> 0, at |-> 0, data |-> NoPayload, hashed |-> {}, evicted |-> FALSE]
HasRow(id) == requests[id] # NoRow
HasCapture(id) == captures[id] # NoCapture

StoreInit ==
  /\ now = 0 /\ inserts = 0
  /\ requests = [id \in Ids |-> NoRow]
  /\ captures = [id \in Ids |-> NoCapture]
  /\ replays = {}
  /\ rpc = "idle" /\ cutoff = 0 /\ total = 0 /\ todo = {} /\ added = 0

Tick ==
  /\ now < MaxTime
  /\ now' = now + 1
  /\ UNCHANGED <<inserts, tables, run, added>>

-----------------------------------------------------------------------------
(* insert_request *)

\* ON DELETE CASCADE of the replay audits.
ReplaysOf(gone) == {p \in replays : p.original \notin gone}

\* DELETE by request_id with its cascade, INSERT, the children, commit.
MutantUpsert(id, row, capture) ==
  /\ requests' = [requests EXCEPT ![id] = row]
  /\ captures' = [captures EXCEPT ![id] = IF capture = NoCapture THEN @ ELSE capture]
  /\ replays' = replays
Replace(id, row, capture) ==
  /\ requests' = [requests EXCEPT ![id] = row]
  /\ captures' = [captures EXCEPT ![id] = capture]
  /\ replays' = ReplaysOf({id})

\* The writer inserts a record; created_at_ms was taken when the response
\* began, at any time before.  A failing insert is rolled back and changes
\* nothing here (its accounting is in CaptureQueue).
Insert(id) ==
  /\ inserts < MaxInserts
  /\ inserts' = inserts + 1
  /\ \E at \in 0 .. now, m \in Metas :
     \E c \in {NoCapture} \cup
             {[ver |-> inserts', at |-> at, data |-> p, hashed |-> p.bodies,
               evicted |-> FALSE] : p \in Payloads} :
       /\ Replace(id, [ver |-> inserts', at |-> at, meta |-> m], c)
       /\ added' = IF rpc \in {"fetch", "evict"} THEN added + c.data.bytes ELSE added
  /\ UNCHANGED <<now, run>>

-----------------------------------------------------------------------------
(* run_retention *)

\* cutoff is computed from the clock.
Begin ==
  /\ rpc = "idle"
  /\ rpc' = "delete"
  /\ cutoff' = now - Days
  /\ UNCHANGED <<now, inserts, tables, total, todo, added>>

\* DELETE FROM requests WHERE created_at_ms < cutoff
MutantExpired(id) == HasRow(id) /\ requests[id].at <= cutoff
Expired(id) == HasRow(id) /\ requests[id].at < cutoff

DeleteExpired ==
  /\ rpc = "delete"
  /\ rpc' = "total"
  /\ LET gone == {id \in Ids : Expired(id)}
     IN  /\ requests' = [id \in Ids |-> IF id \in gone THEN NoRow ELSE requests[id]]
         /\ captures' = [id \in Ids |-> IF id \in gone THEN NoCapture ELSE captures[id]]
         /\ replays' = ReplaysOf(gone)
  /\ UNCHANGED <<now, inserts, cutoff, total, todo, added>>

\* TOTAL_CAPTURE_BYTES
StoredBytes == SumFunction([id \in Ids |-> captures[id].data.bytes])

ReadTotal ==
  /\ rpc = "total"
  /\ rpc' = "fetch"
  /\ total' = StoredBytes
  /\ added' = 0
  /\ UNCHANGED <<now, inserts, tables, cutoff, todo>>

\* EVICTION_CANDIDATES: the oldest Batch captures that still have a body.
MutantCandidate(id) == HasCapture(id)
Candidate(id) == HasCapture(id) /\ ~captures[id].evicted /\ captures[id].data.bodies # {}

Candidates ==
  {[id |-> id, at |-> captures[id].at, bytes |-> captures[id].data.bytes] :
     id \in {i \in Ids : Candidate(i)}}

\* candidates.is_empty()
NoneLeft == Candidates = {}

Fetch ==
  /\ rpc = "fetch"
  /\ total > MaxTotal /\ ~NoneLeft
  /\ rpc' = "evict"
  /\ \E oldest \in SUBSET Candidates :
       /\ Cardinality(oldest) = Min({Batch, Cardinality(Candidates)})
       /\ \A c \in oldest, d \in Candidates \ oldest : c.at <= d.at
       /\ todo' = oldest
  /\ UNCHANGED <<now, inserts, tables, cutoff, total, added>>

\* The run returns, with Ok or with the error of any of its statements.
End ==
  /\ rpc' = "idle" /\ cutoff' = 0 /\ total' = 0 /\ todo' = {}
  /\ UNCHANGED <<now, inserts, tables>>
Finish ==
  /\ rpc = "fetch"
  /\ total <= MaxTotal \/ NoneLeft
  /\ End
  /\ added' = 0
Fail ==
  /\ rpc # "idle"
  /\ End
  /\ added' = 0

\* The candidates left after c: the `for` breaks as soon as the total fits.
Left(c) == IF total - c.bytes <= MaxTotal THEN {} ELSE todo \ {c}

\* request_body = NULL, response_body = NULL, body_evicted = true
MutantWithoutBodies(c) ==
  [c EXCEPT !.data.bodies = @ \ {"request"}, !.evicted = TRUE]
WithoutBodies(c) ==
  [ver |-> c.ver, at |-> c.at, hashed |-> c.hashed, evicted |-> TRUE,
   data |-> [bodies |-> {}, bytes |-> 0, truncated |-> c.data.truncated]]

\* The UPDATE of the next candidate, whatever its id now stands for.
Evict ==
  /\ rpc = "evict"
  /\ \E c \in todo :
       /\ \A d \in todo : c.at <= d.at
       /\ captures' = [captures EXCEPT ![c.id] =
            IF @ = NoCapture THEN @ ELSE WithoutBodies(@)]
       /\ total' = total - c.bytes
       /\ todo' = Left(c)
       /\ rpc' = IF Left(c) = {} THEN "fetch" ELSE "evict"
  /\ UNCHANGED <<now, inserts, requests, replays, cutoff, added>>

Retention == DeleteExpired \/ ReadTotal \/ Fetch \/ Finish \/ Evict

StoreNext == Tick \/ Begin \/ Retention \/ Fail \/ \E id \in Ids : Insert(id)

StoreSpec == StoreInit /\ [][StoreNext]_storeVars

\* The database answers every statement of the retention run.
FairStoreSpec == StoreSpec /\ WF_storeVars(Retention)

-----------------------------------------------------------------------------
(* Properties *)

\* Whatever inserts, re-inserts of an id, expiry and eviction do: a capture
\* belongs to the very record that is stored under its id, a replay audit to
\* a stored request, and an evicted body is gone.
StoreConsistent ==
  /\ \A id \in Ids : HasCapture(id) => captures[id].ver = requests[id].ver
  /\ \A p \in replays : HasRow(p.original)
  /\ \A id \in Ids : captures[id].evicted => captures[id].data.bodies = {}

\* The budget of max_total_capture_bytes: when a retention run has brought its
\* `total` down, the bodies in the store exceed the budget by no more than
\* what was inserted meanwhile, although the run subtracts lengths it read
\* earlier and may evict a record that has replaced the one it read.
RetentionBudget ==
  rpc = "fetch" => StoredBytes <= total + added

\* Expiry and eviction take no more than they must: a request leaves the
\* store only when it is older than retention_days, and a body is evicted
\* only while the run is above its budget.
Spares ==
  /\ \A id \in Ids : HasRow(id) /\ ~HasRow(id)' => requests[id].at < now - Days
  /\ \A id \in Ids : ~captures[id].evicted /\ captures[id]'.evicted => total > MaxTotal
RetentionSpares == [][Spares]_storeVars

\* Every retention run comes to its end while the writer goes on inserting.
RetentionEnds == rpc # "idle" ~> rpc = "idle"
=============================================================================
