---------------------------- MODULE ReplayProofs ----------------------------
(***************************************************************************)
(* Proofs about tracegate replay next to a gateway that uses the same      *)
(* store (module Replay), for any number of invocations, request ids and   *)
(* inserts, any retention settings and any captures.                       *)
(*                                                                         *)
(* StoreInv is inductive for the store alone.  Rows say what a move of the *)
(* store may do to a row that an invocation has read: keep it, delete it   *)
(* or replace it by a newer one.  With that, Local(p) is inductive for     *)
(* each invocation p, and the audit rows need no more than that an         *)
(* invocation whose row is stored is done.                                 *)
(*                                                                         *)
(* RetentionInv is inductive for the writer and its retention run: while   *)
(* the run evicts, each capture has an allowance that covers its bytes,    *)
(* and the allowances add up to no more than what the run has counted and  *)
(* what was inserted since.                                                *)
(***************************************************************************)
EXTENDS Replay, FiniteSetTheorems, DataLemmas, TLAPS

IsFunction(f, S) == f = [x \in S |-> f[x]]

\* The bodies of a capture are those that were hashed until they are evicted.
Whole(c) ==
  /\ c.evicted \in BOOLEAN
  /\ c.data.bodies = IF c.evicted THEN {} ELSE c.hashed

StoreInv ==
  /\ inserts \in Nat
  /\ IsFunction(requests, Ids) /\ IsFunction(captures, Ids)
  /\ \A i \in Ids : HasRow(i) => requests[i].ver \in Nat \ {0} /\ requests[i].ver <= inserts
  /\ \A i \in Ids : HasCapture(i) => HasRow(i) /\ captures[i].ver = requests[i].ver
  /\ \A i \in Ids : Whole(captures[i])
  /\ \A r \in replays : r.original \in Ids /\ HasRow(r.original)

\* What a step may do to the rows.
Rows ==
  /\ inserts' \in Nat /\ inserts <= inserts'
  /\ \A i \in Ids : HasRow(i)' =>
       \/ requests'[i] = requests[i]
       \/ requests'[i].ver \in Nat /\ inserts < requests'[i].ver

\* NoCapture is whole: it has no body and no hash.
LEMMA NothingIsWhole == Whole(NoCapture)
BY DEF Whole, NoCapture, NoPayload

\* It has nothing to send.
LEMMA NothingToSend == NoCapture.data.bodies = {}
BY DEF NoCapture, NoPayload

\* What insert_request writes keeps the store in order.
LEMMA ReplaceKeeps ==
  ASSUME StoreInv, NEW i \in Ids, NEW at, NEW m, NEW c,
         inserts' = inserts + 1,
         c = NoCapture \/ (Whole(c) /\ c.ver = inserts'),
         Replace(i, [ver |-> inserts', at |-> at, meta |-> m], c)
  PROVE  StoreInv' /\ Rows /\ replays' \subseteq replays
<1> DEFINE new == [ver |-> inserts', at |-> at, meta |-> m]
<1>1. inserts' \in Nat \ {0} /\ inserts < inserts' /\ inserts <= inserts'
  BY DEF StoreInv
<1>2. /\ requests' = [requests EXCEPT ![i] = new]
      /\ captures' = [captures EXCEPT ![i] = c]
      /\ replays' = {r \in replays : r.original # i}
  BY DEF Replace, ReplaysOf
<1>3. new.ver = inserts' /\ new # NoRow
  <2>1. NoRow.ver = 0 /\ new.ver = inserts'
    BY DEF NoRow
  <2> QED BY <2>1, <1>1
<1> HIDE DEF new
<1>4. \A j \in Ids : /\ requests'[j] = IF j = i THEN new ELSE requests[j]
                     /\ captures'[j] = IF j = i THEN c ELSE captures[j]
  BY <1>2, Zenon DEF StoreInv, IsFunction
<1>5. IsFunction(requests, Ids)' /\ IsFunction(captures, Ids)'
  BY <1>2, Zenon DEF StoreInv, IsFunction
<1>6. \A j \in Ids : HasRow(j)' => requests'[j].ver \in Nat \ {0} /\ requests'[j].ver <= inserts'
  BY <1>1, <1>3, <1>4 DEF StoreInv, HasRow
<1>7. \A j \in Ids : HasCapture(j)' => HasRow(j)' /\ captures'[j].ver = requests'[j].ver
  BY <1>3, <1>4 DEF StoreInv, HasRow, HasCapture
<1>8. \A j \in Ids : Whole(captures'[j])
  BY <1>4, NothingIsWhole DEF StoreInv
<1>9. \A r \in replays' : r.original \in Ids /\ HasRow(r.original)'
  BY <1>2, <1>4 DEF StoreInv, HasRow
<1>10. StoreInv'
  BY <1>1, <1>5, <1>6, <1>7, <1>8, <1>9 DEF StoreInv, Whole, HasRow, HasCapture
<1>11. Rows
  BY <1>1, <1>3, <1>4 DEF Rows
<1> QED BY <1>2, <1>10, <1>11

\* The retention run's DELETE with its cascades keeps the store in order.
LEMMA DeleteKeeps ==
  ASSUME StoreInv, DeleteExpired
  PROVE  StoreInv' /\ Rows /\ replays' \subseteq replays
<1> DEFINE gone == {i \in Ids : Expired(i)}
<1>1. /\ requests' = [i \in Ids |-> IF i \in gone THEN NoRow ELSE requests[i]]
      /\ captures' = [i \in Ids |-> IF i \in gone THEN NoCapture ELSE captures[i]]
      /\ replays' = {r \in replays : r.original \notin gone}
      /\ inserts' = inserts
  BY DEF DeleteExpired, ReplaysOf
<1> HIDE DEF gone
<1>2. \A i \in Ids : /\ requests'[i] = IF i \in gone THEN NoRow ELSE requests[i]
                     /\ captures'[i] = IF i \in gone THEN NoCapture ELSE captures[i]
  BY <1>1
<1>3. IsFunction(requests, Ids)' /\ IsFunction(captures, Ids)'
  BY <1>1 DEF IsFunction
<1>4. \A i \in Ids : HasRow(i)' => requests'[i].ver \in Nat \ {0} /\ requests'[i].ver <= inserts'
  BY <1>1, <1>2 DEF StoreInv, HasRow
<1>5. \A i \in Ids : HasCapture(i)' => HasRow(i)' /\ captures'[i].ver = requests'[i].ver
  BY <1>2 DEF StoreInv, HasRow, HasCapture
<1>6. \A i \in Ids : Whole(captures'[i])
  BY <1>2, NothingIsWhole DEF StoreInv
<1>7. \A r \in replays' : r.original \in Ids /\ HasRow(r.original)'
  BY <1>1, <1>2 DEF StoreInv, HasRow
<1>8. StoreInv'
  BY <1>1, <1>3, <1>4, <1>5, <1>6, <1>7 DEF StoreInv, Whole, HasRow, HasCapture
<1>9. Rows
  BY <1>1, <1>2 DEF Rows, HasRow, StoreInv
<1> QED BY <1>1, <1>8, <1>9

\* The UPDATE that evicts a capture keeps its record and its hashes.
LEMMA EvictKeeps ==
  ASSUME StoreInv, Evict
  PROVE  StoreInv' /\ Rows /\ replays' \subseteq replays
<1>1. PICK x : captures' = [captures EXCEPT ![x] =
                              IF @ = NoCapture THEN @ ELSE WithoutBodies(@)]
  BY Zenon DEF Evict
<1>2. inserts' = inserts /\ requests' = requests /\ replays' = replays
  BY DEF Evict
<1>3. \A c : /\ WithoutBodies(c).ver = c.ver /\ Whole(WithoutBodies(c))
  BY DEF WithoutBodies, Whole
<1>4. IsFunction(captures, Ids)'
  BY <1>1 DEF StoreInv, IsFunction
<1>5. \A i \in Ids : \/ captures'[i] = captures[i]
                     \/ /\ captures[i] # NoCapture
                        /\ captures'[i] = WithoutBodies(captures[i])
  BY <1>1 DEF StoreInv, IsFunction
<1>6. \A i \in Ids : HasCapture(i)' => HasRow(i)' /\ captures'[i].ver = requests'[i].ver
  BY <1>2, <1>3, <1>5 DEF StoreInv, HasRow, HasCapture
<1>7. \A i \in Ids : Whole(captures'[i])
  BY <1>3, <1>5 DEF StoreInv
<1>8. StoreInv'
  BY <1>2, <1>4, <1>6, <1>7 DEF StoreInv, HasRow, HasCapture, IsFunction, Whole
<1>9. Rows
  BY <1>2 DEF Rows, StoreInv
<1> QED BY <1>2, <1>8, <1>9

\* A step that changes neither a table nor the number of inserts.
LEMMA TablesKept ==
  ASSUME StoreInv, UNCHANGED <<inserts, requests, captures, replays>>
  PROVE  StoreInv' /\ Rows /\ replays' \subseteq replays
BY DEF StoreInv, Rows, HasRow, HasCapture, IsFunction, Whole

\* Every step of the gateway's side of the store: the writer's inserts and the
\* statements of the retention run.
LEMMA StoreStep ==
  ASSUME StoreInv, StoreNext
  PROVE  StoreInv' /\ Rows /\ replays' \subseteq replays
<1>1. ASSUME NEW i \in Ids, Insert(i) PROVE StoreInv' /\ Rows /\ replays' \subseteq replays
  <2> DEFINE Of(at) == {[ver |-> inserts', at |-> at, data |-> p, hashed |-> p.bodies,
                         evicted |-> FALSE] : p \in Payloads}
  <2>0. \E at \in 0 .. now, m \in Metas : \E c \in {NoCapture} \cup Of(at) :
          Replace(i, [ver |-> inserts', at |-> at, meta |-> m], c)
    BY <1>1, Zenon DEF Insert
  <2>1. PICK at \in 0 .. now, m \in Metas : \E c \in {NoCapture} \cup Of(at) :
          Replace(i, [ver |-> inserts', at |-> at, meta |-> m], c)
    BY <2>0
  <2>2. PICK c \in {NoCapture} \cup Of(at) :
          Replace(i, [ver |-> inserts', at |-> at, meta |-> m], c)
    BY <2>1
  <2>3. c = NoCapture \/ (Whole(c) /\ c.ver = inserts')
    <3>1. SUFFICES ASSUME c \in Of(at) PROVE Whole(c) /\ c.ver = inserts'
      BY <2>2
    <3>2. PICK p \in Payloads :
            c = [ver |-> inserts', at |-> at, data |-> p, hashed |-> p.bodies,
                 evicted |-> FALSE]
      BY <3>1
    <3>3. /\ c.ver = inserts' /\ c.data = p /\ c.hashed = p.bodies
          /\ c.evicted = FALSE
      BY <3>2
    <3>4. Whole(c)
      BY <3>3, Zenon DEF Whole
    <3> QED BY <3>3, <3>4
  <2>4. inserts' = inserts + 1
    BY <1>1 DEF Insert
  <2> QED BY <2>2, <2>3, <2>4, ReplaceKeeps
<1>2. CASE DeleteExpired
  BY <1>2, DeleteKeeps
<1>3. CASE Evict
  BY <1>3, EvictKeeps
<1>4. CASE Tick \/ Begin \/ ReadTotal \/ Fetch \/ Finish \/ Fail
  BY <1>4, TablesKept DEF Tick, Begin, ReadTotal, Fetch, Finish, Fail, End, tables
<1> QED BY <1>1, <1>2, <1>3, <1>4 DEF StoreNext, Retention
-----------------------------------------------------------------------------
(* One invocation *)

Reading == {"show", "headers", "assemble"}
Auditing == {"audit_ok", "audit_failure"}
Before == {"start", "list", "show", "headers", "assemble", "build", "send"}

\* The request was sent as ReplayGuarded demands.
Guarded(p) ==
  /\ opts[p].target \notin {"bad", row[p].meta.upstream}
  /\ IsSideEffectMethod(row[p].meta.method) => opts[p].confirm
  /\ row[p].meta.method = "POST" =>
       carried[p] > 0 /\ ~cap[p].data.truncated /\ ~cap[p].evicted
  /\ "request" \in cap[p].hashed /\ carried[p] = 0 => cap[p].evicted

\* What was read, in the order of the reads.
Ordered(p) ==
  /\ row[p].ver \in Nat /\ row[p].ver <= inserts
  /\ hdrs[p] \in Nat /\ hdrs[p] <= inserts
  /\ hdrs[p] > 0 => row[p].ver <= hdrs[p]
  /\ pc[p] \in {"start", "list", "show", "headers"} => hdrs[p] = 0
  /\ pc[p] \in {"headers", "assemble"} /\ HasRow(id[p]) =>
       row[p].ver <= requests[id[p]].ver /\ hdrs[p] <= requests[id[p]].ver

\* The capture that was read, if there was one.
Taken(p) ==
  /\ Whole(cap[p])
  /\ pc[p] \in {"build", "send"} /\ cap[p] # NoCapture =>
       cap[p].ver \in Nat \ {0} /\ row[p].ver <= cap[p].ver /\ hdrs[p] <= cap[p].ver

Local(p) ==
  /\ pc[p] \in Before \cup Auditing \cup {"done"}
  /\ pc[p] \in Reading \cup {"build", "send"} \cup Auditing => id[p] \in Ids
  /\ pc[p] # "done" => outcome[p] = "none"
  /\ sent[p] \in Nat /\ carried[p] \in Nat
  /\ pc[p] \in Before => sent[p] = 0 /\ carried[p] = 0
  /\ pc[p] \in Auditing => sent[p] = 1
  /\ sent[p] > 0 => sent[p] = 1 /\ Guarded(p)
  /\ pc[p] = "send" => BuildError(p) = NoError
  /\ Ordered(p) /\ Taken(p)
  /\ carried[p] > 0 => row[p].ver <= carried[p] /\ hdrs[p] <= carried[p]

Shape ==
  /\ IsFunction(pc, Runs) /\ IsFunction(opts, Runs) /\ IsFunction(id, Runs)
  /\ IsFunction(row, Runs) /\ IsFunction(hdrs, Runs) /\ IsFunction(cap, Runs)
  /\ IsFunction(sent, Runs) /\ IsFunction(carried, Runs) /\ IsFunction(outcome, Runs)

\* What belongs to p does not change.
Same(p) ==
  /\ pc'[p] = pc[p] /\ opts'[p] = opts[p] /\ id'[p] = id[p] /\ row'[p] = row[p]
  /\ hdrs'[p] = hdrs[p] /\ cap'[p] = cap[p] /\ sent'[p] = sent[p]
  /\ carried'[p] = carried[p] /\ outcome'[p] = outcome[p]

\* Ordered, of the numbers that it compares.
LEMMA InOrder ==
  ASSUME NEW p \in Runs, NEW a \in Nat, NEW h \in Nat,
         row'[p].ver = a, hdrs'[p] = h, a <= inserts', h <= inserts',
         h > 0 => a <= h,
         pc'[p] \in {"start", "list", "show", "headers"} => h = 0,
         pc'[p] \in {"headers", "assemble"} /\ requests'[id'[p]] # NoRow =>
           a <= requests'[id'[p]].ver /\ h <= requests'[id'[p]].ver
  PROVE  Ordered(p)'
BY DEF Ordered, HasRow

\* An invocation that does not move keeps its invariant while the store moves:
\* a row that replaces one that was read is newer than all that was read.
LEMMA SameIsLocal ==
  ASSUME NEW p \in Runs, StoreInv, Local(p), Same(p), Rows
  PROVE  Local(p)'
<1>1. Ordered(p)'
  <2>1. pc[p] \in {"headers", "assemble"} /\ requests'[id[p]] # NoRow =>
          row[p].ver <= requests'[id[p]].ver /\ hdrs[p] <= requests'[id[p]].ver
    <3> SUFFICES ASSUME pc[p] \in {"headers", "assemble"}, requests'[id[p]] # NoRow
                 PROVE  row[p].ver <= requests'[id[p]].ver /\ hdrs[p] <= requests'[id[p]].ver
      OBVIOUS
    <3>1. id[p] \in Ids
      BY DEF Local, Reading
    <3>2. CASE requests'[id[p]] = requests[id[p]]
      BY <3>2 DEF Local, Ordered, HasRow
    <3>3. CASE requests'[id[p]].ver \in Nat /\ inserts < requests'[id[p]].ver
      BY <3>3 DEF Local, Ordered, StoreInv
    <3> QED BY <3>1, <3>2, <3>3 DEF Rows, HasRow
  <2>2. /\ row[p].ver \in Nat /\ row[p].ver <= inserts
        /\ hdrs[p] \in Nat /\ hdrs[p] <= inserts
        /\ hdrs[p] > 0 => row[p].ver <= hdrs[p]
        /\ pc[p] \in {"start", "list", "show", "headers"} => hdrs[p] = 0
    BY DEF Local, Ordered
  <2>3. inserts \in Nat /\ inserts' \in Nat /\ inserts <= inserts'
    BY DEF StoreInv, Rows
  <2>4. row[p].ver <= inserts' /\ hdrs[p] <= inserts'
    BY <2>2, <2>3
  <2> QED BY <2>1, <2>2, <2>4, InOrder DEF Same
<1>2. Taken(p)'
  BY DEF Local, Taken, Same, Whole
<1>3. sent[p] > 0 => Guarded(p)'
  BY DEF Local, Guarded, Same
<1>4. pc'[p] = "send" => BuildError(p)' = NoError
  BY DEF Local, BuildError, Same
<1> QED BY <1>1, <1>2, <1>3, <1>4 DEF Local, Same
\* A step of one invocation leaves the others and the gateway's tables alone.
LEMMA OthersSame ==
  ASSUME NEW p \in Runs, Shape, ReplayStep(p)
  PROVE  /\ Shape'
         /\ \A q \in Runs \ {p} : Same(q)
         /\ inserts' = inserts /\ requests' = requests /\ captures' = captures
<1> DEFINE Goal == /\ Shape'
                   /\ \A q \in Runs \ {p} : Same(q)
                   /\ inserts' = inserts /\ requests' = requests /\ captures' = captures
<1> USE DEF Shape, IsFunction, Same, Goto, storeVars
<1>1. ASSUME Start(p) PROVE Goal
  BY <1>1 DEF Start
<1>2. ASSUME List(p) PROVE Goal
  BY <1>2 DEF List, Return
<1>3. ASSUME ShowRow(p) PROVE Goal
  BY <1>3 DEF ShowRow, Return
<1>4. ASSUME ShowHeaders(p) PROVE Goal
  BY <1>4, Zenon DEF ShowHeaders
<1>5. ASSUME ShowCapture(p) PROVE Goal
  BY <1>5, Zenon DEF ShowCapture
<1>6. ASSUME Build(p) PROVE Goal
  BY <1>6 DEF Build, Return
<1>7. ASSUME Send(p) PROVE Goal
  BY <1>7, Zenon DEF Send
<1>8. ASSUME Audited(p) PROVE Goal
  BY <1>8, Zenon DEF Audited, Return
<1>9. ASSUME AuditFails(p) PROVE Goal
  BY <1>9, Zenon DEF AuditFails, Return
<1> HIDE DEF Goal
<1>10. Goal
  BY <1>1, <1>2, <1>3, <1>4, <1>5, <1>6, <1>7, <1>8, <1>9 DEF ReplayStep, Show
<1> QED BY <1>10 DEF Goal

\* A step of an invocation that only moves on, before the request is sent or
\* after it was.
LEMMA MovesOn ==
  ASSUME NEW p \in Runs, StoreInv, Local(p),
         inserts' = inserts, requests' = requests,
         opts'[p] = opts[p], row'[p] = row[p], hdrs'[p] = hdrs[p], cap'[p] = cap[p],
         sent'[p] = sent[p], carried'[p] = carried[p],
         \/ /\ pc'[p] = "done"
            /\ id'[p] = id[p]
         \/ /\ pc[p] = "build" /\ pc'[p] = "send" /\ BuildError(p) = NoError
            /\ id'[p] = id[p] /\ outcome'[p] = outcome[p]
         \/ /\ pc[p] = "list" /\ pc'[p] = "show"
            /\ id'[p] \in Ids /\ outcome'[p] = outcome[p]
  PROVE  Local(p)'
<1>1. Ordered(p)'
  BY DEF Local, Ordered
<1>2. Taken(p)'
  BY DEF Local, Taken, Whole
<1>3. sent[p] > 0 => Guarded(p)'
  BY DEF Local, Guarded
<1>4. BuildError(p)' = BuildError(p)
  BY DEF BuildError
<1> QED BY <1>1, <1>2, <1>3, <1>4 DEF Local, Before, Reading, Auditing

\* What the checks of replay() let through may be sent.
LEMMA BuiltIsGuarded ==
  ASSUME NEW p \in Runs, Local(p), pc[p] = "send",
         carried'[p] = IF "request" \in cap[p].data.bodies THEN cap[p].ver ELSE 0,
         opts'[p] = opts[p], row'[p] = row[p], cap'[p] = cap[p]
  PROVE  Guarded(p)'
<1> DEFINE m == row[p].meta.method
<1>1. BuildError(p) = NoError
  BY DEF Local
<1>2. opts[p].target \notin {"bad", row[p].meta.upstream}
  BY <1>1 DEF BuildError, TargetError, NoError
<1>3. IsSideEffectMethod(m) => opts[p].confirm
  BY <1>1 DEF BuildError, NoError
<1>4. BodyError(m, cap[p]) = NoError
  BY <1>1, <1>2, <1>3 DEF BuildError, NoError
<1>5. m = "POST" => /\ cap[p] # NoCapture /\ ~cap[p].evicted /\ ~cap[p].data.truncated
                    /\ "request" \in cap[p].data.bodies
  BY <1>4 DEF BodyError, MethodRequiresCapturedBody, NoError
<1>6. cap[p] # NoCapture => cap[p].ver > 0 /\ cap[p].ver # 0
  BY DEF Local, Taken
<1>7. m = "POST" => carried'[p] > 0
  BY <1>5, <1>6
<1>8. "request" \in cap[p].data.bodies => cap[p] # NoCapture
  BY NothingToSend
<1>9. "request" \in cap[p].hashed /\ carried'[p] = 0 => cap[p].evicted
  BY <1>6, <1>8 DEF Local, Taken, Whole
<1> QED BY <1>2, <1>3, <1>5, <1>7, <1>9 DEF Guarded
\* An invocation that has sent nothing yet has its invariant from its parts.
LEMMA StillReading ==
  ASSUME NEW p \in Runs, pc'[p] \in {"list", "show", "headers", "assemble", "build"},
         pc'[p] # "list" => id'[p] \in Ids,
         outcome'[p] = "none", sent'[p] = 0, carried'[p] = 0,
         Ordered(p)', Taken(p)'
  PROVE  Local(p)'
BY DEF Local, Before, Reading, Auditing

\* One that has sent its request, likewise.
LEMMA HasSent ==
  ASSUME NEW p \in Runs, pc'[p] \in Auditing, id'[p] \in Ids,
         outcome'[p] = "none", sent'[p] = 1, carried'[p] \in Nat,
         carried'[p] > 0 => row'[p].ver <= carried'[p] /\ hdrs'[p] <= carried'[p],
         Guarded(p)', Ordered(p)', Taken(p)'
  PROVE  Local(p)'
BY DEF Local, Before, Reading, Auditing

\* The audit row that an invocation adds.
LEMMA NewRow ==
  ASSUME NEW p \in Runs, Audited(p)
  PROVE  \E new : /\ replays' = replays \cup {new}
                  /\ new.run = p /\ new.original = id[p]
                  /\ new.ok = StatusRecorded(p)
<1> DEFINE new == [run |-> p, original |-> id[p], ok |-> StatusRecorded(p)]
<1>1. new.run = p /\ new.original = id[p] /\ new.ok = StatusRecorded(p)
  OBVIOUS
<1>2. replays' = replays \cup {new}
  BY DEF Audited
<1> HIDE DEF new
<1> QED BY <1>1, <1>2

\* Every step of an invocation keeps its own invariant, whatever the store
\* holds at that moment.
LEMMA StepIsLocal ==
  ASSUME NEW p \in Runs, StoreInv, Shape, Local(p), ReplayStep(p)
  PROVE  Local(p)'
<1>0. inserts' = inserts /\ requests' = requests /\ captures' = captures
  BY OthersSame
<1>a. Ordered(p) /\ Taken(p)
  BY DEF Local
<1>b. pc[p] \in Before => outcome[p] = "none" /\ sent[p] = 0 /\ carried[p] = 0
  BY DEF Local, Before
<1>c. pc[p] \in Reading => id[p] \in Ids
  BY DEF Local
<1>d. /\ inserts \in Nat
      /\ \A i \in Ids : HasRow(i) => requests[i].ver \in Nat \ {0} /\ requests[i].ver <= inserts
  BY DEF StoreInv
<1> USE <1>0
<1>1. CASE Start(p)
  <2>1. /\ pc[p] = "start" /\ pc'[p] \in {"list", "show"}
        /\ pc'[p] = "show" => id'[p] \in Ids
        /\ UNCHANGED <<row, hdrs, cap, sent, carried, outcome>>
    BY <1>1 DEF Start, Goto, Shape, IsFunction
  <2>2. Ordered(p)'
    BY <1>a, <2>1 DEF Ordered
  <2>3. Taken(p)'
    BY <1>a, <2>1 DEF Taken, Whole
  <2> QED BY <1>b, <2>1, <2>2, <2>3, StillReading DEF Before
<1>2. CASE List(p)
  <2>1. /\ UNCHANGED <<opts, row, hdrs, cap, sent, carried>>
        /\ \/ pc'[p] = "done" /\ id'[p] = id[p]
           \/ /\ pc[p] = "list" /\ pc'[p] = "show"
              /\ id'[p] \in Ids /\ outcome'[p] = outcome[p]
    BY <1>2 DEF List, Return, Goto, FailedIds, Shape, IsFunction
  <2> QED BY <2>1, MovesOn
<1>3. CASE ShowRow(p)
  <2>1. CASE ~HasRow(id[p])
    <3>1. /\ UNCHANGED <<opts, id, row, hdrs, cap, sent, carried>>
          /\ pc'[p] = "done"
      BY <1>3, <2>1 DEF ShowRow, Return, Goto, Shape, IsFunction
    <3> QED BY <3>1, MovesOn
  <2>2. CASE HasRow(id[p])
    <3>1. /\ UNCHANGED <<opts, id, hdrs, cap, sent, carried, outcome>>
          /\ pc[p] = "show" /\ pc'[p] = "headers"
          /\ row'[p] = requests[id[p]]
      BY <1>3, <2>2 DEF ShowRow, Return, Goto, Shape, IsFunction
    <3>2. id[p] \in Ids
      BY <1>c, <3>1 DEF Reading
    <3>3. row'[p].ver \in Nat /\ row'[p].ver <= inserts
      BY <1>d, <2>2, <3>1, <3>2
    <3>4. Ordered(p)'
      <4>1. hdrs'[p] = 0
        BY <1>a, <3>1 DEF Ordered
      <4>2. /\ requests'[id'[p]] = row'[p] /\ inserts' = inserts
            /\ pc'[p] = "headers"
        BY <3>1
      <4> QED BY <1>d, <3>3, <4>1, <4>2, InOrder
    <3>5. Taken(p)'
      BY <1>a, <3>1 DEF Taken, Whole
    <3> QED BY <1>b, <3>1, <3>2, <3>4, <3>5, StillReading DEF Before
  <2> QED BY <2>1, <2>2, SMTT(20)
<1>4. CASE ShowHeaders(p)
  <2>1. /\ UNCHANGED <<opts, id, row, cap, sent, carried, outcome>>
        /\ pc[p] = "headers" /\ pc'[p] = "assemble"
        /\ hdrs'[p] = IF HasRow(id[p]) THEN requests[id[p]].ver ELSE 0
    BY <1>4 DEF ShowHeaders, Goto, Shape, IsFunction
  <2>2. id[p] \in Ids
    BY <1>c, <2>1 DEF Reading
  <2>3. hdrs'[p] \in Nat /\ hdrs'[p] <= inserts
    <3>1. CASE HasRow(id[p])
      <4>1. hdrs'[p] = requests[id[p]].ver
        BY <2>1, <3>1
      <4> QED BY <1>d, <2>2, <3>1, <4>1
    <3>2. CASE ~HasRow(id[p])
      <4>1. hdrs'[p] = 0
        BY <2>1, <3>2
      <4> QED BY <1>d, <4>1
    <3> QED BY <3>1, <3>2
  <2>4. Ordered(p)'
    <3>1. /\ HasRow(id[p]) => row[p].ver <= requests[id[p]].ver
          /\ row[p].ver \in Nat /\ row[p].ver <= inserts
      BY <1>a, <2>1 DEF Ordered
    <3>2. /\ row'[p] = row[p] /\ requests'[id'[p]] = requests[id[p]]
          /\ inserts' = inserts /\ pc'[p] = "assemble"
      BY <2>1
    <3>3. pc'[p] \notin {"start", "list", "show", "headers"}
      BY <3>2
    <3>4. /\ hdrs'[p] > 0 => row[p].ver <= hdrs'[p]
          /\ HasRow(id[p]) => hdrs'[p] <= requests[id[p]].ver
      <4>1. CASE HasRow(id[p])
        <5>1. hdrs'[p] = requests[id[p]].ver /\ requests[id[p]].ver \in Nat
          BY <1>d, <2>1, <2>2, <4>1
        <5> QED BY <3>1, <4>1, <5>1
      <4>2. CASE ~HasRow(id[p])
        <5>1. hdrs'[p] = 0
          BY <2>1, <4>2
        <5>2. ~(hdrs'[p] > 0)
          BY <5>1
        <5> QED BY <4>2, <5>2
      <4> QED BY <4>1, <4>2
    <3>5. row[p].ver <= inserts' /\ hdrs'[p] <= inserts'
      BY <2>3, <3>1, <3>2
    <3> QED BY <2>3, <3>1, <3>2, <3>3, <3>4, <3>5, InOrder DEF HasRow
  <2>5. Taken(p)'
    BY <1>a, <2>1, SMTT(20) DEF Taken, Whole
  <2> QED BY <1>b, <2>1, <2>2, <2>4, <2>5, StillReading DEF Before
<1>5. CASE ShowCapture(p)
  <2>1. /\ UNCHANGED <<opts, id, row, hdrs, sent, carried, outcome>>
        /\ pc[p] = "assemble" /\ pc'[p] = "build"
        /\ cap'[p] = captures[id[p]]
    BY <1>5 DEF ShowCapture, Goto, Shape, IsFunction
  <2>2. id[p] \in Ids
    BY <1>c, <2>1, SMTT(20) DEF Reading
  <2>3. Ordered(p)'
    BY <1>a, <2>1 DEF Ordered
  <2>4. cap'[p] # NoCapture => /\ HasRow(id[p]) /\ cap'[p].ver = requests[id[p]].ver
                               /\ requests[id[p]].ver \in Nat \ {0}
    BY <2>1, <2>2 DEF StoreInv, HasCapture
  <2>5. Whole(cap'[p])
    BY <2>1, <2>2, SMTT(20) DEF StoreInv
  <2>6. Taken(p)'
    BY <1>a, <2>1, <2>4, <2>5, Zenon DEF Ordered, Taken, Whole
  <2> QED BY <1>b, <2>1, <2>2, <2>3, <2>6, StillReading DEF Before
<1>6. CASE Build(p)
  <2>1. /\ UNCHANGED <<opts, id, row, hdrs, cap, sent, carried>>
        /\ pc[p] = "build"
        /\ \/ pc'[p] = "done"
           \/ pc'[p] = "send" /\ BuildError(p) = NoError /\ outcome'[p] = outcome[p]
    BY <1>6 DEF Build, Return, Goto, Shape, IsFunction
  <2> QED BY <2>1, MovesOn, Zenon
<1>7. CASE Send(p)
  <2>1. /\ UNCHANGED <<opts, id, row, hdrs, cap, outcome>>
        /\ pc[p] = "send" /\ pc'[p] \in Auditing
        /\ sent'[p] = sent[p] + 1
        /\ carried'[p] = IF "request" \in cap[p].data.bodies THEN cap[p].ver ELSE 0
    BY <1>7 DEF Send, Goto, Auditing, Shape, IsFunction
  <2>2. Guarded(p)'
    BY <2>1, BuiltIsGuarded
  <2>3. Ordered(p)'
    BY <1>a, <2>1 DEF Ordered, Auditing
  <2>4. Taken(p)'
    BY <1>a, <2>1 DEF Taken, Whole, Auditing
  <2>5. /\ carried'[p] \in Nat
        /\ carried'[p] > 0 => row[p].ver <= carried'[p] /\ hdrs[p] <= carried'[p]
    <3>1. CASE "request" \notin cap[p].data.bodies
      <4>1. carried'[p] = 0
        BY <2>1, <3>1
      <4>2. carried'[p] \in Nat /\ ~(carried'[p] > 0)
        BY <4>1
      <4> QED BY <4>2
    <3>2. CASE "request" \in cap[p].data.bodies
      <4>1. cap[p] # NoCapture
        BY <3>2, NothingToSend
      <4>2. cap[p].ver \in Nat /\ row[p].ver <= cap[p].ver /\ hdrs[p] <= cap[p].ver
        BY <1>a, <2>1, <4>1 DEF Taken
      <4>3. carried'[p] = cap[p].ver
        BY <2>1, <3>2
      <4> QED BY <4>2, <4>3
    <3> QED BY <3>1, <3>2
  <2>6. sent'[p] = 1
    <3>1. sent[p] = 0
      BY <1>b, <2>1 DEF Before
    <3> QED BY <2>1, <3>1
  <2>7. id'[p] \in Ids /\ outcome'[p] = "none"
    <3>1. id[p] \in Ids /\ outcome[p] = "none"
      BY <2>1 DEF Local
    <3> QED BY <2>1, <3>1
  <2>8. row'[p] = row[p] /\ hdrs'[p] = hdrs[p]
    BY <2>1
  <2> QED BY <2>1, <2>2, <2>3, <2>4, <2>5, <2>6, <2>7, <2>8, HasSent
<1>8. CASE Audited(p) \/ AuditFails(p)
  <2>1. /\ UNCHANGED <<opts, id, row, hdrs, cap, sent, carried>>
        /\ pc'[p] = "done"
    BY <1>8, SMTT(20) DEF Audited, AuditFails, Return, Goto, Shape, IsFunction
  <2> QED BY <2>1, MovesOn
<1> QED BY <1>1, <1>2, <1>3, <1>4, <1>5, <1>6, <1>7, <1>8 DEF ReplayStep, Show
-----------------------------------------------------------------------------
(* The audit rows *)

\* An invocation that has a row has returned.
AuditInv ==
  /\ AuditRows
  /\ \A r \in replays : r.run \in Runs /\ pc[r.run] = "done"

\* Rows only go while the invocations that wrote them do not move.
LEMMA FewerRows ==
  ASSUME AuditInv, replays' \subseteq replays,
         \A r \in replays : Same(r.run)
  PROVE  AuditInv'
BY DEF AuditInv, AuditRows, Same

\* Every step of an invocation keeps the audit true.
LEMMA StepIsAudited ==
  ASSUME NEW p \in Runs, Shape, Local(p), AuditInv, ReplayStep(p)
  PROVE  AuditInv'
<1>1. pc[p] # "done"
  BY Zenon DEF ReplayStep, Show, Start, List, ShowRow, ShowHeaders, ShowCapture, Build,
         Send, Audited, AuditFails
<1>2. \A r \in replays : r.run # p /\ Same(r.run)
  BY <1>1, OthersSame DEF AuditInv
<1>3. CASE ~Audited(p)
  <2>1. replays' = replays
    BY <1>3, Zenon DEF ReplayStep, Show, Start, List, ShowRow, ShowHeaders, ShowCapture,
                Build, Send, AuditFails, storeVars
  <2> QED BY <1>2, <2>1, FewerRows, SMTT(20)
<1>4. CASE Audited(p)
  <2>1. PICK new : /\ replays' = replays \cup {new}
                   /\ new.run = p /\ new.original = id[p]
                   /\ new.ok = StatusRecorded(p)
    BY <1>4, NewRow
  <2>2. outcome'[p] = IF new.ok THEN "ok" ELSE "dispatch_failed"
    BY <1>4, <2>1, Zenon DEF Audited, Return, StatusRecorded, Shape, IsFunction
  <2>3. sent'[p] = 1 /\ id'[p] = id[p] /\ pc'[p] = "done"
    BY <1>4 DEF Audited, Return, Goto, Local, Auditing, Shape, IsFunction
  <2>4. \A r \in replays' : r.run \in Runs /\ pc'[r.run] = "done"
    BY <1>2, <2>1, <2>3, Zenon DEF AuditInv, Same
  <2>5. \A r \in replays' : /\ sent'[r.run] = 1 /\ id'[r.run] = r.original
                            /\ outcome'[r.run] = IF r.ok THEN "ok" ELSE "dispatch_failed"
    <3>1. ASSUME NEW r \in replays
          PROVE  /\ sent'[r.run] = 1 /\ id'[r.run] = r.original
                 /\ outcome'[r.run] = IF r.ok THEN "ok" ELSE "dispatch_failed"
      BY <1>2 DEF AuditInv, AuditRows, Same
    <3>2. sent'[new.run] = 1 /\ id'[new.run] = new.original
      BY <2>1, <2>3
    <3>3. outcome'[new.run] = IF new.ok THEN "ok" ELSE "dispatch_failed"
      BY <2>1, <2>2
    <3>4. \A r \in replays' : r \in replays \/ r = new
      BY <2>1
    <3> QED BY <3>1, <3>2, <3>3, <3>4, Zenon
  <2>6. \A r, s \in replays' : r.run = s.run => r = s
    BY <1>2, <2>1 DEF AuditInv, AuditRows
  <2> QED BY <2>4, <2>5, <2>6, Zenon DEF AuditInv, AuditRows
<1> QED BY <1>3, <1>4, SMTT(20)

\* A step of an invocation keeps the store in order; a new audit row has the
\* stored request that its foreign key names.
LEMMA StepKeepsStore ==
  ASSUME NEW p \in Runs, StoreInv, Shape, Local(p), ReplayStep(p)
  PROVE  StoreInv' /\ Rows
<1>1. inserts' = inserts /\ requests' = requests /\ captures' = captures
  BY OthersSame
<1>2. \A r \in replays' : r.original \in Ids /\ HasRow(r.original)
  <2>1. CASE ~Audited(p)
    <3>1. replays' = replays
      BY <2>1, Zenon DEF ReplayStep, Show, Start, List, ShowRow, ShowHeaders, ShowCapture,
                  Build, Send, AuditFails, storeVars
    <3> QED BY <3>1, SMTT(20) DEF StoreInv
  <2>2. CASE Audited(p)
    <3>1. id[p] \in Ids /\ HasRow(id[p])
      BY <2>2 DEF Audited, Local, Auditing
    <3>2. \A r \in replays' : r \in replays \/ r.original = id[p]
      BY <2>2, NewRow
    <3> QED BY <3>1, <3>2, Zenon DEF StoreInv
  <2> QED BY <2>1, <2>2
<1> QED BY <1>1, <1>2 DEF StoreInv, Rows, HasRow, HasCapture, IsFunction, Whole

-----------------------------------------------------------------------------
(* The theorems *)

IInv == StoreInv /\ Shape /\ (\A p \in Runs : Local(p)) /\ AuditInv

\* The invariant holds at the start.
LEMMA IInvInit == Init => IInv
<1> SUFFICES ASSUME Init PROVE IInv
  OBVIOUS
<1>1. StoreInv
  BY NothingIsWhole DEF Init, StoreInit, StoreInv, IsFunction, HasRow, HasCapture
<1>2. Shape
  BY DEF Init, Shape, IsFunction
<1>3. ASSUME NEW p \in Runs PROVE Local(p)
  <2>1. row[p].ver = 0 /\ cap[p] = NoCapture
    BY DEF Init, NoRow
  <2>2. Ordered(p) /\ Taken(p)
    BY <2>1, NothingIsWhole DEF Init, StoreInit, Ordered, Taken
  <2> QED BY <2>2 DEF Init, Local, Before, Reading, Auditing
<1>4. AuditInv
  BY DEF Init, StoreInit, AuditInv, AuditRows
<1> QED BY <1>1, <1>2, <1>3, <1>4 DEF IInv

\* Every step keeps it.
LEMMA IInvStep ==
  ASSUME IInv, [Next]_vars
  PROVE  IInv'
<1> USE DEF IInv
<1>1. ASSUME UNCHANGED replayVars, StoreInv', Rows, replays' \subseteq replays PROVE IInv'
  <2>1. \A p : Same(p)
    BY <1>1 DEF replayVars, Same
  <2>2. \A p \in Runs : Local(p)'
    BY <1>1, <2>1, SameIsLocal
  <2>3. AuditInv'
    BY <1>1, <2>1, FewerRows
  <2>4. Shape'
    BY <1>1 DEF replayVars, Shape, IsFunction
  <2> QED BY <1>1, <2>2, <2>3, <2>4
<1>2. CASE StoreNext /\ UNCHANGED replayVars
  BY <1>1, <1>2, StoreStep
<1>3. CASE UNCHANGED vars
  BY <1>1, <1>3, TablesKept DEF vars, storeVars
<1>4. ASSUME NEW p \in Runs, ReplayStep(p) PROVE IInv'
  <2>1. Shape' /\ \A q \in Runs \ {p} : Same(q)
    BY <1>4, OthersSame
  <2>2. StoreInv' /\ Rows
    BY <1>4, StepKeepsStore
  <2>3. \A q \in Runs : Local(q)'
    BY <1>4, <2>1, <2>2, StepIsLocal, SameIsLocal
  <2>4. AuditInv'
    BY <1>4, StepIsAudited
  <2> QED BY <2>1, <2>2, <2>3, <2>4
<1> QED BY <1>2, <1>3, <1>4 DEF Next

\* So it always holds.
LEMMA IInvHolds == Spec => []IInv
BY IInvInit, IInvStep, PTL DEF Spec

\* Whatever the writer, the retention run and any number of replays do in any
\* order, captures belong to the stored record of their id, audits to a stored
\* request, and evicted bodies are gone (StoreConsistent).
THEOREM StoreStaysConsistent == Spec => []StoreConsistent
<1>1. IInv => StoreConsistent
  BY DEF IInv, StoreInv, StoreConsistent, Whole
<1> QED BY <1>1, IInvHolds, PTL

\* No interleaving of the reads with the gateway's writes gets a request past
\* the checks of replay(): ReplayGuarded, for every store and every invocation.
THEOREM ReplaysAreGuarded == Spec => []ReplayGuarded
<1>1. IInv => ReplayGuarded
  BY DEF IInv, Local, Guarded, ReplayGuarded
<1> QED BY <1>1, IInvHolds, PTL

\* The rows that a replay puts together never go back in time (BodyNotOlder).
THEOREM BodiesAreNotOlder == Spec => []BodyNotOlder
<1>1. IInv => BodyNotOlder
  BY DEF IInv, Local, Ordered, BodyNotOlder
<1> QED BY <1>1, IInvHolds, PTL

\* A row of replay_runs tells what happened, and replay() returns what a row
\* would tell only when it has written one (AuditTruthful).
THEOREM AuditsAreTruthful == Spec => AuditTruthful
<1> DEFINE Told == \A p \in Runs :
                     outcome[p] = "none" /\ outcome'[p] \in {"ok", "dispatch_failed"}
                       => \E r \in replays' : r.run = p
<1>1. ASSUME IInv, [Next]_vars PROVE Told
  <2>1. CASE UNCHANGED outcome
    BY <2>1
  <2>2. ASSUME NEW q \in Runs, ReplayStep(q), ~UNCHANGED outcome PROVE Told
    <3>1. Shape /\ \A p \in Runs \ {q} : Same(p)
      BY <1>1, <2>2, OthersSame DEF IInv
    <3>2. CASE Audited(q)
      <4>1. \E r \in replays' : r.run = q
        BY <3>2, NewRow
      <4> QED BY <3>1, <4>1 DEF Same
    <3>3. CASE ~Audited(q)
      <4>1. outcome'[q] \notin {"ok", "dispatch_failed"}
        <5>1. List(q) \/ ShowRow(q) \/ Build(q) \/ AuditFails(q)
          BY <2>2, <3>3, Zenon DEF ReplayStep, Show, Start, ShowHeaders, ShowCapture, Send
        <5>2. CASE List(q) \/ ShowRow(q) \/ AuditFails(q)
          BY <2>2, <3>1, <5>2, SMTT(20) DEF List, ShowRow, AuditFails, Return, Shape, IsFunction
        <5>3. CASE Build(q)
          <6>1. outcome'[q] = BuildError(q)
            BY <2>2, <3>1, <5>3, SMTT(20) DEF Build, Return, Shape, IsFunction
          <6>2. \A m, c : BodyError(m, c) \notin {"ok", "dispatch_failed"}
            BY Zenon DEF BodyError, NoError
          <6>3. \A t, u : TargetError(t, u) \notin {"ok", "dispatch_failed"}
            BY DEF TargetError, NoError
          <6> QED BY <6>1, <6>2, <6>3 DEF BuildError
        <5> QED BY <5>1, <5>2, <5>3, SMTT(20)
      <4> QED BY <3>1, <4>1 DEF Same
    <3> QED BY <3>2, <3>3
  <2> QED BY <1>1, <2>1, <2>2 DEF Next, vars, replayVars
<1>2. IInv /\ IInv' /\ [Next]_vars => AuditRows' /\ Told
  BY <1>1 DEF IInv, AuditInv
<1> QED BY <1>2, IInvHolds, PTL DEF Spec, AuditTruthful
-----------------------------------------------------------------------------
(* Sums over a finite set *)

Some(s) == CHOOSE x \in s : TRUE

\* The recursion by which SumFunctionOnSet adds up f: g is its sum over every
\* subset of S.
Sums(g, f, S) ==
  g = [s \in SUBSET S |-> IF s = {} THEN 0 ELSE f[Some(s)] + g[s \ {Some(s)}]]

\* How a sum goes on from one set to the next.
LEMMA SumsStep ==
  ASSUME NEW g, NEW f, NEW S, Sums(g, f, S)
  PROVE  \A s \in SUBSET S : g[s] = IF s = {} THEN 0 ELSE f[Some(s)] + g[s \ {Some(s)}]
BY DEF Sums

\* A set without one of its members is a smaller finite set.
LEMMA Smaller ==
  ASSUME NEW S, IsFiniteSet(S), NEW s \in SUBSET S, NEW n \in Nat
  PROVE  /\ Cardinality(s) \in Nat
         /\ Cardinality(s) <= 0 => s = {}
         /\ s # {} => Some(s) \in s /\ s \ {Some(s)} \in SUBSET S
         /\ s # {} /\ Cardinality(s) <= n + 1 => Cardinality(s \ {Some(s)}) <= n
<1>1. IsFiniteSet(s) /\ Cardinality(s) \in Nat
  BY FS_Subset, FS_CardinalityType
<1>2. Cardinality(s) = 0 <=> s = {}
  BY <1>1, FS_EmptySet
<1>3. s # {} => Some(s) \in s
  BY DEF Some
<1>4. s # {} => Cardinality(s \ {Some(s)}) = Cardinality(s) - 1
  BY <1>1, <1>3, FS_RemoveElement, Zenon
<1>5. s # {} => s \ {Some(s)} \in SUBSET S
  OBVIOUS
<1> QED
  BY <1>1, <1>2, <1>3, <1>4, <1>5

\* There is such a function for every finite set.
LEMMA SumsExists ==
  ASSUME NEW S, IsFiniteSet(S), NEW f \in [S -> Int]
  PROVE  \E g : Sums(g, f, S)
<1> DEFINE Rec(g, s) == IF s = {} THEN 0 ELSE f[Some(s)] + g[s \ {Some(s)}]
           Upto(g, n) == \A s \in SUBSET S : Cardinality(s) <= n => g[s] = Rec(g, s)
           T == {n \in Nat : \E g \in [SUBSET S -> Int] : Upto(g, n)}
<1>1. 0 \in T
  <2>1. [s \in SUBSET S |-> 0] \in [SUBSET S -> Int]
    OBVIOUS
  <2>2. \A s \in SUBSET S : Cardinality(s) <= 0 => s = {}
    BY Smaller, Zenon
  <2>3. Upto([s \in SUBSET S |-> 0], 0)
    BY <2>2
  <2> QED
    BY <2>1, <2>3, Zenon
<1>2. ASSUME NEW n \in Nat, n \in T PROVE n + 1 \in T
  <2>1. PICK g \in [SUBSET S -> Int] : Upto(g, n)
    BY <1>2, Zenon
  <2> DEFINE h == [s \in SUBSET S |-> Rec(g, s)]
  <2>2. \A s \in SUBSET S : s # {} => /\ Some(s) \in S /\ s \ {Some(s)} \in SUBSET S
                                      /\ f[Some(s)] \in Int /\ g[s \ {Some(s)}] \in Int
    BY <2>1, Smaller
  <2>3. h \in [SUBSET S -> Int]
    BY <2>2
  <2>4. \A s \in SUBSET S : h[s] = Rec(g, s)
    OBVIOUS
  <2>5. \A s \in SUBSET S : Cardinality(s) <= n => h[s] = g[s]
    BY <2>1, <2>4
  <2> HIDE DEF h
  <2>6. Upto(h, n + 1)
    <3> SUFFICES ASSUME NEW s \in SUBSET S, Cardinality(s) <= n + 1 PROVE h[s] = Rec(h, s)
      OBVIOUS
    <3>1. s # {} => Cardinality(s \ {Some(s)}) <= n /\ s \ {Some(s)} \in SUBSET S
      BY Smaller
    <3>2. s # {} => h[s \ {Some(s)}] = g[s \ {Some(s)}]
      BY <2>5, <3>1
    <3>3. h[s] = Rec(g, s)
      BY <2>4
    <3>4. CASE s = {}
      BY <3>3, <3>4
    <3>5. CASE s # {}
      BY <3>2, <3>3, <3>5
    <3> QED
      BY <3>4, <3>5
  <2> HIDE DEF Upto
  <2>7. \E k \in [SUBSET S -> Int] : Upto(k, n + 1)
    BY <2>3, <2>6
  <2> QED
    BY <2>7
<1> HIDE DEF T
<1>3. Cardinality(S) \in T
  <2>1. Cardinality(S) \in Nat
    BY FS_CardinalityType
  <2> QED
    BY <1>1, <1>2, <2>1, Induction
<1>4. PICK g \in [SUBSET S -> Int] : Upto(g, Cardinality(S))
  BY <1>3, Zenon DEF T
<1>5. \A s \in SUBSET S : Cardinality(s) <= Cardinality(S)
  BY FS_Subset
<1>6. \A s \in SUBSET S : g[s] = Rec(g, s)
  BY <1>4, <1>5
<1>7. g = [s \in SUBSET S |-> Rec(g, s)]
  BY <1>4, <1>6
<1> QED
  BY <1>7, Zenon DEF Sums

\* What SumFunctionOnSet gives is the last of these sums.
LEMMA SumIsLast ==
  ASSUME NEW S, IsFiniteSet(S), NEW f \in [S -> Int]
  PROVE  \E g : Sums(g, f, S) /\ SumFunctionOnSet(f, S) = g[S]
<1> DEFINE g == CHOOSE g : Sums(g, f, S)
<1>1. SumFunctionOnSet(f, S) = g[S]
  BY DEF SumFunctionOnSet, FoldFunctionOnSet, MapThenFoldSet, Sums, Some
<1>2. Sums(g, f, S)
  BY SumsExists
<1> HIDE DEF g
<1> QED
  BY <1>1, <1>2

\* When h is at most f, but for one x where it is at most d more, the sum of h
\* is at most d more than that of f (and not more at all if x is not summed).
LEMMA SumBound ==
  ASSUME NEW S, IsFiniteSet(S), NEW f \in [S -> Int], NEW h \in [S -> Int],
         NEW x, NEW d \in Int,
         \A y \in S : h[y] <= IF y = x THEN f[y] + d ELSE f[y]
  PROVE  /\ SumFunctionOnSet(f, S) \in Int /\ SumFunctionOnSet(h, S) \in Int
         /\ SumFunctionOnSet(h, S) <= IF x \in S THEN SumFunctionOnSet(f, S) + d
                                                ELSE SumFunctionOnSet(f, S)
<1>1. PICK a : Sums(a, f, S) /\ SumFunctionOnSet(f, S) = a[S]
  BY SumIsLast
<1>2. PICK b : Sums(b, h, S) /\ SumFunctionOnSet(h, S) = b[S]
  BY SumIsLast
<1>3. \A s \in SUBSET S : /\ a[s] = IF s = {} THEN 0 ELSE f[Some(s)] + a[s \ {Some(s)}]
                          /\ b[s] = IF s = {} THEN 0 ELSE h[Some(s)] + b[s \ {Some(s)}]
  <2>1. \A s \in SUBSET S : a[s] = IF s = {} THEN 0 ELSE f[Some(s)] + a[s \ {Some(s)}]
    BY <1>1, SumsStep
  <2>2. \A s \in SUBSET S : b[s] = IF s = {} THEN 0 ELSE h[Some(s)] + b[s \ {Some(s)}]
    BY <1>2, SumsStep
  <2> QED
    BY <2>1, <2>2
<1> DEFINE Holds(s) == /\ a[s] \in Int /\ b[s] \in Int
                       /\ b[s] <= IF x \in s THEN a[s] + d ELSE a[s]
           T == {n \in Nat : \A s \in SUBSET S : Cardinality(s) <= n => Holds(s)}
<1>4. Holds({})
  <2>1. {} \in SUBSET S
    OBVIOUS
  <2>2. a[{}] = 0 /\ b[{}] = 0
    BY <1>3, <2>1, Zenon
  <2> QED
    BY <2>2
<1>5. 0 \in T
  BY <1>4, Smaller, Zenon
<1>6. ASSUME NEW n \in Nat, n \in T PROVE n + 1 \in T
  <2> HIDE DEF Holds
  <2> SUFFICES ASSUME NEW s \in SUBSET S, Cardinality(s) <= n + 1, s # {} PROVE Holds(s)
    BY <1>4
  <2> DEFINE y == Some(s)
             r == s \ {y}
  <2>1. y \in s /\ y \in S /\ r \in SUBSET S /\ Cardinality(r) <= n
    BY Smaller
  <2>2. Holds(r)
    BY <1>6, <2>1
  <2>3. a[s] = f[y] + a[r] /\ b[s] = h[y] + b[r]
    BY <1>3, Zenon
  <2>4. /\ f[y] \in Int /\ h[y] \in Int /\ h[y] <= IF y = x THEN f[y] + d ELSE f[y]
    BY <2>1
  <2>5. x \in r <=> x \in s /\ x # y
    OBVIOUS
  <2> HIDE DEF y, r
  <2> USE DEF Holds
  <2>6. CASE y = x
    BY <2>1, <2>2, <2>3, <2>4, <2>5, <2>6
  <2>7. CASE y # x
    BY <2>1, <2>2, <2>3, <2>4, <2>5, <2>7
  <2> QED
    BY <2>6, <2>7
<1> HIDE DEF T
<1>7. Cardinality(S) \in T
  <2>1. Cardinality(S) \in Nat
    BY FS_CardinalityType
  <2> QED
    BY <1>5, <1>6, <2>1, Induction
<1>8. Holds(S)
  <2>1. Cardinality(S) \in Nat /\ Cardinality(S) <= Cardinality(S)
    BY FS_CardinalityType
  <2> QED
    BY <1>7, <2>1 DEF T
<1> QED
  BY <1>1, <1>2, <1>8
\* A sum is a number and grows with what is added up.
LEMMA SumMonotone ==
  ASSUME NEW S, IsFiniteSet(S), NEW f \in [S -> Int], NEW h \in [S -> Int],
         \A y \in S : h[y] <= f[y]
  PROVE  /\ SumFunctionOnSet(f, S) \in Int /\ SumFunctionOnSet(h, S) \in Int
         /\ SumFunctionOnSet(h, S) <= SumFunctionOnSet(f, S)
<1> DEFINE d == 0
<1>1. d \in Int /\ \A k \in Int : k + d = k
  OBVIOUS
<1> HIDE DEF d
<1>2. \A y \in S : h[y] <= IF y = S THEN f[y] + d ELSE f[y]
  BY <1>1
<1>3. /\ SumFunctionOnSet(f, S) \in Int /\ SumFunctionOnSet(h, S) \in Int
      /\ SumFunctionOnSet(h, S) <= IF S \in S THEN SumFunctionOnSet(f, S) + d
                                             ELSE SumFunctionOnSet(f, S)
  BY <1>1, <1>2, SumBound, Zenon
<1> QED
  BY <1>1, <1>3

-----------------------------------------------------------------------------
(* The retention run and the writer (StoreSpec) *)

\* What the bodies in the store and the candidates still to be evicted may
\* take together: w gives every id an allowance that covers its stored body
\* as well as the length the run has read for it, and the allowances are
\* within the run's `total` and what was inserted since.
Covers(w) ==
  /\ \A i \in Ids : captures[i].data.bytes <= w[i]
  /\ \A c \in todo : c.bytes <= w[c.id]
  /\ SumFunctionOnSet(w, Ids) <= total + added

Covered == \E w \in [Ids -> Nat] : Covers(w)

\* The invariant of the retention run.
RetentionInv ==
  /\ now \in Nat /\ inserts \in Nat
  /\ IsFunction(requests, Ids) /\ IsFunction(captures, Ids)
  /\ \A i \in Ids : requests[i].at \in Int /\ captures[i].data.bytes \in Nat
  /\ rpc \in {"idle", "delete", "total", "fetch", "evict"}
  /\ rpc = "delete" => cutoff \in Int /\ cutoff <= now - Days
  /\ rpc \in {"fetch", "evict"} => total \in Int /\ added \in Nat /\ Covered
  /\ rpc = "evict" => total > MaxTotal
  /\ rpc # "evict" => todo = {}
  /\ \A c \in todo : c.id \in Ids /\ c.bytes \in Nat
  /\ \A c, d \in todo : c.id = d.id => c = d

\* What is there where no row is.
LEMMA NoCaptureFields ==
  NoCapture.data.bytes = 0 /\ NoCapture.evicted = FALSE /\ NoRow.at = 0 /\ NoRow.ver = 0
BY DEF NoCapture, NoPayload, NoRow

\* The rows that insert_request writes.
LEMMA InsertRows ==
  ASSUME RetentionInv, NEW i \in Ids, Insert(i)
  PROVE  \E row0, c :
           /\ row0.at \in Int /\ row0 # NoRow
           /\ c.data.bytes \in Nat /\ c.evicted = FALSE
           /\ c.data.bodies = {} => c.data.bytes = 0
           /\ requests' = [requests EXCEPT ![i] = row0]
           /\ captures' = [captures EXCEPT ![i] = c]
           /\ added' = IF rpc \in {"fetch", "evict"} THEN added + c.data.bytes ELSE added
<1> DEFINE Of(at) == {[ver |-> inserts', at |-> at, data |-> p, hashed |-> p.bodies,
                       evicted |-> FALSE] : p \in Payloads}
           Wrote(at, m, c) ==
             /\ Replace(i, [ver |-> inserts', at |-> at, meta |-> m], c)
             /\ added' = IF rpc \in {"fetch", "evict"} THEN added + c.data.bytes ELSE added
<1>1. \E at \in 0 .. now, m \in Metas : \E c \in {NoCapture} \cup Of(at) : Wrote(at, m, c)
  BY Zenon DEF Insert
<1>2. PICK at \in 0 .. now, m \in Metas : \E c \in {NoCapture} \cup Of(at) : Wrote(at, m, c)
  BY <1>1
<1>3. PICK c \in {NoCapture} \cup Of(at) : Wrote(at, m, c)
  BY <1>2
<1>4. /\ c.data.bytes \in Nat /\ c.evicted = FALSE
      /\ c.data.bodies = {} => c.data.bytes = 0
  <2>1. CASE c = NoCapture
    <3>1. 0 \in Nat
      OBVIOUS
    <3> QED
      BY <2>1, <3>1, NoCaptureFields, Zenon
  <2>2. CASE c \in Of(at)
    <3>1. PICK p \in Payloads :
            c = [ver |-> inserts', at |-> at, data |-> p, hashed |-> p.bodies,
                 evicted |-> FALSE]
      BY <2>2
    <3>2. c.data = p /\ c.evicted = FALSE
      BY <3>1
    <3> QED
      BY <3>2, StoreAssumption
  <2> QED
    BY <1>3, <2>1, <2>2, Zenon
<1> DEFINE row0 == [ver |-> inserts', at |-> at, meta |-> m]
<1>5. inserts' \in Nat /\ inserts' # 0 /\ at \in Int
  BY DEF Insert, RetentionInv
<1>6. row0.at = at /\ row0.ver = inserts'
  OBVIOUS
<1>7. /\ requests' = [requests EXCEPT ![i] = row0]
      /\ captures' = [captures EXCEPT ![i] = c]
      /\ added' = IF rpc \in {"fetch", "evict"} THEN added + c.data.bytes ELSE added
  BY <1>3, SMTT(20) DEF Replace
<1> HIDE DEF row0
<1>8. row0.at \in Int /\ row0 # NoRow
  BY <1>5, <1>6, NoCaptureFields
<1> QED
  BY <1>4, <1>7, <1>8, Zenon

\* An insert while the run is under way: the allowance of its id grows by what
\* is inserted.
LEMMA InsertCovered ==
  ASSUME RetentionInv, Covered, added \in Nat, total \in Int, NEW i \in Ids, NEW c,
         c.data.bytes \in Nat, captures' = [captures EXCEPT ![i] = c],
         added' = added + c.data.bytes, todo' = todo, total' = total
  PROVE  Covered'
<1>1. PICK w \in [Ids -> Nat] : Covers(w)
  BY DEF Covered
<1> DEFINE b == c.data.bytes
           v == [w EXCEPT ![i] = @ + b]
<1>2. v \in [Ids -> Nat] /\ \A j \in Ids : v[j] = IF j = i THEN w[j] + b ELSE w[j]
  OBVIOUS
<1>3. \A j \in Ids : captures'[j] = IF j = i THEN c ELSE captures[j]
  BY DEF RetentionInv, IsFunction
<1> HIDE DEF v
<1>4. w \in [Ids -> Int] /\ v \in [Ids -> Int] /\ b \in Int /\ IsFiniteSet(Ids)
      /\ \A j \in Ids : v[j] <= IF j = i THEN w[j] + b ELSE w[j]
  BY <1>1, <1>2, StoreAssumption
<1>5. /\ SumFunctionOnSet(w, Ids) \in Int /\ SumFunctionOnSet(v, Ids) \in Int
      /\ SumFunctionOnSet(v, Ids) <= SumFunctionOnSet(w, Ids) + b
  BY <1>4, SumBound, Zenon
<1>6. SumFunctionOnSet(v, Ids) <= total' + added'
  BY <1>1, <1>5 DEF Covers
<1>7. \A j \in Ids : captures'[j].data.bytes <= v[j]
  BY <1>1, <1>2, <1>3 DEF Covers, RetentionInv
<1>8. \A d \in todo' : d.bytes <= v[d.id]
  BY <1>1, <1>2 DEF Covers, RetentionInv
<1> QED
  BY <1>2, <1>6, <1>7, <1>8 DEF Covered, Covers

\* An eviction: the allowance of its id is spent, which is at least what the
\* run takes off its total.
LEMMA EvictCovered ==
  ASSUME RetentionInv, Covered, added \in Nat, total \in Int, NEW c \in todo,
         captures' = [captures EXCEPT ![c.id] =
            IF @ = NoCapture THEN @ ELSE WithoutBodies(@)],
         total' = total - c.bytes, todo' \subseteq todo \ {c}, added' = added
  PROVE  Covered'
<1>1. PICK w \in [Ids -> Nat] : Covers(w)
  BY DEF Covered
<1> DEFINE i == c.id
           v == [w EXCEPT ![i] = 0]
<1>2. i \in Ids /\ c.bytes \in Nat /\ \A d \in todo' : d \in todo /\ d.id \in Ids /\ d.id # i
  BY DEF RetentionInv
<1>3. v \in [Ids -> Nat] /\ \A j \in Ids : v[j] = IF j = i THEN 0 ELSE w[j]
  BY <1>2
<1>4. \A j \in Ids : captures'[j].data.bytes = IF j = i THEN 0 ELSE captures[j].data.bytes
  <2>1. \A j \in Ids : captures'[j] = IF j = i THEN (IF captures[j] = NoCapture THEN NoCapture
                                                    ELSE WithoutBodies(captures[j]))
                                      ELSE captures[j]
    BY <1>2 DEF RetentionInv, IsFunction
  <2>2. \A x : WithoutBodies(x).data.bytes = 0
    BY DEF WithoutBodies
  <2> QED
    BY <2>1, <2>2, NoCaptureFields
<1> HIDE DEF v
<1> DEFINE d == - w[i]
<1>5. w \in [Ids -> Int] /\ v \in [Ids -> Int] /\ d \in Int /\ IsFiniteSet(Ids)
      /\ \A j \in Ids : v[j] <= IF j = i THEN w[j] + d ELSE w[j]
  BY <1>1, <1>2, <1>3, StoreAssumption
<1>6. c.bytes <= w[i] /\ w[i] \in Int /\ d = - w[i]
  BY <1>1, <1>2 DEF Covers
<1> HIDE DEF d
<1>7. /\ SumFunctionOnSet(w, Ids) \in Int /\ SumFunctionOnSet(v, Ids) \in Int
      /\ SumFunctionOnSet(v, Ids) <= SumFunctionOnSet(w, Ids) + d
  BY <1>2, <1>5, SumBound, Zenon
<1>8. SumFunctionOnSet(v, Ids) <= total' + added'
  BY <1>1, <1>2, <1>5, <1>6, <1>7 DEF Covers
<1>9. \A j \in Ids : captures'[j].data.bytes <= v[j]
  BY <1>1, <1>3, <1>4 DEF Covers
<1>10. \A e \in todo' : e.bytes <= v[e.id]
  BY <1>1, <1>2, <1>3 DEF Covers
<1> QED
  BY <1>3, <1>8, <1>9, <1>10 DEF Covered, Covers

\* The bodies in the store, as the allowance that is exactly used.
LEMMA StoredIsCovered ==
  ASSUME RetentionInv
  PROVE  StoredBytes \in Int /\ \A w \in [Ids -> Nat] : Covers(w) => StoredBytes <= SumFunctionOnSet(w, Ids)
<1> DEFINE f == [i \in Ids |-> captures[i].data.bytes]
<1>1. f \in [Ids -> Int] /\ \A i \in Ids : f[i] = captures[i].data.bytes
  BY DEF RetentionInv
<1>2. StoredBytes = SumFunctionOnSet(f, Ids)
  BY DEF StoredBytes, SumFunction
<1> HIDE DEF f
<1>3. StoredBytes \in Int
  <2>1. \A y \in Ids : f[y] <= f[y]
    BY <1>1
  <2> QED
    BY <1>1, <1>2, <2>1, StoreAssumption, SumMonotone
<1>4. ASSUME NEW w \in [Ids -> Nat], Covers(w) PROVE StoredBytes <= SumFunctionOnSet(w, Ids)
  <2>1. w \in [Ids -> Int] /\ \A y \in Ids : f[y] <= w[y]
    BY <1>1, <1>4 DEF Covers
  <2> QED
    BY <1>1, <1>2, <2>1, StoreAssumption, SumMonotone
<1> QED
  BY <1>3, <1>4

\* The invariant is about the run and the rows: the clock may go on, and replays
\* may add their audits.
LEMMA ClockOnly ==
  ASSUME RetentionInv, now' \in Nat, now <= now',
         UNCHANGED <<inserts, requests, captures, rpc, cutoff, total, todo, added>>
  PROVE  RetentionInv'
<1>1. Covered' = Covered
  BY SMTT(20) DEF Covered, Covers
<1> QED
  BY <1>1, StoreAssumption DEF RetentionInv, IsFunction

\* Every step of the retention run and of the writer preserves its invariant.
LEMMA RetentionStep == RetentionInv /\ [StoreNext]_storeVars => RetentionInv'
<1> SUFFICES ASSUME RetentionInv, [StoreNext]_storeVars PROVE RetentionInv'
  OBVIOUS
<1> USE StoreAssumption
<1>2. CASE Tick
  <2>1. UNCHANGED <<inserts, requests, captures, rpc, cutoff, total, todo, added>>
    BY <1>2, Zenon DEF Tick, tables, run
  <2>2. now' \in Nat /\ now <= now'
    BY <1>2 DEF Tick, RetentionInv
  <2> QED
    BY <2>1, <2>2, ClockOnly, Zenon
<1>3. CASE UNCHANGED storeVars
  <2>1. UNCHANGED <<now, inserts, requests, captures, rpc, cutoff, total, todo, added>>
    BY <1>3, Zenon DEF storeVars
  <2>2. now' \in Nat /\ now <= now'
    BY <2>1 DEF RetentionInv
  <2> QED
    BY <2>1, <2>2, ClockOnly, Zenon
<1>4. CASE Begin
  BY <1>4 DEF Begin, RetentionInv, IsFunction, tables
<1>5. CASE Finish \/ Fail
  BY <1>5 DEF Finish, Fail, End, RetentionInv, IsFunction, tables
<1>6. ASSUME NEW i \in Ids, Insert(i) PROVE RetentionInv'
  <2>1. PICK row0, c :
           /\ row0.at \in Int /\ row0 # NoRow
           /\ c.data.bytes \in Nat /\ c.evicted = FALSE
           /\ c.data.bodies = {} => c.data.bytes = 0
           /\ requests' = [requests EXCEPT ![i] = row0]
           /\ captures' = [captures EXCEPT ![i] = c]
           /\ added' = IF rpc \in {"fetch", "evict"} THEN added + c.data.bytes ELSE added
    BY <1>6, InsertRows, Zenon
  <2>2. inserts' = inserts + 1 /\ UNCHANGED <<now, rpc, cutoff, total, todo>>
    BY <1>6 DEF Insert, run
  <2>3. /\ IsFunction(requests, Ids)' /\ IsFunction(captures, Ids)'
        /\ \A j \in Ids : requests'[j].at \in Int /\ captures'[j].data.bytes \in Nat
    BY <2>1, Zenon DEF RetentionInv, IsFunction
  <2>4. rpc \in {"fetch", "evict"} => added' \in Nat /\ Covered'
    <3> SUFFICES ASSUME rpc \in {"fetch", "evict"} PROVE added' \in Nat /\ Covered'
      OBVIOUS
    <3>1. Covered /\ added \in Nat /\ total \in Int /\ added' = added + c.data.bytes
      BY <2>1 DEF RetentionInv
    <3>2. Covered'
      BY <2>1, <2>2, <3>1, InsertCovered, Zenon
    <3> QED
      BY <2>1, <3>1, <3>2
  <2> QED
    BY <2>2, <2>3, <2>4 DEF RetentionInv
<1>7. CASE DeleteExpired
  <2> DEFINE gone == {i \in Ids : Expired(i)}
  <2>1. /\ requests' = [i \in Ids |-> IF i \in gone THEN NoRow ELSE requests[i]]
        /\ captures' = [i \in Ids |-> IF i \in gone THEN NoCapture ELSE captures[i]]
        /\ rpc' = "total" /\ rpc = "delete" /\ UNCHANGED <<now, inserts, todo>>
    BY <1>7 DEF DeleteExpired
  <2> HIDE DEF gone
  <2>2. /\ IsFunction(requests, Ids)' /\ IsFunction(captures, Ids)'
        /\ \A j \in Ids : requests'[j].at \in Int /\ captures'[j].data.bytes \in Nat
    BY <2>1, NoCaptureFields DEF RetentionInv, IsFunction
  <2> QED
    BY <2>1, <2>2 DEF RetentionInv
<1>8. CASE ReadTotal
  <2>1. /\ rpc = "total" /\ rpc' = "fetch" /\ total' = StoredBytes /\ added' = 0
        /\ UNCHANGED <<now, inserts, requests, captures, todo>>
    BY <1>8 DEF ReadTotal, tables
  <2> DEFINE f == [i \in Ids |-> captures[i].data.bytes]
  <2>2. f \in [Ids -> Nat] /\ \A i \in Ids : f[i] = captures[i].data.bytes
    BY DEF RetentionInv
  <2>3. StoredBytes = SumFunctionOnSet(f, Ids) /\ StoredBytes \in Int
    BY StoredIsCovered DEF StoredBytes, SumFunction
  <2> HIDE DEF f
  <2>4. todo' = {}
    BY <2>1 DEF RetentionInv
  <2>5. PICK w \in [Ids -> Nat] : w = f
    BY <2>2
  <2>6. /\ \A i \in Ids : captures'[i].data.bytes <= w[i]
        /\ SumFunctionOnSet(w, Ids) <= total' + added'
    BY <2>1, <2>2, <2>3, <2>5 DEF RetentionInv
  <2>7. Covered'
    BY <2>4, <2>6 DEF Covered, Covers
  <2> QED
    BY <2>1, <2>3, <2>4, <2>7 DEF RetentionInv, IsFunction
<1>9. CASE Fetch
  <2>1. /\ rpc = "fetch" /\ rpc' = "evict" /\ total > MaxTotal
        /\ UNCHANGED <<now, inserts, requests, captures, total, added>>
        /\ todo' \subseteq Candidates
    BY <1>9 DEF Fetch, tables
  <2>2. \A c \in todo' : /\ c.id \in Ids /\ c.at = captures[c.id].at
                         /\ c.bytes = captures[c.id].data.bytes
                         /\ c = [id |-> c.id, at |-> c.at, bytes |-> c.bytes]
    BY <2>1 DEF Candidates
  <2>3. \A c, d \in todo' : c.id = d.id => c = d
    BY <2>2, SMTT(20)
  <2>4. Covered'
    BY <2>1, <2>2 DEF RetentionInv, Covered, Covers
  <2>5. \A c \in todo' : c.id \in Ids /\ c.bytes \in Nat
    BY <2>2, SMTT(20) DEF RetentionInv
  <2> QED
    BY <2>1, <2>3, <2>4, <2>5 DEF RetentionInv, IsFunction
<1>10. CASE Evict
  <2>1. PICK c \in todo :
          /\ captures' = [captures EXCEPT ![c.id] =
               IF @ = NoCapture THEN @ ELSE WithoutBodies(@)]
          /\ total' = total - c.bytes
          /\ todo' = Left(c)
          /\ rpc' = IF Left(c) = {} THEN "fetch" ELSE "evict"
    BY <1>10, Zenon DEF Evict
  <2>2. rpc = "evict" /\ UNCHANGED <<now, inserts, requests, added>>
    BY <1>10 DEF Evict
  <2>3. total \in Int /\ added \in Nat /\ Covered /\ c.bytes \in Nat /\ c.id \in Ids
    BY <2>2 DEF RetentionInv
  <2>4. /\ todo' \subseteq todo \ {c} /\ rpc' = IF todo' = {} THEN "fetch" ELSE "evict"
        /\ todo' # {} => total' > MaxTotal
    BY <2>1, <2>3 DEF Left
  <2>5. Covered'
    BY <2>1, <2>2, <2>3, <2>4, EvictCovered, Zenon
  <2>6. IsFunction(captures, Ids)' /\ \A j \in Ids : captures'[j].data.bytes \in Nat
    <3>1. \A x : WithoutBodies(x).data.bytes = 0
      BY DEF WithoutBodies
    <3>2. IsFunction(captures, Ids)'
      BY <2>1 DEF RetentionInv, IsFunction
    <3>3. \A j \in Ids : captures'[j] = captures[j] \/ captures'[j] = WithoutBodies(captures[j])
      BY <2>1 DEF RetentionInv, IsFunction
    <3> QED
      BY <3>1, <3>2, <3>3 DEF RetentionInv
  <2>7. /\ \A d \in todo' : d.id \in Ids /\ d.bytes \in Nat
        /\ \A d, e \in todo' : d.id = e.id => d = e
    BY <2>4 DEF RetentionInv
  <2>8. IsFunction(requests, Ids)' /\ \A j \in Ids : requests'[j].at \in Int
    BY <2>2 DEF RetentionInv, IsFunction
  <2>9. now' \in Nat /\ inserts' \in Nat /\ added' \in Nat /\ total' \in Int
    BY <2>1, <2>2, <2>3 DEF RetentionInv
  <2>10. /\ rpc' \in {"fetch", "evict"}
         /\ rpc' = "evict" => total' > MaxTotal
         /\ rpc' # "evict" => todo' = {}
    BY <2>4
  <2>11. rpc' # "delete" /\ rpc' \in {"idle", "delete", "total", "fetch", "evict"}
    BY <2>10
  <2> QED
    BY <2>5, <2>6, <2>7, <2>8, <2>9, <2>10, <2>11, Zenon DEF RetentionInv
<1> QED
  BY <1>2, <1>3, <1>4, <1>5, <1>6, <1>7, <1>8, <1>9, <1>10 DEF StoreNext, Retention

\* The store begins so.
LEMMA RetentionBegins == StoreInit => RetentionInv
BY NoCaptureFields, SMTT(20) DEF StoreInit, RetentionInv, IsFunction

\* The invariant of the retention run holds in every reachable state.
LEMMA RetentionHolds == StoreSpec => []RetentionInv
<1> QED
  BY RetentionBegins, RetentionStep, PTL DEF StoreSpec

\* What the run's allowance says of its budget.
LEMMA BudgetFollows == RetentionInv => RetentionBudget
<1> SUFFICES ASSUME RetentionInv, rpc = "fetch" PROVE StoredBytes <= total + added
  BY DEF RetentionBudget
<1>1. total \in Int /\ added \in Nat /\ StoredBytes \in Int
  BY StoredIsCovered DEF RetentionInv
<1>2. PICK w \in [Ids -> Nat] : Covers(w)
  BY DEF RetentionInv, Covered
<1>3. StoredBytes <= SumFunctionOnSet(w, Ids) /\ SumFunctionOnSet(w, Ids) <= total + added
  BY <1>2, StoredIsCovered DEF Covers
<1>4. SumFunctionOnSet(w, Ids) \in Int
  BY <1>2, StoreAssumption, SumMonotone
<1> QED
  BY <1>1, <1>3, <1>4

\* No step of the run or of the writer takes more than it must.
LEMMA SparingStep == RetentionInv /\ [StoreNext]_storeVars => Spares
<1> SUFFICES ASSUME RetentionInv, [StoreNext]_storeVars PROVE Spares
  OBVIOUS
<1> DEFINE Kept == \A i \in Ids : HasRow(i) /\ ~HasRow(i)' => requests[i].at < now - Days
           Whole0 == \A i \in Ids : ~captures[i].evicted /\ captures[i]'.evicted
                                      => total > MaxTotal
<1> SUFFICES Kept /\ Whole0
  BY DEF Spares
<1> USE StoreAssumption
<1>1. CASE Tick \/ Begin \/ ReadTotal \/ Fetch \/ Finish \/ Fail \/ UNCHANGED storeVars
  BY <1>1 DEF Tick, Begin, ReadTotal, Fetch, Finish, Fail, End, tables, storeVars, HasRow
<1>2. ASSUME NEW i \in Ids, Insert(i) PROVE Kept /\ Whole0
  <2>1. PICK row0, c :
           /\ row0 # NoRow /\ c.evicted = FALSE
           /\ requests' = [requests EXCEPT ![i] = row0]
           /\ captures' = [captures EXCEPT ![i] = c]
    BY <1>2, InsertRows, Zenon
  <2>2. \A j \in Ids : /\ requests'[j] = requests[j] \/ requests'[j] = row0
                       /\ captures'[j] = captures[j] \/ captures'[j] = c
    BY <2>1, Zenon DEF RetentionInv, IsFunction
  <2> QED
    BY <2>1, <2>2, SMTT(20) DEF HasRow
<1>3. CASE DeleteExpired
  <2>1. /\ rpc = "delete" /\ cutoff \in Int /\ cutoff <= now - Days /\ now \in Nat
        /\ \A i \in Ids : requests[i].at \in Int
    BY <1>3 DEF RetentionInv, DeleteExpired
  <2>2. \A i \in Ids : /\ requests'[i] # requests[i] => requests[i].at < cutoff
                       /\ captures'[i] = captures[i] \/ captures'[i] = NoCapture
    BY <1>3 DEF DeleteExpired, Expired
  <2>3. Whole0
    BY <2>2, NoCaptureFields
  <2>4. Kept
    BY <2>1, <2>2 DEF HasRow
  <2> QED
    BY <2>3, <2>4
<1>4. CASE Evict
  BY <1>4 DEF Evict, RetentionInv, HasRow
<1> QED
  BY <1>1, <1>2, <1>3, <1>4, Zenon DEF StoreNext, Retention

\* The budget of max_total_capture_bytes holds for any number of ids, inserts
\* and bytes: when the run is between two batches, the bodies in the store
\* exceed its `total` by no more than what was inserted since it was read.
THEOREM BudgetIsKept == StoreSpec => []RetentionBudget
BY BudgetFollows, RetentionHolds, PTL

\* Expiry and eviction take no more than they must (RetentionSpares), whatever
\* the clock and the writer do while the run is under way.
THEOREM RetentionIsSparing == StoreSpec => RetentionSpares
BY SparingStep, RetentionHolds, PTL DEF StoreSpec, RetentionSpares

-----------------------------------------------------------------------------
(* What a run has achieved when it returns, with replays next to it *)

\* Where nothing is added up the sum is 0.
LEMMA SumOfNothing ==
  ASSUME NEW S, IsFiniteSet(S), NEW f \in [S -> Int], \A y \in S : f[y] = 0
  PROVE  SumFunctionOnSet(f, S) = 0
<1>1. PICK a : Sums(a, f, S) /\ SumFunctionOnSet(f, S) = a[S]
  BY SumIsLast
<1>2. \A s \in SUBSET S : a[s] = IF s = {} THEN 0 ELSE f[Some(s)] + a[s \ {Some(s)}]
  BY <1>1, SumsStep
<1> DEFINE T == {n \in Nat : \A s \in SUBSET S : Cardinality(s) <= n => a[s] = 0}
<1>3. a[{}] = 0
  <2>1. {} \in SUBSET S
    OBVIOUS
  <2> QED
    BY <1>2, <2>1, Zenon
<1>4. 0 \in T
  BY <1>3, Smaller, Zenon
<1>5. ASSUME NEW n \in Nat, n \in T PROVE n + 1 \in T
  <2> SUFFICES ASSUME NEW s \in SUBSET S, Cardinality(s) <= n + 1, s # {} PROVE a[s] = 0
    BY <1>3
  <2>1. /\ Some(s) \in s /\ Some(s) \in S /\ s \ {Some(s)} \in SUBSET S
        /\ Cardinality(s \ {Some(s)}) <= n
    BY Smaller
  <2>2. a[s \ {Some(s)}] = 0
    BY <1>5, <2>1
  <2>3. a[s] = f[Some(s)] + a[s \ {Some(s)}]
    BY <1>2, Zenon
  <2>4. f[Some(s)] = 0
    BY <2>1, Zenon
  <2> QED
    BY <2>2, <2>3, <2>4
<1> HIDE DEF T
<1>6. Cardinality(S) \in Nat /\ Cardinality(S) <= Cardinality(S)
  BY FS_CardinalityType
<1>7. Cardinality(S) \in T
  BY <1>4, <1>5, <1>6, Induction
<1> QED
  BY <1>1, <1>6, <1>7 DEF T

\* A capture that is no candidate for eviction takes no bytes.
Counted(c) == c.evicted \/ c.data.bodies = {} => c.data.bytes = 0
BytesInv == \A i \in Ids : Counted(captures[i])

\* Every step keeps it so.
LEMMA BytesStep == RetentionInv /\ BytesInv /\ [StoreNext]_storeVars => BytesInv'
<1> SUFFICES ASSUME RetentionInv, BytesInv, [StoreNext]_storeVars PROVE BytesInv'
  OBVIOUS
<1>0. Counted(NoCapture) /\ \A c : Counted(WithoutBodies(c))
  BY DEF Counted, NoCapture, NoPayload, WithoutBodies
<1>1. ASSUME \A i \in Ids : \/ captures'[i] = captures[i]
                            \/ Counted(captures'[i])
      PROVE  BytesInv'
  BY <1>1 DEF BytesInv
<1>2. CASE Tick \/ Begin \/ ReadTotal \/ Fetch \/ Finish \/ Fail \/ UNCHANGED storeVars
  <2>1. captures' = captures
    BY <1>2, Zenon DEF Tick, Begin, ReadTotal, Fetch, Finish, Fail, End, tables, storeVars
  <2> QED
    BY <1>1, <2>1, Zenon
<1>3. ASSUME NEW i \in Ids, Insert(i) PROVE BytesInv'
  <2>1. PICK c : /\ c.evicted = FALSE /\ (c.data.bodies = {} => c.data.bytes = 0)
                 /\ captures' = [captures EXCEPT ![i] = c]
    BY <1>3, InsertRows, Zenon
  <2>2. Counted(c)
    BY <2>1, Zenon DEF Counted
  <2>3. \A j \in Ids : captures'[j] = captures[j] \/ captures'[j] = c
    BY <2>1, Zenon DEF RetentionInv, IsFunction
  <2> QED
    BY <1>1, <2>2, <2>3, Zenon
<1>4. CASE DeleteExpired
  <2>1. \A i \in Ids : captures'[i] = captures[i] \/ captures'[i] = NoCapture
    BY <1>4 DEF DeleteExpired
  <2> QED
    BY <1>0, <1>1, <2>1, Zenon
<1>5. CASE Evict
  <2>1. PICK i : captures' = [captures EXCEPT ![i] =
                                IF @ = NoCapture THEN @ ELSE WithoutBodies(@)]
    BY <1>5, Zenon DEF Evict
  <2>2. \A j \in Ids : captures'[j] = captures[j] \/ captures'[j] = WithoutBodies(captures[j])
    BY <2>1 DEF RetentionInv, IsFunction
  <2> QED
    BY <1>0, <1>1, <2>2, Zenon
<1> QED
  BY <1>2, <1>3, <1>4, <1>5, Zenon DEF StoreNext, Retention

\* When there is nothing left to evict, the store holds no body.
LEMMA NoneLeftIsEmpty ==
  ASSUME RetentionInv, BytesInv, NoneLeft
  PROVE  StoredBytes = 0
<1> DEFINE f == [i \in Ids |-> captures[i].data.bytes]
<1>1. ASSUME NEW i \in Ids PROVE captures[i].data.bytes = 0
  <2> DEFINE c == [id |-> i, at |-> captures[i].at, bytes |-> captures[i].data.bytes]
  <2>1. ~Candidate(i)
    <3>1. Candidate(i) => c \in Candidates
      BY Zenon DEF Candidates
    <3> HIDE DEF c
    <3> QED
      BY <3>1, Zenon DEF NoneLeft
  <2> QED
    BY <2>1, NoCaptureFields, Zenon DEF Candidate, HasCapture, BytesInv, Counted
<1>2. f \in [Ids -> Int] /\ \A i \in Ids : f[i] = 0
  BY <1>1 DEF RetentionInv
<1>3. StoredBytes = SumFunctionOnSet(f, Ids)
  BY DEF StoredBytes, SumFunction
<1> HIDE DEF f
<1> QED
  BY <1>2, <1>3, StoreAssumption, SumOfNothing

\* A replay adds at most an audit row to the store.
LEMMA ReplaysSpareTheStore ==
  ASSUME NEW p \in Runs, ReplayStep(p)
  PROVE  UNCHANGED <<now, inserts, requests, captures, rpc, cutoff, total, todo, added>>
BY Zenon DEF ReplayStep, Show, Start, List, ShowRow, ShowHeaders, ShowCapture, Build, Send,
       Audited, AuditFails, storeVars, run

\* The store's invariants hold next to any number of replays.
LEMMA RetentionHoldsWithReplays == Spec => [](RetentionInv /\ BytesInv)
<1>1. Init => RetentionInv /\ BytesInv
  <2>1. Init => StoreInit
    BY Zenon DEF Init
  <2>2. StoreInit => BytesInv
    <3>1. StoreInit => \A i \in Ids : captures[i] = NoCapture
      BY DEF StoreInit
    <3> QED
      BY <3>1, NoCaptureFields, Zenon DEF BytesInv, Counted
  <2> QED
    BY <2>1, <2>2, RetentionBegins, Zenon
<1>2. ASSUME RetentionInv, BytesInv, [Next]_vars PROVE RetentionInv' /\ BytesInv'
  <2>1. CASE [StoreNext]_storeVars
    BY <1>2, <2>1, RetentionStep, BytesStep, Zenon
  <2>2. ASSUME NEW p \in Runs, ReplayStep(p) PROVE RetentionInv' /\ BytesInv'
    <3>1. now' \in Nat /\ now <= now'
      BY <1>2, <2>2, ReplaysSpareTheStore DEF RetentionInv
    <3>2. RetentionInv'
      BY <1>2, <2>2, <3>1, ReplaysSpareTheStore, ClockOnly, Zenon
    <3>3. captures' = captures
      BY <2>2, ReplaysSpareTheStore, Zenon
    <3> QED
      BY <1>2, <3>2, <3>3, Zenon DEF BytesInv
  <2> QED
    BY <1>2, <2>1, <2>2, Zenon DEF Next, vars
<1> QED
  BY <1>1, <1>2, PTL DEF Spec

\* What the store promises does not depend on the gateway being alone with it:
\* next to any number of replays the budget is kept (RetentionBudget), and
\* nothing is expired or evicted that need not be (RetentionSpares).
THEOREM ReplaysLeaveRetentionAlone == Spec => []RetentionBudget /\ RetentionSpares
<1>1. ASSUME RetentionInv, [Next]_vars PROVE [Spares]_storeVars
  <2>1. CASE [StoreNext]_storeVars
    BY <1>1, <2>1, SparingStep, Zenon
  <2>2. ASSUME NEW p \in Runs, ReplayStep(p) PROVE Spares
    BY <2>2, ReplaysSpareTheStore, Zenon DEF Spares, HasRow
  <2> QED
    BY <1>1, <2>1, <2>2, Zenon DEF Next, vars
<1> QED
  BY <1>1, BudgetFollows, RetentionHoldsWithReplays, PTL DEF Spec, RetentionSpares

\* A retention run that returns Ok has brought the store down to
\* max_total_capture_bytes, but for what was inserted since it read the total:
\* also when it stopped because no candidate was left, and although it
\* subtracts lengths that it read earlier.
EndsWithinBudget == [][Finish => StoredBytes <= MaxTotal + added]_vars
THEOREM RunsEndWithinBudget == Spec => EndsWithinBudget
<1>1. ASSUME RetentionInv, BytesInv, Finish PROVE StoredBytes <= MaxTotal + added
  <2>1. /\ rpc = "fetch" /\ (total <= MaxTotal \/ NoneLeft)
        /\ total \in Int /\ added \in Nat /\ MaxTotal \in Nat /\ StoredBytes \in Int
    BY <1>1, StoreAssumption, StoredIsCovered DEF Finish, RetentionInv
  <2>2. CASE total <= MaxTotal
    <3>1. StoredBytes <= total + added
      BY <1>1, <2>1, BudgetFollows, Zenon DEF RetentionBudget
    <3> QED
      BY <2>1, <2>2, <3>1
  <2>3. CASE NoneLeft
    <3>1. StoredBytes = 0
      BY <1>1, <2>3, NoneLeftIsEmpty, Zenon
    <3> QED
      BY <2>1, <3>1
  <2> QED
    BY <2>1, <2>2, <2>3
<1> QED
  BY <1>1, RetentionHoldsWithReplays, PTL DEF EndsWithinBudget
=============================================================================
