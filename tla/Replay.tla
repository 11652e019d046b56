------------------------------- MODULE Replay -------------------------------
(***************************************************************************)
(* tracegate replay (crates/tracegate-replay/src/lib.rs) next to a gateway *)
(* that goes on inserting requests and running its retention on the same   *)
(* store (module CaptureStore).                                            *)
(*                                                                         *)
(* A replay reads the request's rows with one query after the other, sends *)
(* the rebuilt request, and only then writes its audit row.  The operators *)
(* named Mutant... are plausible slips in the code, each caught by a       *)
(* property below.                                                         *)
(***************************************************************************)
EXTENDS CaptureStore

CONSTANTS
  Runs,      \* invocations of tracegate replay
  NoId,      \* no request selected
  Targets,   \* --target values; "bad" is none that validate_target accepts
  DbMayFail  \* whether an INSERT may fail for reasons of the database itself

VARIABLES
  pc,        \* where each invocation is
  opts,      \* its ReplayOptions: [last, target, confirm]
  id,        \* the request id it selected
  row,       \* the RequestSummary it read
  hdrs,      \* the number of the insert whose request headers it read, or 0
  cap,       \* the CaptureDetails it read
  sent,      \* times its request was sent
  carried,   \* the number of the insert whose request body was sent, or 0
  outcome    \* what replay() returned

replayVars == <<pc, opts, id, row, hdrs, cap, sent, carried, outcome>>
vars == <<storeVars, replayVars>>

NoOpts == [last |-> FALSE, target |-> "bad", confirm |-> FALSE]

Init ==
  /\ StoreInit
  /\ pc = [p \in Runs |-> "start"]
  /\ opts = [p \in Runs |-> NoOpts]
  /\ id = [p \in Runs |-> NoId]
  /\ row = [p \in Runs |-> NoRow]
  /\ hdrs = [p \in Runs |-> 0]
  /\ cap = [p \in Runs |-> NoCapture]
  /\ sent = [p \in Runs |-> 0]
  /\ carried = [p \in Runs |-> 0]
  /\ outcome = [p \in Runs |-> "none"]

Goto(p, label) == pc' = [pc EXCEPT ![p] = label]
Return(p, result) == Goto(p, "done") /\ outcome' = [outcome EXCEPT ![p] = result]

-----------------------------------------------------------------------------
(* select_request *)

\* The command line: --id or --last-failed, --target, --confirm-side-effects.
Start(p) ==
  /\ pc[p] = "start"
  /\ \E last, confirm \in BOOLEAN, target \in Targets :
       /\ opts' = [opts EXCEPT ![p] = [last |-> last, target |-> target, confirm |-> confirm]]
       /\ IF last
          THEN Goto(p, "list") /\ UNCHANGED id
          ELSE Goto(p, "show") /\ \E i \in Ids : id' = [id EXCEPT ![p] = i]
  /\ UNCHANGED <<storeVars, row, hdrs, cap, sent, carried, outcome>>

\* list_requests with failed and limit 1: the newest failed request.
FailedIds == {i \in Ids : HasRow(i) /\ requests[i].meta.failed}

List(p) ==
  /\ pc[p] = "list"
  /\ \/ /\ FailedIds = {}
        /\ Return(p, "no_failed_request")
        /\ UNCHANGED id
     \/ \E i \in FailedIds :
          /\ \A j \in FailedIds : requests[j].at <= requests[i].at
          /\ id' = [id EXCEPT ![p] = i]
          /\ Goto(p, "show")
          /\ UNCHANGED outcome
  /\ UNCHANGED <<storeVars, opts, row, hdrs, cap, sent, carried>>

\* show_request reads the row of requests ...
ShowRow(p) ==
  /\ pc[p] = "show"
  /\ \/ /\ ~HasRow(id[p])
        /\ Return(p, "not_found")
        /\ UNCHANGED row
     \/ /\ HasRow(id[p])
        /\ row' = [row EXCEPT ![p] = requests[id[p]]]
        /\ Goto(p, "headers")
        /\ UNCHANGED outcome
  /\ UNCHANGED <<storeVars, opts, id, hdrs, cap, sent, carried>>

\* ... and then, in queries of their own, its children: the headers, which are
\* inserted and deleted with it,
ShowHeaders(p) ==
  /\ pc[p] = "headers"
  /\ hdrs' = [hdrs EXCEPT ![p] = IF HasRow(id[p]) THEN requests[id[p]].ver ELSE 0]
  /\ Goto(p, "assemble")
  /\ UNCHANGED <<storeVars, opts, id, row, cap, sent, carried, outcome>>

\* and the capture.
ShowCapture(p) ==
  /\ pc[p] = "assemble"
  /\ cap' = [cap EXCEPT ![p] = captures[id[p]]]
  /\ Goto(p, "build")
  /\ UNCHANGED <<storeVars, opts, id, row, hdrs, sent, carried, outcome>>

\* The two in the other order.
MutantShow(p) ==
  \/ /\ pc[p] = "show"
     /\ cap' = [cap EXCEPT ![p] = captures[id[p]]]
     /\ Goto(p, "assemble")
     /\ UNCHANGED <<storeVars, opts, id, row, hdrs, sent, carried, outcome>>
  \/ /\ pc[p] = "assemble"
     /\ row' = [row EXCEPT ![p] = requests[id[p]]]
     /\ IF HasRow(id[p]) THEN Goto(p, "build") /\ UNCHANGED outcome
        ELSE Return(p, "not_found")
     /\ UNCHANGED <<storeVars, opts, id, hdrs, cap, sent, carried>>
Show(p) == ShowRow(p) \/ ShowHeaders(p) \/ ShowCapture(p)

-----------------------------------------------------------------------------
(* The checks before anything is sent; they read nothing but the arguments. *)

IsSideEffectMethod(m) == m \in {"POST", "DELETE"}
MethodRequiresCapturedBody(m) == m = "POST"

NoError == "none"

\* validate_target and reject_original_upstream
TargetError(t, upstream) ==
  IF t = "bad" THEN "invalid_target"
  ELSE IF t = upstream THEN "original_upstream" ELSE NoError

\* replay_body with validate_capture_body: why there is none to send.
MutantBodyError(m, c) ==
  IF MethodRequiresCapturedBody(m) /\ (c = NoCapture \/ "request" \notin c.data.bodies)
  THEN "missing_body" ELSE NoError
BodyError(m, c) ==
  IF MethodRequiresCapturedBody(m)
  THEN IF c = NoCapture THEN "missing_body"
       ELSE IF c.evicted THEN "evicted_body"
       ELSE IF c.data.truncated THEN "truncated_body"
       ELSE IF "request" \notin c.data.bodies THEN "missing_body" ELSE NoError
  ELSE IF "request" \notin c.data.bodies THEN NoError
       ELSE IF c.data.truncated THEN "truncated_body"
       ELSE IF c.evicted THEN "evicted_body" ELSE NoError

\* The first error of replay() between select_request and dispatch_replay.
BuildError(p) ==
  LET m == row[p].meta.method
      target == TargetError(opts[p].target, row[p].meta.upstream)
  IN  IF target # NoError THEN target
      ELSE IF IsSideEffectMethod(m) /\ ~opts[p].confirm THEN "missing_confirmation"
      ELSE BodyError(m, cap[p])

Build(p) ==
  /\ pc[p] = "build"
  /\ IF BuildError(p) = NoError
     THEN Goto(p, "send") /\ UNCHANGED outcome
     ELSE Return(p, BuildError(p))
  /\ UNCHANGED <<storeVars, opts, id, row, hdrs, cap, sent, carried>>

-----------------------------------------------------------------------------
(* dispatch_replay *)

\* builder.send(): the target answers, or the dispatch fails at some point
\* after the request may have reached it.
Send(p) ==
  /\ pc[p] = "send"
  /\ \E label \in {"audit_ok", "audit_failure"} : Goto(p, label)
  /\ sent' = [sent EXCEPT ![p] = @ + 1]
  /\ carried' = [carried EXCEPT ![p] = IF "request" \in cap[p].data.bodies THEN cap[p].ver ELSE 0]
  /\ UNCHANGED <<storeVars, opts, id, row, hdrs, cap, outcome>>

\* The row tells a status, or an error when the dispatch failed.
MutantStatusRecorded(p) == TRUE
StatusRecorded(p) == pc[p] = "audit_ok"

\* insert_replay_run, with the foreign key to the original request.
Audited(p) ==
  /\ pc[p] \in {"audit_ok", "audit_failure"}
  /\ HasRow(id[p])
  /\ replays' = replays \cup {[run |-> p, original |-> id[p], ok |-> StatusRecorded(p)]}
  /\ Return(p, IF pc[p] = "audit_ok" THEN "ok" ELSE "dispatch_failed")
  /\ UNCHANGED <<now, inserts, requests, captures, run, added, opts, id, row,
                 hdrs, cap, sent, carried>>

\* The INSERT fails: `?` returns the storage error.
AuditFails(p) ==
  /\ pc[p] \in {"audit_ok", "audit_failure"}
  /\ ~HasRow(id[p]) \/ DbMayFail
  /\ Return(p, "storage")
  /\ UNCHANGED <<storeVars, opts, id, row, hdrs, cap, sent, carried>>

ReplayStep(p) ==
  \/ Start(p) \/ List(p) \/ Show(p) \/ Build(p)
  \/ Send(p) \/ Audited(p) \/ AuditFails(p)

Next ==
  \/ StoreNext /\ UNCHANGED replayVars
  \/ \E p \in Runs : ReplayStep(p)

Spec == Init /\ [][Next]_vars

-----------------------------------------------------------------------------
(* Properties *)

\* PLAN.md:419-420 and the errors of ReplayError: whatever the store does
\* between the reads, a request is sent at most once, none is sent to the
\* upstream that the original came from, no mutating method without
\* --confirm-side-effects, and no POST without a body that the store had whole.
\* PLAN.md:412: a request that had a captured body is sent without it only if
\* that body was evicted.
ReplayGuarded ==
  \A p \in Runs : sent[p] > 0 =>
    /\ sent[p] = 1
    /\ opts[p].target \notin {"bad", row[p].meta.upstream}
    /\ IsSideEffectMethod(row[p].meta.method) => opts[p].confirm
    /\ row[p].meta.method = "POST" =>
         carried[p] > 0 /\ ~cap[p].data.truncated /\ ~cap[p].evicted
    /\ "request" \in cap[p].hashed /\ carried[p] = 0 => cap[p].evicted

\* The rows a replay puts together are read one after the other: the headers it
\* read are never older than the request, and the capture is never older than
\* both, so a replaced request is never sent with the body of the one before it.
BodyNotOlder ==
  \A p \in Runs :
    /\ hdrs[p] > 0 => row[p].ver <= hdrs[p]
    /\ carried[p] > 0 => row[p].ver <= carried[p] /\ hdrs[p] <= carried[p]

\* A row of replay_runs stands for a request that was sent, once per
\* invocation, with the outcome the caller is told.
AuditRows ==
  /\ \A r \in replays :
       /\ sent[r.run] = 1 /\ id[r.run] = r.original
       /\ outcome[r.run] = IF r.ok THEN "ok" ELSE "dispatch_failed"
  /\ \A r, s \in replays : r.run = s.run => r = s

\* The audit tells the truth: every step leaves AuditRows true, and replay()
\* returns Ok or DispatchFailed only in the step that wrote the row.
AuditTruthful ==
  [][/\ AuditRows'
     /\ \A p \in Runs :
          outcome[p] = "none" /\ outcome'[p] \in {"ok", "dispatch_failed"}
            => \E r \in replays' : r.run = p]_vars

\* PLAN.md:514: "Replay is never silent; every replay creates a `replay_runs`
\* record."
NeverSilent ==
  \A p \in Runs : pc[p] = "done" /\ sent[p] > 0 => outcome[p] # "storage"
=============================================================================
