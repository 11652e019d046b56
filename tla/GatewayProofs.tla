--------------------------- MODULE GatewayProofs ---------------------------
(***************************************************************************)
(* Proofs about Gateway, for any number of requests, reloads and retries   *)
(* and any concurrency limits.                                             *)
(***************************************************************************)
EXTENDS Gateway, FiniteSetTheorems, TLAPS

\* The records the handlers build are of the type of the variable.
LEMMA RecordType ==
  ASSUME NEW s \in Statuses, NEW e \in BOOLEAN, NEW d \in BOOLEAN
  PROVE  /\ Record(s, e, d) \in Records
         /\ Record(s, e, d).status = s
         /\ Record(s, e, d).isError = e
         /\ Record(s, e, d).dropped = d
  BY DEF Record, Records

\* The record of a failure, by the gateway (d) or by an upstream.
LEMMA FailureRecord ==
  ASSUME NEW d \in BOOLEAN
  PROVE  /\ Record("5xx", TRUE, d) \in Records
         /\ Record("5xx", TRUE, d).status = "5xx"
         /\ Record("5xx", TRUE, d).isError
         /\ Record("5xx", TRUE, d).dropped = d
  BY DEF Record, Records, Statuses

\* The record of an answer with the status s.
LEMMA AnswerRecord ==
  ASSUME NEW s \in Statuses
  PROVE  /\ Record(s, s = "5xx", FALSE) \in Records
         /\ Record(s, s = "5xx", FALSE).status = s
         /\ Record(s, s = "5xx", FALSE).isError <=> s = "5xx"
         /\ ~Record(s, s = "5xx", FALSE).dropped
  BY DEF Record, Records

\* Every path to a response keeps the types.
LEMMA FinishType ==
  ASSUME TypeOK, NEW r \in Requests, NEW rec \in Records, Finish(r, rec)
  PROVE  TypeOK'
  BY DEF TypeOK, Finish, Goto, PCs, server

\* A released permit goes back to a semaphore.
LEMMA ReleaseType ==
  ASSUME TypeOK, NEW r \in Requests, Release(r)
  PROVE  avail' \in [Gens -> Nat] /\ permit' \in [Requests -> BOOLEAN]
  BY DEF TypeOK, Release

\* Every step of the specification preserves the types.
LEMMA TypeStep == TypeOK /\ [Next]_vars => TypeOK'
<1> SUFFICES ASSUME TypeOK, [Next]_vars PROVE TypeOK'
  OBVIOUS
<1> USE GatewayAssumption
<1>1. CASE Reload
  BY <1>1 DEF Reload, TypeOK, Gens
<1>2. CASE Shutdown
  BY <1>2 DEF Shutdown, TypeOK
<1>3. ASSUME NEW r \in Requests, Accept(r) \/ Load(r) PROVE TypeOK'
  BY <1>3 DEF Accept, Load, Goto, PCs, server, TypeOK
<1>4. ASSUME NEW r \in Requests, NoRoute(r) \/ LimitReached(r)
      PROVE  TypeOK'
  BY <1>4, FinishType, RecordType DEF NoRoute, LimitReached, Statuses
<1>5. ASSUME NEW r \in Requests, Acquire(r) PROVE TypeOK'
  <2>1. avail' \in [Gens -> Nat]
    BY <1>5 DEF Acquire, CanAcquire, TypeOK
  <2>2. pc' \in [Requests -> PCs]
    BY <1>5 DEF Acquire, Goto, PCs, TypeOK
  <2>3. permit' \in [Requests -> BOOLEAN] /\ eligible' \in [Requests -> BOOLEAN]
    BY <1>5 DEF Acquire, TypeOK
  <2> QED
    BY <1>5, <2>1, <2>2, <2>3 DEF Acquire, TypeOK
<1>6. ASSUME NEW r \in Requests, PreviewRead(r) \/ PolicyAllows(r) \/ Select(r)
      PROVE  TypeOK'
  BY <1>6 DEF PreviewRead, PolicyAllows, Select, Goto, PCs, server, TypeOK
<1>7. ASSUME NEW r \in Requests, PreviewFailed(r) \/ NoUpstream(r) \/ PolicyDenies(r)
      PROVE  TypeOK'
  BY <1>7, FinishType, RecordType
     DEF PreviewFailed, NoUpstream, PolicyDenies, DenialRecord, Statuses
<1>8. ASSUME NEW r \in Requests, AttemptAnswered(r) PROVE TypeOK'
  <2>1. record' \in [Requests -> Records]
    <3>1. PICK s \in Statuses :
            record' = [record EXCEPT ![r] = Record(s, s = "5xx", FALSE)]
      BY <1>8 DEF AttemptAnswered
    <3>2. Record(s, s = "5xx", FALSE) \in Records
      BY AnswerRecord
    <3> QED
      BY <3>1, <3>2 DEF TypeOK
  <2>2. /\ pc' \in [Requests -> PCs]
        /\ attempts' \in [Requests -> Nat]
    BY <1>8 DEF AttemptAnswered, Goto, PCs, TypeOK
  <2>3. UNCHANGED <<server, gen, permit, eligible, allowed, redacted, logged,
                    enqueued>>
    BY <1>8 DEF AttemptAnswered
  <2> QED
    BY <2>1, <2>2, <2>3 DEF server, TypeOK
<1>9. ASSUME NEW r \in Requests, AttemptFailed(r) PROVE TypeOK'
  <2>1. record' \in [Requests -> Records]
    <3>1. Record("5xx", TRUE, FALSE) \in Records
      BY RecordType DEF Statuses
    <3> QED
      BY <1>9, <3>1 DEF AttemptFailed, TypeOK
  <2>2. /\ pc' \in [Requests -> PCs]
        /\ attempts' \in [Requests -> Nat]
    BY <1>9 DEF AttemptFailed, Goto, PCs, TypeOK
  <2>3. UNCHANGED <<server, gen, permit, eligible, allowed, redacted, logged,
                    enqueued>>
    BY <1>9 DEF AttemptFailed
  <2> QED
    BY <2>1, <2>2, <2>3 DEF server, TypeOK
<1>10. ASSUME NEW r \in Requests, Conclude(r) PROVE TypeOK'
  BY <1>10, FinishType DEF Conclude, TypeOK
<1>11. ASSUME NEW r \in Requests, Attach(r) PROVE TypeOK'
  BY <1>11 DEF Attach, ResponseRedaction, Goto, PCs, server, TypeOK
<1>12. ASSUME NEW r \in Requests, BodyEnds(r) PROVE TypeOK'
  BY <1>12 DEF BodyEnds, Finalize, Goto, PCs, server, TypeOK
<1>13. ASSUME NEW r \in Requests, BodyDropped(r) \/ Cancel(r) PROVE TypeOK'
  <2>1. avail' \in [Gens -> Nat] /\ permit' \in [Requests -> BOOLEAN]
    BY <1>13, ReleaseType DEF BodyDropped, Cancel
  <2>2. pc' \in [Requests -> PCs] /\ enqueued' \in [Requests -> Nat]
    BY <1>13 DEF BodyDropped, Cancel, Finalize, Goto, PCs, TypeOK
  <2> QED
    BY <1>13, <2>1, <2>2 DEF BodyDropped, Cancel, TypeOK
<1>14. CASE UNCHANGED vars
  BY <1>14 DEF vars, TypeOK
<1> QED
  BY <1>1, <1>2, <1>3, <1>4, <1>5, <1>6, <1>7, <1>8, <1>9, <1>10, <1>11,
     <1>12, <1>13, <1>14 DEF Next, Run, Timed, Peer

\* Type correctness of the server and of every handler.
THEOREM TypeCorrect == Spec => []TypeOK
<1>1. Init => TypeOK
  <2>1. NoRecord \in Records
    BY RecordType DEF NoRecord, Statuses
  <2>2. 0 \in Gens /\ Limit \in [Gens -> Nat]
    BY GatewayAssumption DEF Gens
  <2>3. Init => record \in [Requests -> Records]
    BY <2>1 DEF Init
  <2>4. Init => /\ permit \in [Requests -> BOOLEAN]
                /\ eligible \in [Requests -> BOOLEAN]
                /\ allowed \in [Requests -> BOOLEAN]
                /\ returned \in BOOLEAN
    BY ZenonT(60) DEF Init
  <2>5. Init => /\ state \in Gens /\ avail \in [Gens -> Nat]
                /\ pc \in [Requests -> PCs]
                /\ gen \in [Requests -> Gens] /\ redacted \in [Requests -> Gens]
                /\ attempts \in [Requests -> Nat]
                /\ logged \in [Requests -> Nat] /\ enqueued \in [Requests -> Nat]
    BY <2>2 DEF Init, PCs
  <2> QED
    BY <2>3, <2>4, <2>5 DEF TypeOK
<1> QED
  BY <1>1, TypeStep, PTL DEF Spec

-----------------------------------------------------------------------------
(* What a handler owns, has sent and has recorded *)

\* The local state of handler q.
Local(q) == <<pc[q], gen[q], permit[q], eligible[q], attempts[q], allowed[q],
              record[q], redacted[q], logged[q], enqueued[q]>>

\* A handler that does not move stays in step, also when a reload moves state.
LEMMA StillOK ==
  ASSUME NEW q \in Requests, HandlerOK(q), Local(q)' = Local(q),
         state \in Nat, state' \in Nat, gen[q] \in Nat, state' >= state
  PROVE  HandlerOK(q)'
  BY DEF HandlerOK, Local

\* A step of handler r is invisible to the others.
LEMMA OthersStill ==
  ASSUME TypeOK, NEW r \in Requests, NEW q \in Requests, q # r,
         Accept(r) \/ Run(r) \/ Timed(r) \/ Peer(r)
  PROVE  Local(q)' = Local(q) /\ state' = state
<1> USE DEF TypeOK, Local, Goto, server
<1>1. CASE Accept(r) \/ Load(r) \/ Acquire(r) \/ PreviewRead(r) \/ PolicyAllows(r)
              \/ Select(r) \/ Attach(r)
  BY <1>1 DEF Accept, Load, Acquire, PreviewRead, PolicyAllows, Select, Attach
<1>2. CASE \E rec : Finish(r, rec)
  BY <1>2, SMTT(40) DEF Finish
<1>3. CASE NoRoute(r) \/ LimitReached(r) \/ PreviewFailed(r) \/ PolicyDenies(r)
              \/ NoUpstream(r) \/ Conclude(r)
  <2>1. \E rec : Finish(r, rec)
    BY <1>3 DEF NoRoute, LimitReached, PreviewFailed, PolicyDenies, NoUpstream, Conclude
  <2> QED
    BY <2>1, <1>2
<1>4. CASE AttemptAnswered(r) \/ AttemptFailed(r)
  BY <1>4 DEF AttemptAnswered, AttemptFailed
<1>5. CASE BodyEnds(r) \/ BodyDropped(r) \/ Cancel(r)
  BY <1>5 DEF BodyEnds, BodyDropped, Cancel, Finalize, Release
<1> QED
  BY <1>1, <1>3, <1>4, <1>5 DEF Run, Timed, Peer

\* A response ends the handler's part in step if its record is consistent.
LEMMA FinishOK ==
  ASSUME TypeOK, NEW r \in Requests, HandlerOK(r), NEW rec \in Records,
         Finish(r, rec),
         pc[r] \in {"route", "preview", "policy", "select", "conclude"},
         rec.isError <=> rec.status = "5xx",
         rec.dropped => rec.status = "5xx" /\ attempts[r] = 0
  PROVE  HandlerOK(r)'
<1>1. /\ pc'[r] = "attach" /\ logged'[r] = logged[r] + 1 /\ record'[r] = rec
      /\ UNCHANGED <<state, gen, permit, eligible, attempts, allowed, redacted,
                     enqueued>>
  BY DEF Finish, Goto, server, TypeOK
<1>2. /\ attempts[r] \in Nat /\ Retries \in Nat /\ logged[r] = 0
      /\ enqueued[r] = 0 /\ gen[r] <= state
      /\ attempts[r] <= Retries + 1
      /\ attempts[r] > 1 => eligible[r]
      /\ attempts[r] > 0 => allowed[r]
      /\ allowed[r] => permit[r]
  BY GatewayAssumption DEF HandlerOK, TypeOK
<1> QED
  BY <1>1, <1>2 DEF HandlerOK

\* What makes a handler in step when it is about to try again ...
LEMMA NextAttempt ==
  ASSUME NEW r \in Requests, attempts[r] \in Nat, attempts'[r] = attempts[r] + 1,
         UNCHANGED <<state, gen, permit, eligible, allowed, logged, enqueued>>,
         gen[r] <= state, allowed[r], permit[r], eligible[r], attempts[r] < Retries,
         logged[r] = 0, enqueued[r] = 0, pc'[r] = "attempt"
  PROVE  HandlerOK(r)'
  BY GatewayAssumption DEF HandlerOK

\* ... and when the attempt was its last.
LEMMA LastAttempt ==
  ASSUME NEW r \in Requests, attempts[r] \in Nat, attempts'[r] = attempts[r] + 1,
         UNCHANGED <<state, gen, permit, eligible, allowed, logged, enqueued>>,
         gen[r] <= state, allowed[r], permit[r], attempts[r] <= Retries,
         attempts[r] > 0 => eligible[r],
         logged[r] = 0, enqueued[r] = 0, pc'[r] = "conclude",
         record'[r].isError <=> record'[r].status = "5xx", ~record'[r].dropped
  PROVE  HandlerOK(r)'
  BY GatewayAssumption DEF HandlerOK

\* What makes it so while its response is sent.
LEMMA Answering ==
  ASSUME NEW r \in Requests, attempts[r] \in Nat,
         UNCHANGED <<state, gen, permit, eligible, attempts, allowed, record, logged>>,
         gen[r] <= state, attempts[r] > 0 => allowed[r], allowed[r] => permit[r],
         attempts[r] <= Retries + 1, attempts[r] > 1 => eligible[r],
         logged[r] = 1, record[r].isError <=> record[r].status = "5xx",
         record[r].dropped => record[r].status = "5xx" /\ attempts[r] = 0,
         redacted'[r] >= gen[r],
         \/ pc'[r] = "body" /\ enqueued'[r] = 0
         \/ pc'[r] = "ended" /\ enqueued'[r] = 1
  PROVE  HandlerOK(r)'
  BY DEF HandlerOK

\* What makes it so when it is gone.
LEMMA Ended ==
  ASSUME NEW r \in Requests, attempts[r] \in Nat, logged[r] \in Nat,
         UNCHANGED <<state, gen, eligible, attempts, allowed, logged>>,
         gen[r] <= state, attempts[r] > 0 => allowed[r],
         attempts[r] <= Retries + 1, attempts[r] > 1 => eligible[r],
         pc'[r] = "done", enqueued'[r] = logged[r], logged[r] <= 1
  PROVE  HandlerOK(r)'
  BY DEF HandlerOK

\* The bound on the attempts, wherever the handler is.
LEMMA AttemptsLimited ==
  ASSUME NEW r \in Requests, HandlerOK(r), attempts[r] \in Nat
  PROVE  attempts[r] <= Retries + 1 /\ (attempts[r] > 1 => eligible[r])
<1> DEFINE tries == attempts[r]
<1>1. /\ tries <= IF pc[r] = "attempt" THEN Retries ELSE Retries + 1
      /\ tries > (IF pc[r] = "attempt" THEN 0 ELSE 1) => eligible[r]
  BY DEF HandlerOK
<1>2. tries \in Nat /\ Retries \in Nat
  BY GatewayAssumption
<1> HIDE DEF tries
<1>3. tries <= Retries + 1 /\ (tries > 1 => eligible[r])
  BY <1>1, <1>2
<1> QED
  BY <1>3 DEF tries

\* A handler's own step keeps it in step.
LEMMA OwnStep ==
  ASSUME TypeOK, NEW r \in Requests, HandlerOK(r),
         Accept(r) \/ Run(r) \/ Timed(r) \/ Peer(r)
  PROVE  HandlerOK(r)'
<1> USE GatewayAssumption
<1>0. /\ attempts[r] \in Nat /\ state \in Nat /\ gen[r] \in Nat
      /\ logged[r] \in Nat /\ enqueued[r] \in Nat
  BY DEF TypeOK, Gens
<1>1. CASE Accept(r) \/ Load(r)
  BY <1>0, <1>1 DEF Accept, Load, Goto, server, HandlerOK, TypeOK
<1>2. CASE Acquire(r)
  BY <1>0, <1>2 DEF Acquire, Goto, HandlerOK, TypeOK
<1>3. CASE PreviewRead(r) \/ PolicyAllows(r) \/ Select(r)
  BY <1>0, <1>3, SMTT(40) DEF PreviewRead, PolicyAllows, Select, Goto, server, HandlerOK, TypeOK
<1>4. CASE NoRoute(r) \/ PreviewFailed(r)
  BY <1>4, FinishOK, RecordType DEF NoRoute, PreviewFailed, Statuses
<1>5. CASE LimitReached(r) \/ NoUpstream(r)
  <2>1. Finish(r, Record("5xx", TRUE, TRUE)) /\ pc[r] \in {"route", "select"}
    BY <1>5 DEF LimitReached, NoUpstream
  <2>2. attempts[r] = 0
    <3>1. ~(attempts[r] > 0)
      BY <2>1 DEF HandlerOK
    <3> QED
      BY <1>0, <3>1
  <2> QED
    BY <2>1, <2>2, FinishOK, FailureRecord
<1>6. CASE PolicyDenies(r)
  <2>1. PICK s \in {"4xx", "5xx"} : Finish(r, Record(s, s = "5xx", FALSE))
    BY <1>6 DEF PolicyDenies, DenialRecord
  <2>2. pc[r] = "policy" /\ s \in Statuses
    BY <1>6 DEF PolicyDenies, Statuses
  <2> QED
    BY <2>1, <2>2, FinishOK, AnswerRecord
<1>7. CASE Conclude(r)
  <2>1. record[r] \in Records
    BY SMTT(40) DEF TypeOK
  <2> QED
    BY <1>7, <2>1, FinishOK DEF Conclude, HandlerOK
<1>8. CASE AttemptAnswered(r) \/ AttemptFailed(r)
  <2>1. /\ pc[r] = "attempt" /\ attempts'[r] = attempts[r] + 1
        /\ UNCHANGED <<state, gen, permit, eligible, allowed, logged, enqueued>>
    BY <1>8 DEF AttemptAnswered, AttemptFailed, server, TypeOK
  <2>2. /\ gen[r] <= state /\ allowed[r] /\ permit[r]
        /\ attempts[r] <= Retries /\ (attempts[r] > 0 => eligible[r])
        /\ logged[r] = 0 /\ enqueued[r] = 0
    BY <2>1 DEF HandlerOK
  <2>3. CASE AttemptAnswered(r)
    <3>1. PICK s \in Statuses : record'[r] = Record(s, s = "5xx", FALSE)
      BY <2>3 DEF AttemptAnswered, TypeOK
    <3>2. /\ record'[r].isError <=> record'[r].status = "5xx"
          /\ ~record'[r].dropped
      BY <3>1, AnswerRecord, ZenonT(60)
    <3>3. pc'[r] = "conclude"
      BY <2>3 DEF AttemptAnswered, Goto, TypeOK
    <3> QED
      BY <1>0, <2>1, <2>2, <3>2, <3>3, LastAttempt
  <2>4. CASE AttemptFailed(r) /\ RetriesLeft(r)
    <3>1. pc'[r] = "attempt"
      BY <2>4 DEF AttemptFailed, Goto, TypeOK
    <3>2. eligible[r] /\ attempts[r] < Retries
      BY <2>4 DEF RetriesLeft
    <3> QED
      BY <1>0, <2>1, <2>2, <3>1, <3>2, NextAttempt
  <2>5. CASE AttemptFailed(r) /\ ~RetriesLeft(r)
    <3>1. pc'[r] = "conclude"
      BY <2>5 DEF AttemptFailed, Goto, TypeOK
    <3>2. record'[r] = Record("5xx", TRUE, FALSE)
      BY <2>5 DEF AttemptFailed, TypeOK
    <3>3. /\ record'[r].isError <=> record'[r].status = "5xx"
          /\ ~record'[r].dropped
      BY <3>2 DEF Record
    <3> QED
      BY <1>0, <2>1, <2>2, <3>1, <3>3, LastAttempt
  <2> QED
    BY <1>8, <2>3, <2>4, <2>5
<1>9. CASE Attach(r) \/ BodyEnds(r)
  <2>1. /\ pc[r] \in {"attach", "body"}
        /\ UNCHANGED <<state, gen, permit, eligible, attempts, allowed, record, logged>>
    BY <1>9 DEF Attach, BodyEnds, server
  <2>2. /\ gen[r] <= state /\ (attempts[r] > 0 => allowed[r]) /\ (allowed[r] => permit[r])
        /\ attempts[r] <= Retries + 1 /\ (attempts[r] > 1 => eligible[r])
    BY <1>0, <2>1 DEF HandlerOK
  <2>3. /\ logged[r] = 1
        /\ record[r].isError <=> record[r].status = "5xx"
        /\ record[r].dropped => record[r].status = "5xx" /\ attempts[r] = 0
    BY <2>1 DEF HandlerOK
  <2>4. enqueued[r] = 0
    BY <2>1 DEF HandlerOK
  <2>5. pc[r] = "body" => redacted[r] >= gen[r]
    BY DEF HandlerOK
  <2>6. CASE Attach(r)
    <3>1. pc'[r] = "body" /\ enqueued'[r] = enqueued[r] /\ redacted'[r] = state
      BY <2>6 DEF Attach, ResponseRedaction, Goto, TypeOK
    <3>2. redacted'[r] >= gen[r]
      BY <1>0, <2>2, <3>1
    <3> QED
      BY <1>0, <2>1, <2>2, <2>3, <2>4, <3>1, <3>2, Answering
  <2>7. CASE BodyEnds(r)
    <3>1. /\ pc[r] = "body" /\ pc'[r] = "ended" /\ redacted'[r] = redacted[r]
          /\ enqueued'[r] = enqueued[r] + 1
      BY <2>7 DEF BodyEnds, Finalize, Goto, TypeOK
    <3>2. enqueued'[r] = 1
      BY <2>4, <3>1
    <3>3. redacted'[r] >= gen[r]
      BY <2>5, <3>1
    <3> QED
      BY <1>0, <2>1, <2>2, <2>3, <3>1, <3>2, <3>3, Answering
  <2> QED
    BY <1>9, <2>6, <2>7
<1>10. CASE BodyDropped(r) \/ Cancel(r)
  <2>1. /\ pc'[r] = "done"
        /\ UNCHANGED <<state, gen, eligible, attempts, allowed, record, redacted, logged>>
        /\ enqueued'[r] = logged[r] /\ logged[r] <= 1
    <3>1. CASE BodyDropped(r)
      BY <1>0, <3>1 DEF BodyDropped, Finalize, Goto, HandlerOK, TypeOK
    <3>2. CASE Cancel(r)
      <4>1. /\ pc[r] \in {"accepted", "preview", "policy", "attempt"} /\ pc'[r] = "done"
            /\ UNCHANGED <<state, gen, eligible, attempts, allowed, record, redacted, logged>>
            /\ enqueued'[r] = enqueued[r]
        BY <3>2 DEF Cancel, Goto, TypeOK
      <4>2. logged[r] = 0 /\ enqueued[r] = 0
        BY <4>1 DEF HandlerOK
      <4>3. enqueued'[r] = logged[r] /\ logged[r] <= 1
        BY <4>1, <4>2
      <4> QED
        BY <4>1, <4>3
    <3> QED
      BY <1>10, <3>1, <3>2
  <2>2. gen[r] <= state /\ (attempts[r] > 0 => allowed[r])
    BY DEF HandlerOK
  <2>3. attempts[r] <= Retries + 1 /\ (attempts[r] > 1 => eligible[r])
    BY <1>0, AttemptsLimited
  <2> QED
    BY <1>0, <2>1, <2>2, <2>3, Ended
<1> QED
  BY <1>1, <1>2, <1>3, <1>4, <1>5, <1>6, <1>7, <1>8, <1>9, <1>10
     DEF Run, Timed, Peer

\* Every handler is always in step with what it owns, has sent and recorded.
THEOREM HandlersInStep == Spec => []HandlerInv
<1>1. Init => HandlerInv
  BY GatewayAssumption DEF Init, HandlerInv, HandlerOK
<1>2. TypeOK /\ HandlerInv /\ [Next]_vars => HandlerInv'
  <2> SUFFICES ASSUME TypeOK, HandlerInv, [Next]_vars, NEW q \in Requests
               PROVE  HandlerOK(q)'
    BY DEF HandlerInv
  <2>1. HandlerOK(q)
    BY DEF HandlerInv
  <2>2. state \in Nat /\ gen[q] \in Nat
    BY GatewayAssumption DEF TypeOK, Gens
  <2>3. CASE Reload \/ Shutdown \/ UNCHANGED vars
    <3>1. /\ UNCHANGED <<pc, gen, permit, eligible, attempts, allowed, record, redacted,
                         logged, enqueued>>
          /\ state' = state \/ state' = state + 1
      BY <2>3 DEF Reload, Shutdown, vars
    <3>2. Local(q)' = Local(q)
      BY <3>1 DEF Local
    <3>3. state' \in Nat /\ state' >= state
      BY <2>2, <3>1
    <3> QED
      BY <2>1, <2>2, <3>2, <3>3, StillOK
  <2>4. ASSUME NEW r \in Requests, Accept(r) \/ Run(r) \/ Timed(r) \/ Peer(r)
        PROVE  HandlerOK(q)'
    <3>1. CASE q = r
      BY <2>1, <2>4, <3>1, OwnStep
    <3>2. CASE q # r
      BY <2>1, <2>2, <2>4, <3>2, OthersStill, StillOK
    <3> QED
      BY <3>1, <3>2
  <2> QED
    BY <2>3, <2>4 DEF Next
<1> QED
  BY <1>1, <1>2, TypeCorrect, PTL DEF Spec

\* An upstream is contacted only for a request its policy allowed and that
\* holds a permit; retries are bounded and only for eligible requests; every
\* response is logged and handed to the writer once; the flags of its record
\* agree with its status; its headers are not redacted with an older state.
THEOREM RequestGuarantees ==
  Spec => [](AdmittedOnly /\ AttemptsBounded /\ RecordedOnce /\ RecordFlags
             /\ RedactionNotOlder)
<1>1. TypeOK /\ HandlerInv => AdmittedOnly /\ AttemptsBounded /\ RecordedOnce
  <2> SUFFICES ASSUME TypeOK, HandlerInv, NEW r \in Requests
               PROVE  /\ attempts[r] > 0 \/ pc[r] \in {"attempt", "conclude"} => allowed[r]
                      /\ allowed[r] /\ pc[r] # "done" => permit[r]
                      /\ attempts[r] <= Retries + 1
                      /\ attempts[r] > 1 => eligible[r]
                      /\ logged[r] <= 1 /\ enqueued[r] <= logged[r]
                      /\ pc[r] \in {"ended", "done"} => enqueued[r] = logged[r]
    BY DEF AdmittedOnly, AttemptsBounded, RecordedOnce
  <2>1. HandlerOK(r) /\ attempts[r] \in Nat /\ logged[r] \in Nat /\ Retries \in Nat
    BY GatewayAssumption DEF HandlerInv, TypeOK
  <2>2. /\ attempts[r] > 0 \/ pc[r] \in {"attempt", "conclude"} => allowed[r]
        /\ allowed[r] /\ pc[r] # "done" => permit[r]
    BY <2>1 DEF HandlerOK
  <2>3. attempts[r] <= Retries + 1 /\ (attempts[r] > 1 => eligible[r])
    BY <2>1, AttemptsLimited
  <2>4. /\ logged[r] <= 1 /\ enqueued[r] <= logged[r]
        /\ pc[r] \in {"ended", "done"} => enqueued[r] = logged[r]
    <3>1. CASE pc[r] \in {"ended", "done"}
      BY <2>1, <3>1 DEF HandlerOK
    <3>2. CASE pc[r] \notin {"ended", "done"}
      BY <2>1, <3>2 DEF HandlerOK
    <3> QED
      BY <3>1, <3>2
  <2> QED
    BY <2>2, <2>3, <2>4
<1>2. HandlerInv => RecordFlags /\ RedactionNotOlder
  BY DEF HandlerInv, HandlerOK, RecordFlags, RedactionNotOlder
<1> QED
  BY <1>1, <1>2, TypeCorrect, HandlersInStep, PTL

\* The part of it about records: whether the body ends, is dropped or both, a
\* response is logged once and its record is handed over once, before the
\* permit is free.
THEOREM RecordsAreWrittenOnce == Spec => []RecordedOnce
<1>1. AdmittedOnly /\ AttemptsBounded /\ RecordedOnce /\ RecordFlags /\ RedactionNotOlder
        => RecordedOnce
  OBVIOUS
<1> QED
  BY <1>1, RequestGuarantees, PTL

-----------------------------------------------------------------------------
(* Permits *)

\* The holders of a generation's permits are finitely many, before and after
\* a step.
LEMMA HoldersFinite ==
  ASSUME NEW g
  PROVE  /\ IsFiniteSet(Holders(g)) /\ Cardinality(Holders(g)) \in Nat
         /\ IsFiniteSet(Holders(g)') /\ Cardinality(Holders(g)') \in Nat
<1>1. Holders(g) \in SUBSET Requests /\ Holders(g)' \in SUBSET Requests
  BY DEF Holders
<1> QED
  BY <1>1, FS_Subset, FS_CardinalityType, GatewayAssumption, SMTT(40)

\* Dropping the owner of a permit moves it from the holders back to the
\* semaphore it came from.
LEMMA ReleaseConserves ==
  ASSUME TypeOK, NEW r \in Requests, Release(r), gen' = gen, NEW g \in Gens
  PROVE  avail'[g] + Cardinality(Holders(g)') = avail[g] + Cardinality(Holders(g))
<1>1. CASE r \in Holders(g)
  <2>1. Holders(g)' = Holders(g) \ {r}
    BY <1>1 DEF Release, Holders, TypeOK
  <2>2. Cardinality(Holders(g)') = Cardinality(Holders(g)) - 1
    BY <1>1, <2>1, HoldersFinite, FS_RemoveElement
  <2>3. avail'[g] = avail[g] + 1 /\ avail[g] \in Nat
    BY <1>1 DEF Release, Holders, TypeOK
  <2> QED
    BY <2>2, <2>3, HoldersFinite
<1>2. CASE r \notin Holders(g)
  <2>1. Holders(g)' = Holders(g)
    BY <1>2 DEF Release, Holders, TypeOK
  <2>2. avail'[g] = avail[g]
    BY <1>2 DEF Release, Holders, TypeOK
  <2> QED
    BY <2>1, <2>2
<1> QED
  BY <1>1, <1>2

\* A permit that is acquired moves from the semaphore to the holders.
LEMMA AcquireConserves ==
  ASSUME TypeOK, HandlerInv, NEW r \in Requests, Acquire(r), NEW g \in Gens
  PROVE  avail'[g] + Cardinality(Holders(g)') = avail[g] + Cardinality(Holders(g))
<1>1. ~permit[r]
  BY DEF HandlerInv, HandlerOK, Acquire
<1>2. CASE gen[r] = g
  <2>1. Holders(g)' = Holders(g) \cup {r} /\ r \notin Holders(g)
    BY <1>1, <1>2 DEF Acquire, Holders, TypeOK
  <2>2. Cardinality(Holders(g)') = Cardinality(Holders(g)) + 1
    BY <2>1, HoldersFinite, FS_AddElement
  <2>3. avail'[g] = avail[g] - 1 /\ avail[g] \in Nat
    BY <1>2 DEF Acquire, TypeOK
  <2> QED
    BY <2>2, <2>3, HoldersFinite
<1>3. CASE gen[r] # g
  <2>1. Holders(g)' = Holders(g)
    BY <1>3 DEF Acquire, Holders, TypeOK
  <2>2. avail'[g] = avail[g]
    BY <1>3 DEF Acquire, TypeOK
  <2> QED
    BY <2>1, <2>2
<1> QED
  BY <1>2, <1>3

\* For every generation the free permits and the requests holding one add up
\* to concurrency_limit: no path, cancellation or reload leaks a permit.
THEOREM PermitsAreConserved == Spec => []PermitsConserved
<1>1. Init => PermitsConserved
  <2> SUFFICES ASSUME Init, NEW g \in Gens
               PROVE  avail[g] + Cardinality(Holders(g)) = Limit[g]
    BY DEF PermitsConserved
  <2>1. Holders(g) = {}
    BY DEF Init, Holders
  <2>2. Cardinality({}) = 0
    BY FS_EmptySet
  <2>3. avail[g] = Limit[g] /\ Limit[g] \in Nat
    BY GatewayAssumption DEF Init
  <2> QED
    BY <2>1, <2>2, <2>3
<1>2. TypeOK /\ HandlerInv /\ PermitsConserved /\ [Next]_vars => PermitsConserved'
  <2> SUFFICES ASSUME TypeOK, HandlerInv, PermitsConserved, [Next]_vars, NEW g \in Gens
               PROVE  avail'[g] + Cardinality(Holders(g)') = avail[g] + Cardinality(Holders(g))
    BY DEF PermitsConserved
  <2>1. ASSUME UNCHANGED <<avail, permit, gen>>
        PROVE  avail'[g] + Cardinality(Holders(g)') = avail[g] + Cardinality(Holders(g))
    BY <2>1 DEF Holders
  <2>2. CASE Reload \/ Shutdown \/ UNCHANGED vars
    BY <2>1, <2>2 DEF Reload, Shutdown, vars
  <2>3. ASSUME NEW r \in Requests, Load(r)
        PROVE  avail'[g] + Cardinality(Holders(g)') = avail[g] + Cardinality(Holders(g))
    <3>1. ~permit[r] /\ UNCHANGED <<avail, permit>> /\ \A q \in Requests \ {r} : gen'[q] = gen[q]
      BY <2>3 DEF HandlerInv, HandlerOK, Load, server, TypeOK
    <3>2. Holders(g)' = Holders(g)
      BY <3>1, SMTT(40) DEF Holders
    <3> QED
      BY <3>1, <3>2
  <2>4. ASSUME NEW r \in Requests, BodyDropped(r) \/ Cancel(r)
        PROVE  avail'[g] + Cardinality(Holders(g)') = avail[g] + Cardinality(Holders(g))
    <3>1. Release(r) /\ gen' = gen
      BY <2>4 DEF BodyDropped, Cancel
    <3> QED
      BY <3>1, ReleaseConserves
  <2>5. ASSUME NEW r \in Requests,
               \/ Accept(r) \/ NoRoute(r) \/ LimitReached(r) \/ PreviewRead(r)
               \/ PreviewFailed(r) \/ PolicyAllows(r) \/ PolicyDenies(r)
               \/ NoUpstream(r) \/ Select(r) \/ AttemptAnswered(r)
               \/ AttemptFailed(r) \/ Conclude(r) \/ Attach(r) \/ BodyEnds(r)
        PROVE  UNCHANGED <<avail, permit, gen>>
    BY <2>5 DEF Accept, NoRoute, LimitReached, PreviewRead, PreviewFailed,
                PolicyAllows, PolicyDenies, NoUpstream, Select, AttemptAnswered,
                AttemptFailed, Conclude, Attach, BodyEnds, Finish, server
  <2> QED
    BY <2>1, <2>2, <2>3, <2>4, <2>5, AcquireConserves DEF Next, Run, Timed, Peer
<1> QED
  BY <1>1, <1>2, TypeCorrect, HandlersInStep, PTL DEF Spec

-----------------------------------------------------------------------------
(* What is left of a request *)

\* How far each place is from the end of the handler.
Stage ==
  [closed |-> 11, accepted |-> 10, route |-> 9, preview |-> 8, policy |-> 7, select |-> 6,
   attempt |-> 5, conclude |-> 4, attach |-> 3, body |-> 2, ended |-> 1, done |-> 0]

\* The steps that request r may still take: its places and its attempts.
StepsLeft(r) == Stage[pc[r]] + (Retries + 1 - attempts[r])

\* Within the bound there is a number of steps left.
LEMMA StepsAreBounded ==
  ASSUME TypeOK, HandlerInv, NEW r \in Requests
  PROVE  StepsLeft(r) \in 0 .. Retries + 12
<1>1. attempts[r] \in Nat /\ attempts[r] <= Retries + 1 /\ Retries \in Nat
  BY AttemptsLimited, GatewayAssumption DEF TypeOK, HandlerInv
<1>2. Stage[pc[r]] \in 0 .. 11
  BY DEF Stage, TypeOK, PCs
<1> QED
  BY <1>1, <1>2 DEF StepsLeft

\* A step of the handler uses one up.
LEMMA StepsAreUsed ==
  ASSUME TypeOK, HandlerInv, NEW r \in Requests,
         Accept(r) \/ Run(r) \/ Timed(r) \/ Peer(r)
  PROVE  StepsLeft(r)' < StepsLeft(r)
<1>1. attempts[r] \in Nat /\ Retries \in Nat /\ pc \in [Requests -> PCs]
  BY GatewayAssumption DEF TypeOK
<1>2. ASSUME attempts'[r] = attempts[r], Stage[pc'[r]] \in Nat, Stage[pc[r]] \in Nat,
             Stage[pc'[r]] < Stage[pc[r]]
      PROVE  StepsLeft(r)' < StepsLeft(r)
  BY <1>1, <1>2 DEF StepsLeft
<1>3. CASE Accept(r) \/ Load(r) \/ Acquire(r) \/ PreviewRead(r) \/ PolicyAllows(r)
              \/ Select(r) \/ Attach(r)
  <2>1. attempts'[r] = attempts[r]
    BY <1>3, Zenon DEF Accept, Load, Acquire, PreviewRead, PolicyAllows, Select, Attach
  <2>2. \/ pc[r] = "closed" /\ pc'[r] = "accepted"
        \/ pc[r] = "accepted" /\ pc'[r] = "route"
        \/ pc[r] = "route" /\ pc'[r] \in {"preview", "policy"}
        \/ pc[r] = "preview" /\ pc'[r] = "policy"
        \/ pc[r] = "policy" /\ pc'[r] = "select"
        \/ pc[r] = "select" /\ pc'[r] = "attempt"
        \/ pc[r] = "attach" /\ pc'[r] = "body"
    BY <1>1, <1>3 DEF Accept, Load, Acquire, PreviewRead, PolicyAllows, Select, Attach, Goto
  <2> QED
    BY <1>2, <2>1, <2>2 DEF Stage
<1>4. CASE NoRoute(r) \/ LimitReached(r) \/ PreviewFailed(r) \/ PolicyDenies(r)
              \/ NoUpstream(r) \/ Conclude(r)
  <2>1. /\ \E rec : Finish(r, rec)
        /\ pc[r] \in {"route", "preview", "policy", "select", "conclude"}
    BY <1>4, Zenon DEF NoRoute, LimitReached, PreviewFailed, PolicyDenies, NoUpstream, Conclude
  <2>2. attempts'[r] = attempts[r] /\ pc'[r] = "attach"
    BY <1>1, <2>1 DEF Finish, Goto
  <2> QED
    BY <1>2, <2>1, <2>2 DEF Stage
<1>5. CASE AttemptAnswered(r) \/ AttemptFailed(r)
  <2>1. /\ pc[r] = "attempt" /\ (Goto(r, "attempt") \/ Goto(r, "conclude"))
        /\ attempts' = [attempts EXCEPT ![r] = @ + 1]
    BY <1>5, Zenon DEF AttemptAnswered, AttemptFailed
  <2>2. pc'[r] \in {"attempt", "conclude"} /\ attempts'[r] = attempts[r] + 1
    BY <1>1, <2>1 DEF Goto, TypeOK
  <2>3. Stage[pc[r]] = 5 /\ Stage[pc'[r]] \in {4, 5}
    BY <2>1, <2>2 DEF Stage
  <2> QED
    BY <1>1, <2>2, <2>3 DEF StepsLeft
<1>6. CASE BodyEnds(r) \/ BodyDropped(r) \/ Cancel(r)
  <2>1. attempts'[r] = attempts[r]
    BY <1>6, Zenon DEF BodyEnds, BodyDropped, Cancel
  <2>2. \/ pc[r] = "body" /\ pc'[r] = "ended"
        \/ pc[r] \in {"body", "ended", "accepted", "preview", "policy", "attempt"} /\ pc'[r] = "done"
    BY <1>1, <1>6 DEF BodyEnds, BodyDropped, Cancel, Goto
  <2> QED
    BY <1>2, <2>1, <2>2 DEF Stage
<1> QED
  BY <1>3, <1>4, <1>5, <1>6, Zenon DEF Run, Timed, Peer

\* No handler goes round in circles, whatever the others, the reloads and the
\* shutdown do: a request has at most retries + 12 steps, each step is one
\* handler's and uses one of its own up, and nobody gives it new ones.  With
\* the fairness of FairSpec this is why RequestsEnd holds.
RunsDown ==
  /\ [](\A r \in Requests : StepsLeft(r) \in 0 .. Retries + 12)
  /\ [][\A r \in Requests : Local(r)' = Local(r) \/ StepsLeft(r)' < StepsLeft(r)]_vars
THEOREM RequestsRunDown == Spec => RunsDown
<1>1. TypeOK /\ HandlerInv => \A r \in Requests : StepsLeft(r) \in 0 .. Retries + 12
  BY StepsAreBounded
<1>2. ASSUME TypeOK, HandlerInv, [Next]_vars, NEW q \in Requests
      PROVE  Local(q)' = Local(q) \/ StepsLeft(q)' < StepsLeft(q)
  <2>1. CASE Reload \/ Shutdown \/ UNCHANGED vars
    BY <2>1, Zenon DEF Reload, Shutdown, vars, Local
  <2>2. ASSUME NEW r \in Requests, Accept(r) \/ Run(r) \/ Timed(r) \/ Peer(r)
        PROVE  Local(q)' = Local(q) \/ StepsLeft(q)' < StepsLeft(q)
    <3>1. CASE q = r
      BY <1>2, <2>2, <3>1, StepsAreUsed
    <3>2. CASE q # r
      BY <1>2, <2>2, <3>2, OthersStill
    <3> QED
      BY <3>1, <3>2
  <2> QED
    BY <1>2, <2>1, <2>2, Zenon DEF Next
<1>3. TypeOK /\ HandlerInv /\ [Next]_vars =>
        \A r \in Requests : Local(r)' = Local(r) \/ StepsLeft(r)' < StepsLeft(r)
  BY <1>2
<1> QED
  BY <1>1, <1>3, TypeCorrect, HandlersInStep, PTL DEF Spec, RunsDown
=============================================================================
