------------------------- MODULE PolicyEngineProofs -------------------------
(***************************************************************************)
(* Proofs about PolicyEngine, for any number of requests, plugins and      *)
(* chains, any fuel, and whatever the guests decide: what is recorded of   *)
(* an evaluation, that its clock is kept and its steps run out, that what  *)
(* is stored and what a guest is shown has been redacted, and that the     *)
(* upstream is sent what the guests asked for.                             *)
(***************************************************************************)
EXTENDS PolicyEngine, DataLemmas, TLAPS

\* What appending a record does to the records.
LEMMA Appended ==
  ASSUME NEW s, IsList(s), NEW x
  PROVE  /\ IsList(Append(s, x))
         /\ Len(s) \in Nat /\ Len(Append(s, x)) = Len(s) + 1
         /\ DOMAIN s = 1 .. Len(s) /\ DOMAIN Append(s, x) = 1 .. Len(s) + 1
         /\ \A i \in 1 .. Len(s) : Append(s, x)[i] = s[i]
         /\ Append(s, x)[Len(s) + 1] = x
<1> DEFINE S == {s[i] : i \in DOMAIN s}
           t == Append(s, x)
<1>1. s \in Seq(S \cup {x})
  BY DEF IsList, Range
<1>2. /\ Len(s) \in Nat /\ Len(t) = Len(s) + 1
      /\ DOMAIN s = 1 .. Len(s) /\ DOMAIN t = 1 .. Len(s) + 1
      /\ \A i \in 1 .. Len(s) : t[i] = s[i]
      /\ t[Len(s) + 1] = x
      /\ t \in Seq(S \cup {x})
  BY <1>1
<1>3. t \in Seq({t[i] : i \in DOMAIN t})
  <2> HIDE DEF t
  <2> QED
    BY <1>2
<1> QED
  BY <1>2, <1>3, Zenon DEF IsList, Range

Kinds == {"allow", "deny", "error"}

\* A guest allows or denies.
LEMMA DecisionKinds ==
  ASSUME NEW r, NEW d \in Decisions(r)
  PROVE  d.kind \in {"allow", "deny"}
<1>1. \A shown, deed, kind, status : Decision(shown, deed, kind, status).kind = kind
  BY DEF Decision
<1> QED
  BY <1>1 DEF Decisions

ErrorStatuses == 400 .. 599

\* Whatever status a plugin asks for, the answer is an error response.
LEMMA ErrorStatus ==
  /\ \A s : NormalStatus(s) \in ErrorStatuses
  /\ 403 \in ErrorStatuses /\ 0 \notin ErrorStatuses
BY DEF NormalStatus, ErrorStatuses
-----------------------------------------------------------------------------
(* The evaluation of one request *)

\* All plugins that have answered have allowed the request.
Clean(r) ==
  \A i \in DOMAIN records[r] :
    records[r][i].action = "allow" /\ ~records[r][i].timedOut /\ ~records[r][i].error

\* Where an evaluation is says what its records are.
Sound(r) ==
  /\ IsList(records[r]) /\ Len(records[r]) <= Len(Chain[r])
  /\ denied[r] \in {0} \cup ErrorStatuses
  /\ denied[r] = 0 => Clean(r)
  /\ denied[r] # 0 =>
       /\ Len(records[r]) # 0 /\ records[r][Len(records[r])].action = "deny"
       /\ \A i \in DOMAIN records[r] : i # Len(records[r]) => records[r][i].action = "allow"
  /\ pc[r] \in {"next", "await", "allowed"} => denied[r] = 0
  /\ pc[r] = "await" => Len(records[r]) < Len(Chain[r])
  /\ pc[r] = "allowed" => Len(records[r]) = Len(Chain[r])
  /\ pc[r] # "done" => outcome[r] = {}
  /\ \A o \in outcome[r] : o.sent # {} => denied[r] = 0 /\ Len(records[r]) = Len(Chain[r])
  /\ result[r].kind \in Kinds

Shape ==
  /\ pc = [r \in Requests |-> pc[r]] /\ result = [r \in Requests |-> result[r]]
  /\ records = [r \in Requests |-> records[r]] /\ denied = [r \in Requests |-> denied[r]]
  /\ outcome = [r \in Requests |-> outcome[r]]

EvalInv == Shape /\ \A r \in Requests : Sound(r)

\* What a step of one request leaves alone of another.
Same(q) ==
  /\ pc'[q] = pc[q] /\ records'[q] = records[q] /\ denied'[q] = denied[q]
  /\ outcome'[q] = outcome[q] /\ result'[q] = result[q]

\* The evaluation of a request does not change with what another one does.
LEMMA SameIsSound == ASSUME NEW q, Sound(q), Same(q) PROVE Sound(q)'
BY DEF Sound, Same, Clean

\* The answer or the timeout of a plugin is recorded, and what follows agrees.
LEMMA SettleIsSound ==
  ASSUME Shape, NEW r \in Requests, Sound(r), pc[r] = "await",
         NEW res, res.kind \in Kinds, NEW timedOut \in BOOLEAN, timedOut => res.kind = "error",
         Settle(r, res, timedOut), outcome' = outcome, result' = result
  PROVE  Sound(r)' /\ Shape' /\ \A q \in Requests \ {r} : Same(q)
<1> DEFINE rec == RecordOf(res, timedOut)
           n == Len(records[r])
<1>1. /\ records' = [records EXCEPT ![r] = Append(records[r], rec)]
      /\ pc' = [pc EXCEPT ![r] = IF res.kind = "allow" THEN "next" ELSE "denied"]
      /\ denied' = [denied EXCEPT ![r] = IF res.kind = "allow" THEN 0
                      ELSE IF res.kind = "deny" THEN NormalStatus(res.status) ELSE 403]
  BY DEF Settle, Goto
<1>2. Shape' /\ \A q \in Requests \ {r} : Same(q)
  <2> HIDE DEF rec
  <2>0. PICK status : denied' = [denied EXCEPT ![r] = status]
    BY <1>1, Zenon
  <2>1. Shape'
    <3>1. pc' = [q \in Requests |-> pc'[q]]
      BY <1>1, Zenon DEF Shape
    <3>2. records' = [q \in Requests |-> records'[q]]
      BY <1>1, Zenon DEF Shape
    <3>3. denied' = [q \in Requests |-> denied'[q]]
      BY <2>0 DEF Shape
    <3> QED
      BY <3>1, <3>2, <3>3 DEF Shape
  <2>2. ASSUME NEW q \in Requests \ {r} PROVE Same(q)
    <3>1. pc'[q] = pc[q] /\ records'[q] = records[q]
      BY <1>1, Zenon DEF Shape
    <3>2. denied'[q] = denied[q]
      BY <2>0 DEF Shape
    <3> QED
      BY <3>1, <3>2 DEF Same
  <2> QED
    BY <2>1, <2>2, Zenon
<1>3. records'[r] = Append(records[r], rec) /\ outcome'[r] = {} /\ result'[r].kind \in Kinds
  BY <1>1 DEF Shape, Sound
<1>4. /\ rec.action = "allow" <=> res.kind = "allow"
      /\ rec.action \in {"allow", "deny"}
      /\ res.kind = "allow" => ~rec.timedOut /\ ~rec.error
  BY DEF RecordOf, Kinds
<1> HIDE DEF rec
<1>5. /\ IsList(records'[r]) /\ n \in Nat /\ Len(records'[r]) = n + 1
      /\ DOMAIN records'[r] = 1 .. n + 1 /\ DOMAIN records[r] = 1 .. n
      /\ \A i \in 1 .. n : records'[r][i] = records[r][i]
      /\ records'[r][n + 1] = rec
  BY <1>3, Appended DEF Sound
<1>6. n < Len(Chain[r]) /\ Len(Chain[r]) \in Nat /\ denied[r] = 0 /\ Clean(r)
  BY PolicyAssumption DEF Sound
<1>7. n + 1 <= Len(Chain[r])
  BY <1>5, <1>6
<1>8. \A i \in 1 .. n : records'[r][i].action = "allow" /\ ~records'[r][i].timedOut /\ ~records'[r][i].error
  BY <1>5, <1>6, Zenon DEF Clean
<1>9. \A i \in 1 .. n + 1 : i \in 1 .. n \/ i = n + 1
  BY <1>5
<1>10. CASE res.kind = "allow"
  <2>1. denied'[r] = 0 /\ pc'[r] = "next"
    BY <1>1, <1>10, Zenon DEF Shape
  <2>2. Clean(r)'
    BY <1>4, <1>5, <1>8, <1>9, <1>10, Zenon DEF Clean
  <2> QED
    BY <1>2, <1>3, <1>5, <1>7, <2>1, <2>2, Zenon DEF Sound
<1>11. CASE res.kind # "allow"
  <2>1. /\ pc'[r] = "denied"
        /\ denied'[r] = NormalStatus(res.status) \/ denied'[r] = 403
    BY <1>1, <1>11, Zenon DEF Shape
  <2>2. denied'[r] \in ErrorStatuses /\ denied'[r] # 0
    BY <2>1, ErrorStatus
  <2>3. records'[r][n + 1].action = "deny"
    BY <1>4, <1>5, <1>11, Zenon
  <2>4. \A i \in DOMAIN records'[r] : i # n + 1 => records'[r][i].action = "allow"
    BY <1>5, <1>8, <1>9, Zenon
  <2>5. Len(records'[r]) # 0
    BY <1>5
  <2> QED
    BY <1>2, <1>3, <1>5, <1>7, <2>1, <2>2, <2>3, <2>4, <2>5 DEF Sound
<1> QED
  BY <1>10, <1>11, Zenon
\* Every step keeps every evaluation sound.
LEMMA EvalStep == EvalInv /\ [Next]_vars => EvalInv'
<1> SUFFICES ASSUME EvalInv, [Next]_vars PROVE EvalInv'
  OBVIOUS
<1>0. Shape /\ \A q \in Requests : Sound(q)
  BY DEF EvalInv
<1>a. ASSUME NEW r \in Requests, Shape', Sound(r)', \A q \in Requests \ {r} : Same(q)
      PROVE  EvalInv'
  BY <1>0, <1>a, SameIsSound, Zenon DEF EvalInv
<1>1. ASSUME NEW r \in Requests, Spawn(r) PROVE EvalInv'
  <2>1. Shape' /\ \A q \in Requests \ {r} : Same(q)
    BY <1>0, <1>1, Zenon DEF Spawn, Goto, evaluation, Shape, Same
  <2>2. /\ pc[r] = "next" /\ pc'[r] = "await" /\ Len(records[r]) < Len(Chain[r])
        /\ UNCHANGED <<records, denied, outcome, result>>
    BY <1>0, <1>1 DEF Spawn, Goto, evaluation, Shape
  <2>3. Sound(r)'
    BY <1>0, <2>2 DEF Sound, Clean
  <2> QED
    BY <1>a, <2>1, <2>3, Zenon
<1>2. ASSUME NEW r \in Requests, Return(r) PROVE EvalInv'
  <2>1. Shape' /\ \A q \in Requests \ {r} : Same(q)
    BY <1>0, <1>2, Zenon DEF Return, Goto, evaluation, call, Shape, Same
  <2>2. /\ pc[r] = "next" /\ pc'[r] = "allowed" /\ Len(records[r]) = Len(Chain[r])
        /\ UNCHANGED <<records, denied, outcome, result>>
    BY <1>0, <1>2 DEF Return, Goto, evaluation, call, Shape
  <2>3. Sound(r)'
    BY <1>0, <2>2 DEF Sound, Clean
  <2> QED
    BY <1>a, <2>1, <2>3
<1>3. ASSUME NEW r \in Requests, Receive(r) PROVE EvalInv'
  <2>1. pc[r] = "await" /\ Settle(r, result[r], FALSE) /\ outcome' = outcome /\ result' = result
    BY <1>3, Zenon DEF Receive
  <2>2. result[r].kind \in Kinds
    BY <1>0 DEF Sound
  <2> QED
    BY <1>0, <1>a, <2>1, <2>2, SettleIsSound, Zenon
<1>4. ASSUME NEW r \in Requests, Timeout(r) PROVE EvalInv'
  <2>1. pc[r] = "await" /\ Settle(r, Error, TRUE) /\ outcome' = outcome /\ result' = result
    BY <1>4, Zenon DEF Timeout, call
  <2>2. Error.kind = "error" /\ "error" \in Kinds
    BY DEF Error, Kinds
  <2> QED
    BY <1>0, <1>a, <2>1, <2>2, SettleIsSound, Zenon
<1>5. ASSUME NEW r \in Requests, Cancel(r) PROVE EvalInv'
  <2>1. Shape' /\ \A q \in Requests \ {r} : Same(q)
    BY <1>0, <1>5 DEF Cancel, Goto, evaluation, call, Shape, Same
  <2>2. pc[r] = "await" /\ pc'[r] = "dropped" /\ UNCHANGED <<records, denied, outcome, result>>
    BY <1>0, <1>5 DEF Cancel, Goto, evaluation, call, Shape
  <2>3. Sound(r)'
    BY <1>0, <2>2, Zenon DEF Sound, Clean
  <2> QED
    BY <1>a, <2>1, <2>3
<1>6. ASSUME NEW r \in Requests, EndCall(r) PROVE EvalInv'
  <2>1. PICK res \in {Error} \cup Decisions(r) : result' = [result EXCEPT ![r] = res]
    BY <1>6, Zenon DEF EndCall
  <2>2. UNCHANGED <<pc, records, denied, outcome>>
    BY <1>6 DEF EndCall, evaluation
  <2>3. res.kind \in Kinds
    <3>1. Error.kind \in Kinds
      BY DEF Error, Kinds
    <3> QED
      BY <3>1, DecisionKinds DEF Kinds
  <2>4. Shape' /\ \A q \in Requests \ {r} : Same(q)
    BY <1>0, <2>1, <2>2 DEF Shape, Same
  <2>5. result'[r] = res
    BY <1>0, <2>1 DEF Shape
  <2>6. Sound(r)'
    BY <1>0, <2>2, <2>3, <2>5 DEF Sound, Clean
  <2> QED
    BY <1>a, <2>4, <2>6, Zenon
<1>7. ASSUME NEW r \in Requests, Deny(r) \/ Forward(r) PROVE EvalInv'
  <2>1. PICK o : /\ pc[r] = "allowed" \/ o.sent = {}
                 /\ outcome' = [outcome EXCEPT ![r] = {o}]
                 /\ pc' = [pc EXCEPT ![r] = "done"]
                 /\ UNCHANGED <<records, denied, result>>
    <3>1. ASSUME NEW sent, NEW reply, Finish(r, sent, reply)
          PROVE  \E o : /\ o.sent = sent /\ outcome' = [outcome EXCEPT ![r] = {o}]
                        /\ pc' = [pc EXCEPT ![r] = "done"]
                        /\ UNCHANGED <<records, denied, result>>
      <4> DEFINE response == ResponseWithRequestId(reply, RequestIdFromHeaders(Client[r].headers))
                 o == [sent |-> sent, response |-> response, stored |-> Stored(r, response)]
      <4>1. /\ outcome' = [outcome EXCEPT ![r] = {o}] /\ pc' = [pc EXCEPT ![r] = "done"]
            /\ UNCHANGED <<records, denied, result>>
        BY <3>1 DEF Finish, Goto, evaluation, call
      <4>2. o.sent = sent
        OBVIOUS
      <4> HIDE DEF o
      <4> QED
        BY <4>1, <4>2, Zenon
    <3>2. CASE Deny(r)
      BY <3>1, <3>2 DEF Deny
    <3>3. CASE Forward(r)
      BY <3>1, <3>3, Zenon DEF Forward
    <3> QED
      BY <1>7, <3>2, <3>3, Zenon
  <2>2. Shape' /\ \A q \in Requests \ {r} : Same(q)
    BY <1>0, <2>1, Zenon DEF Shape, Same
  <2>3. outcome'[r] = {o} /\ pc'[r] = "done"
    BY <1>0, <2>1 DEF Shape
  <2>4. o.sent # {} => denied[r] = 0 /\ Len(records[r]) = Len(Chain[r])
    BY <1>0, <2>1 DEF Sound
  <2>5. Sound(r)'
    BY <1>0, <2>1, <2>3, <2>4, Zenon DEF Sound, Clean
  <2> QED
    BY <1>a, <2>2, <2>5
<1>8. ASSUME UNCHANGED <<pc, records, denied, outcome, result>> PROVE EvalInv'
  BY <1>0, <1>8, SameIsSound, Zenon DEF EvalInv, Shape, Same
<1>9. ASSUME NEW r \in Requests, StartCall(r) \/ Work(r) PROVE EvalInv'
  BY <1>8, <1>9 DEF StartCall, Work, evaluation
<1>10. CASE UNCHANGED vars
  BY <1>8, <1>10 DEF vars, evaluation, call
<1> QED
  BY <1>1, <1>2, <1>3, <1>4, <1>5, <1>6, <1>7, <1>9, <1>10, Zenon DEF Next, Evaluate, Guest

\* Every evaluation is sound in every reachable state.
LEMMA EvalHolds == Spec => []EvalInv
<1>1. Init => EvalInv
  <2> SUFFICES ASSUME Init PROVE EvalInv
    OBVIOUS
  <2>1. Shape
    BY DEF Init, Shape
  <2>2. \A r \in Requests : /\ records[r] = <<>> /\ denied[r] = 0 /\ outcome[r] = {}
                            /\ pc[r] = "next" /\ result[r].kind = "error"
    BY DEF Init, Error
  <2>3. \A r \in Requests : Len(Chain[r]) \in Nat
    BY PolicyAssumption
  <2>4. IsList(<<>>) /\ Len(<<>>) = 0 /\ DOMAIN <<>> = {}
    BY DEF IsList, Range
  <2> QED
    BY <2>1, <2>2, <2>3, <2>4 DEF EvalInv, Sound, Clean, Kinds
<1> QED
  BY <1>1, EvalStep, PTL DEF Spec

\* Fail closed, for every chain and whatever the guests, the other requests and
\* the timers do: a request is sent only when each plugin has allowed it in
\* time, and a denial is the last record and the only one of its kind.
THEOREM AlwaysFailsClosed == Spec => []FailClosed
<1>1. EvalInv => FailClosed
  <2> SUFFICES ASSUME EvalInv, NEW r \in Requests
               PROVE  /\ pc[r] = "allowed" \/ (\E o \in outcome[r] : o.sent # {}) =>
                           /\ Len(records[r]) = Len(Chain[r])
                           /\ \A i \in DOMAIN records[r] :
                                /\ records[r][i].action = "allow"
                                /\ ~records[r][i].timedOut /\ ~records[r][i].error
                      /\ Len(records[r]) <= Len(Chain[r])
                      /\ {i \in DOMAIN records[r] : records[r][i].action = "deny"} =
                           IF denied[r] # 0 THEN {Len(records[r])} ELSE {}
                      /\ denied[r] \in {0} \cup 400 .. 599
    BY DEF FailClosed
  <2>1. Sound(r)
    BY Zenon DEF EvalInv
  <2>a. denied[r] \in {0} \cup 400 .. 599
    BY <2>1, Zenon DEF Sound, ErrorStatuses
  <2>2. Len(records[r]) \in Nat /\ DOMAIN records[r] = 1 .. Len(records[r])
    BY <2>1 DEF Sound, IsList
  <2>3. pc[r] = "allowed" \/ (\E o \in outcome[r] : o.sent # {}) =>
          Len(records[r]) = Len(Chain[r]) /\ Clean(r)
    BY <2>1, Zenon DEF Sound
  <2>4. CASE denied[r] = 0
    BY <2>1, <2>a, <2>3, <2>4 DEF Sound, Clean
  <2>5. CASE denied[r] # 0
    <3>1. Len(records[r]) \in DOMAIN records[r]
      BY <2>1, <2>2, <2>5 DEF Sound
    <3>2. {i \in DOMAIN records[r] : records[r][i].action = "deny"} = {Len(records[r])}
      BY <2>1, <2>5, <3>1, Zenon DEF Sound
    <3> QED
      BY <2>1, <2>a, <2>3, <2>5, <3>2 DEF Sound, Clean
  <2> QED
    BY <2>4, <2>5
<1> QED
  BY <1>1, EvalHolds, PTL
-----------------------------------------------------------------------------
(* The epoch *)

\* No call has a deadline later than the next epoch.
ClockInv ==
  /\ epoch \in Nat /\ deadline = [r \in Requests |-> deadline[r]]
  /\ \A r \in Requests : deadline[r] \in Nat /\ deadline[r] <= epoch + 1

\* The epoch only grows, and a deadline is set to the next one.
LEMMA ClockHolds == Spec => []ClockInv
<1>1. Init => ClockInv
  BY DEF Init, ClockInv
<1>2. ClockInv /\ [Next]_vars => ClockInv'
  <2> SUFFICES ASSUME ClockInv, [Next]_vars PROVE ClockInv'
    OBVIOUS
  <2> USE DEF ClockInv
  <2>1. ASSUME NEW r \in Requests, Timeout(r) PROVE ClockInv'
    <3>1. epoch' = epoch + 1 /\ deadline' = deadline
      BY <2>1 DEF Timeout, call
    <3> QED
      BY <3>1
  <2>2. ASSUME NEW r \in Requests, StartCall(r) PROVE ClockInv'
    <3>1. epoch' = epoch /\ deadline' = [deadline EXCEPT ![r] = epoch + 1]
      BY <2>2 DEF StartCall, DeadlineNow
    <3> QED
      BY <3>1
  <2>3. ASSUME UNCHANGED <<epoch, deadline>> PROVE ClockInv'
    BY <2>3, Zenon
  <2>4. ASSUME NEW r \in Requests,
               Spawn(r) \/ Return(r) \/ Receive(r) \/ Cancel(r) \/ Work(r) \/ EndCall(r)
        PROVE  UNCHANGED <<epoch, deadline>>
    BY <2>4, Zenon DEF Spawn, Return, Receive, Cancel, Work, EndCall, call
  <2>5. ASSUME NEW r \in Requests, Deny(r) \/ Forward(r) PROVE UNCHANGED <<epoch, deadline>>
    BY <2>5 DEF Deny, Forward, Finish, call
  <2>6. CASE UNCHANGED vars
    BY <2>3, <2>6 DEF vars, call
  <2> QED
    BY <2>1, <2>2, <2>3, <2>4, <2>5, <2>6, Zenon DEF Next, Evaluate, Guest
<1> QED
  BY <1>1, <1>2, PTL DEF Spec

\* The records of a request grow with its own calls only.
LEMMA RecordsGrow ==
  ASSUME Shape, [Next]_vars, NEW r \in Requests
  PROVE  records'[r] = records[r] \/ Receive(r) \/ Timeout(r)
<1>1. ASSUME NEW q \in Requests, Receive(q) \/ Timeout(q), q # r PROVE records'[r] = records[r]
  <2>1. PICK x : records' = [records EXCEPT ![q] = x]
    BY <1>1, Zenon DEF Receive, Timeout, Settle
  <2> QED
    BY <1>1, <2>1 DEF Shape
<1>2. ASSUME NEW q \in Requests,
             Spawn(q) \/ Return(q) \/ Cancel(q) \/ StartCall(q) \/ Work(q) \/ EndCall(q)
      PROVE  records' = records
  BY <1>2 DEF Spawn, Return, Cancel, StartCall, Work, EndCall, evaluation
<1>3. ASSUME NEW q \in Requests, Deny(q) \/ Forward(q) PROVE records' = records
  BY <1>3 DEF Deny, Forward, Finish, evaluation
<1>4. CASE UNCHANGED vars
  BY <1>4 DEF vars, evaluation
<1> QED
  BY <1>1, <1>2, <1>3, <1>4 DEF Next, Evaluate, Guest

\* A timeout interrupts the call it gives up on, if that call has begun, for any
\* number of calls that share the engine.
THEOREM TimeoutsInterrupt == Spec => TimeoutInterrupts
<1>1. ASSUME EvalInv, ClockInv, [Next]_vars, NEW r \in Requests,
             pc[r] = "await", task[r] = "running", TimedOut(r)'
      PROVE  epoch' >= deadline'[r]
  <2>1. Clean(r) /\ Shape
    BY <1>1, Zenon DEF EvalInv, Sound
  <2>2. ~TimedOut(r)
    BY <2>1 DEF Clean, TimedOut
  <2>3. records'[r] # records[r]
    BY <1>1, <2>2, Zenon DEF TimedOut
  <2>4. ~Receive(r)
    BY <1>1, Zenon DEF Receive
  <2>5. Timeout(r)
    BY <1>1, <2>1, <2>3, <2>4, RecordsGrow, Zenon
  <2>6. epoch' = epoch + 1 /\ deadline' = deadline
    BY <2>5, Zenon DEF Timeout, call
  <2> QED
    BY <1>1, <2>6 DEF ClockInv
<1>2. EvalInv /\ ClockInv /\ [Next]_vars =>
        [\A r \in Requests :
           pc[r] = "await" /\ task[r] = "running" /\ TimedOut(r)' => epoch' >= deadline'[r]]_vars
  BY <1>1, Zenon
<1> QED
  BY <1>2, EvalHolds, ClockHolds, PTL DEF Spec, TimeoutInterrupts

-----------------------------------------------------------------------------
(* The steps that an evaluation and its calls have left *)

\* Of the handler: two for each plugin still to be asked, and its place.
Places == {"next", "await", "allowed", "denied", "done", "dropped"}
PlaceLeft(at) == IF at = "next" THEN 2 ELSE IF at \in {"done", "dropped"} THEN 0 ELSE 1
EvaluationLeft(r) == 2 * (Len(Chain[r]) - Len(records[r])) + PlaceLeft(pc[r])

\* What is left, of n plugins when k have been asked and m are after a step.
LEMMA PairsLeft ==
  ASSUME NEW n \in Nat, NEW k \in Nat
  PROVE  /\ \A p \in 0 .. 2 : k <= n => 2 * (n - k) + p \in 0 .. 2 * n + 2
         /\ \A p \in Nat, o \in Nat : o < p => 2 * (n - k) + o < 2 * (n - k) + p
         /\ \A p \in Nat, o \in Nat : o <= p + 1 => 2 * (n - (k + 1)) + o < 2 * (n - k) + p
BY SMTT(30)

\* Of the blocking task of its latest call: to begin, to work and to end.
Tasks == {"none", "queued", "running", "ended"}
CallLeft(r) == IF task[r] = "queued" THEN Fuel + 2
               ELSE IF task[r] = "running" THEN fuel[r] + 1 ELSE 0

\* Between two calls there is no task of an earlier one.
Seated(r) ==
  /\ pc[r] \in Places /\ task[r] \in Tasks /\ fuel[r] \in 0 .. Fuel
  /\ pc[r] = "next" => task[r] = "none"

SeatInv ==
  /\ task = [r \in Requests |-> task[r]] /\ fuel = [r \in Requests |-> fuel[r]]
  /\ \A r \in Requests : Seated(r)

\* What a step of r is for r: one of the handler or one of the task.
Rest(r) == records'[r] = records[r] /\ task'[r] = task[r] /\ fuel'[r] = fuel[r]
HandlerMoves(r) ==
  \/ pc[r] = "next" /\ pc'[r] = "allowed" /\ Rest(r)
  \/ pc[r] = "await" /\ pc'[r] = "dropped" /\ Rest(r)
  \/ pc[r] \in {"allowed", "denied"} /\ pc'[r] = "done" /\ Rest(r)
  \/ /\ pc[r] = "next" /\ pc'[r] = "await" /\ task'[r] = "queued"
     /\ records'[r] = records[r] /\ fuel'[r] = fuel[r]
  \/ /\ pc[r] = "await" /\ pc'[r] \in {"next", "denied"} /\ Len(records'[r]) = Len(records[r]) + 1
     /\ task'[r] \in {task[r], "none"} /\ (pc'[r] = "next" => task'[r] = "none")
     /\ fuel'[r] = fuel[r]
TaskMoves(r) ==
  /\ pc'[r] = pc[r] /\ records'[r] = records[r]
  /\ \/ task[r] = "queued" /\ task'[r] = "running" /\ fuel'[r] = Fuel
     \/ task[r] = "running" /\ task'[r] = "running" /\ fuel[r] > 0 /\ fuel'[r] = fuel[r] - 1
     \/ task[r] = "running" /\ task'[r] = "ended" /\ fuel'[r] = fuel[r]
StaysPut(q) == pc'[q] = pc[q] /\ Rest(q)
StepOf(r) ==
  Evaluate(r) \/ Guest(r) \/ Cancel(r) \/ Deny(r) \/ Forward(r)

\* What Settle does to where the request is.
LEMMA SettleMoves ==
  ASSUME Shape, NEW r \in Requests, IsList(records[r]), NEW res, NEW timedOut,
         Settle(r, res, timedOut)
  PROVE  /\ pc'[r] = IF res.kind = "allow" THEN "next" ELSE "denied"
         /\ Len(records'[r]) = Len(records[r]) + 1
         /\ \A q \in Requests \ {r} : pc'[q] = pc[q] /\ records'[q] = records[q]
<1> DEFINE at == IF res.kind = "allow" THEN "next" ELSE "denied"
           x == RecordOf(res, timedOut)
<1>1. pc' = [pc EXCEPT ![r] = at] /\ records' = [records EXCEPT ![r] = Append(records[r], x)]
  BY Zenon DEF Settle, Goto
<1> HIDE DEF at, x
<1>2. /\ pc'[r] = at /\ records'[r] = Append(records[r], x)
      /\ \A q \in Requests \ {r} : pc'[q] = pc[q] /\ records'[q] = records[q]
  BY <1>1 DEF Shape
<1>3. Len(Append(records[r], x)) = Len(records[r]) + 1
  BY Appended
<1> QED
  BY <1>2, <1>3, Zenon DEF at

\* A step of one request is a step of its handler or of its task, and the other
\* requests stay where they are.
LEMMA StepMoves ==
  ASSUME EvalInv, SeatInv, NEW r \in Requests, StepOf(r)
  PROVE  (HandlerMoves(r) \/ TaskMoves(r)) /\ \A q \in Requests \ {r} : StaysPut(q)
<1>0. /\ Shape /\ IsList(records[r])
      /\ task = [q \in Requests |-> task[q]] /\ fuel = [q \in Requests |-> fuel[q]]
  BY Zenon DEF EvalInv, SeatInv, Sound
<1>1. ASSUME NEW at, pc' = [pc EXCEPT ![r] = at], UNCHANGED <<records, task, fuel>>
      PROVE  pc'[r] = at /\ Rest(r) /\ \A q \in Requests \ {r} : StaysPut(q)
  <2>1. pc'[r] = at /\ \A q \in Requests \ {r} : pc'[q] = pc[q]
    BY <1>0, <1>1, Zenon DEF Shape
  <2> QED
    BY <1>1, <2>1, Zenon DEF Rest, StaysPut
<1>2. CASE Spawn(r)
  <2>1. /\ pc[r] = "next" /\ pc' = [pc EXCEPT ![r] = "await"] /\ task' = [task EXCEPT ![r] = "queued"]
        /\ records' = records /\ fuel' = fuel
    BY <1>2, Zenon DEF Spawn, Goto, evaluation
  <2>2. /\ pc'[r] = "await" /\ task'[r] = "queued"
        /\ \A q \in Requests \ {r} : pc'[q] = pc[q] /\ task'[q] = task[q]
    BY <1>0, <2>1, Zenon DEF Shape
  <2> QED
    BY <2>1, <2>2, Zenon DEF HandlerMoves, StaysPut, Rest
<1>3. CASE Return(r)
  <2>1. pc[r] = "next" /\ pc' = [pc EXCEPT ![r] = "allowed"] /\ UNCHANGED <<records, task, fuel>>
    BY <1>3, Zenon DEF Return, Goto, evaluation, call
  <2> QED
    BY <1>1, <2>1, Zenon DEF HandlerMoves
<1>4. CASE Cancel(r)
  <2>1. pc[r] = "await" /\ pc' = [pc EXCEPT ![r] = "dropped"] /\ UNCHANGED <<records, task, fuel>>
    BY <1>4, Zenon DEF Cancel, Goto, evaluation, call
  <2> QED
    BY <1>1, <2>1, Zenon DEF HandlerMoves
<1>5. CASE Deny(r) \/ Forward(r)
  <2>1. /\ pc[r] \in {"allowed", "denied"} /\ pc' = [pc EXCEPT ![r] = "done"]
        /\ UNCHANGED <<records, task, fuel>>
    BY <1>5 DEF Deny, Forward, Finish, Goto, evaluation, call
  <2> QED
    BY <1>1, <2>1, Zenon DEF HandlerMoves
<1>6. CASE Receive(r)
  <2>1. /\ pc[r] = "await" /\ Settle(r, result[r], FALSE) /\ task' = [task EXCEPT ![r] = "none"]
        /\ fuel' = fuel
    BY <1>6, Zenon DEF Receive
  <2>2. task'[r] = "none" /\ \A q \in Requests \ {r} : task'[q] = task[q]
    BY <1>0, <2>1, Zenon
  <2>3. /\ pc'[r] \in {"next", "denied"} /\ Len(records'[r]) = Len(records[r]) + 1
        /\ \A q \in Requests \ {r} : pc'[q] = pc[q] /\ records'[q] = records[q]
    BY <1>0, <2>1, SettleMoves, Zenon
  <2> QED
    BY <2>1, <2>2, <2>3, Zenon DEF HandlerMoves, StaysPut, Rest
<1>7. CASE Timeout(r)
  <2>1. pc[r] = "await" /\ Settle(r, Error, TRUE) /\ task' = task /\ fuel' = fuel
    BY <1>7, Zenon DEF Timeout, call
  <2>2. Error.kind # "allow"
    BY DEF Error
  <2>3. /\ pc'[r] = "denied" /\ Len(records'[r]) = Len(records[r]) + 1
        /\ \A q \in Requests \ {r} : pc'[q] = pc[q] /\ records'[q] = records[q]
    BY <1>0, <2>1, <2>2, SettleMoves, Zenon
  <2>4. "denied" # "next"
    OBVIOUS
  <2> QED
    BY <2>1, <2>3, <2>4, Zenon DEF HandlerMoves, StaysPut, Rest
<1>8. CASE StartCall(r)
  <2>1. /\ task[r] = "queued" /\ task' = [task EXCEPT ![r] = "running"] /\ fuel' = [fuel EXCEPT ![r] = Fuel]
        /\ records' = records /\ pc' = pc
    BY <1>8, Zenon DEF StartCall, evaluation
  <2>2. /\ task'[r] = "running" /\ fuel'[r] = Fuel
        /\ \A q \in Requests \ {r} : task'[q] = task[q] /\ fuel'[q] = fuel[q]
    BY <1>0, <2>1, Zenon
  <2> QED
    BY <2>1, <2>2, Zenon DEF TaskMoves, StaysPut, Rest
<1>9. CASE Work(r)
  <2>1. /\ task[r] = "running" /\ fuel[r] > 0 /\ fuel' = [fuel EXCEPT ![r] = fuel[r] - 1]
        /\ records' = records /\ pc' = pc /\ task' = task
    BY <1>9, Zenon DEF Work, FuelAfter, evaluation
  <2>2. fuel'[r] = fuel[r] - 1 /\ \A q \in Requests \ {r} : fuel'[q] = fuel[q]
    BY <1>0, <2>1, Zenon
  <2> QED
    BY <2>1, <2>2, Zenon DEF TaskMoves, StaysPut, Rest
<1>10. CASE EndCall(r)
  <2>1. /\ task[r] = "running" /\ task' = [task EXCEPT ![r] = "ended"]
        /\ records' = records /\ pc' = pc /\ fuel' = fuel
    BY <1>10, Zenon DEF EndCall, evaluation
  <2>2. task'[r] = "ended" /\ \A q \in Requests \ {r} : task'[q] = task[q]
    BY <1>0, <2>1, Zenon
  <2> QED
    BY <2>1, <2>2, Zenon DEF TaskMoves, StaysPut, Rest
<1> QED
  BY <1>2, <1>3, <1>4, <1>5, <1>6, <1>7, <1>8, <1>9, <1>10, Zenon DEF StepOf, Evaluate, Guest

\* Every step keeps every request seated.
LEMMA SeatHolds == Spec => []SeatInv
<1>1. Init => SeatInv
  BY PolicyAssumption DEF Init, SeatInv, Seated, Places, Tasks
<1>2. ASSUME EvalInv, SeatInv, [Next]_vars PROVE SeatInv'
  <2>1. CASE UNCHANGED vars
    BY <1>2, <2>1, Zenon DEF vars, call, SeatInv, Seated
  <2>2. ASSUME NEW r \in Requests, StepOf(r) PROVE SeatInv'
    <3>1. (HandlerMoves(r) \/ TaskMoves(r)) /\ \A q \in Requests \ {r} : StaysPut(q)
      BY <1>2, <2>2, StepMoves, Zenon
    <3>2. \A q \in Requests : Seated(q)
      BY <1>2, Zenon DEF SeatInv
    <3>3. \A q \in Requests \ {r} : Seated(q)'
      BY <3>1, <3>2, Zenon DEF StaysPut, Rest, Seated
    <3>4. Seated(r)'
      <4>1. CASE HandlerMoves(r)
        BY <3>2, <4>1 DEF HandlerMoves, Rest, Seated, Places, Tasks
      <4>2. CASE TaskMoves(r)
        BY <3>2, <4>2, PolicyAssumption DEF TaskMoves, Seated, Places, Tasks
      <4> QED
        BY <3>1, <4>1, <4>2, Zenon
    <3>5. (task = [q \in Requests |-> task[q]] /\ fuel = [q \in Requests |-> fuel[q]])'
      <4>1. task = [q \in Requests |-> task[q]] /\ fuel = [q \in Requests |-> fuel[q]]
        BY <1>2, Zenon DEF SeatInv
      <4>2. /\ task' = task \/ \E x : task' = [task EXCEPT ![r] = x]
            /\ fuel' = fuel \/ \E x : fuel' = [fuel EXCEPT ![r] = x]
        <5>1. CASE Deny(r) \/ Forward(r)
          BY <5>1, Zenon DEF Deny, Forward, Finish, call
        <5>2. CASE Evaluate(r) \/ Guest(r) \/ Cancel(r)
          BY <5>2, Zenon DEF Evaluate, Guest, Cancel, Spawn, Return, Receive, Timeout, StartCall, Work,
                             EndCall, call
        <5> QED
          BY <2>2, <5>1, <5>2, Zenon DEF StepOf
      <4> QED
        BY <4>1, <4>2, Zenon
    <3> QED
      BY <3>3, <3>4, <3>5, Zenon DEF SeatInv
  <2> QED
    BY <1>2, <2>1, <2>2, Zenon DEF Next, StepOf
<1>3. EvalInv /\ SeatInv /\ [Next]_vars => SeatInv'
  BY <1>2
<1> QED
  BY <1>1, <1>3, EvalHolds, PTL DEF Spec

\* A step of a request takes its handler on, or leaves the handler where it is
\* and takes the task of its call on, and changes neither for another request.
\* So evaluate and the handler have at most 2n + 2 steps for a request, where n
\* is the length of its chain, and between two of them its guest has at most
\* Fuel + 2: no order of timeouts, late starts and cancellations lets a plugin
\* be asked twice, or a call that was given up on begin afresh.  With the
\* fairness of TimerSpec and PoolRuns this is why EvaluationEnds and CallsEnd hold.
EvaluationRunsDown ==
  /\ [](\A r \in Requests :
          EvaluationLeft(r) \in 0 .. 2 * Len(Chain[r]) + 2 /\ CallLeft(r) \in 0 .. Fuel + 2)
  /\ [][\E r \in Requests :
          /\ \/ EvaluationLeft(r)' < EvaluationLeft(r)
             \/ EvaluationLeft(r)' = EvaluationLeft(r) /\ CallLeft(r)' < CallLeft(r)
          /\ \A q \in Requests \ {r} :
               EvaluationLeft(q)' = EvaluationLeft(q) /\ CallLeft(q)' = CallLeft(q)]_vars
THEOREM EvaluationsRunDown == Spec => EvaluationRunsDown
<1>1. ASSUME EvalInv, SeatInv, NEW r \in Requests
      PROVE  /\ Len(records[r]) \in Nat /\ Len(Chain[r]) \in Nat /\ Len(records[r]) <= Len(Chain[r])
             /\ Seated(r) /\ Fuel \in Nat
  BY <1>1, PolicyAssumption DEF EvalInv, Sound, IsList, SeatInv
<1>2. EvalInv /\ SeatInv =>
        \A r \in Requests :
          EvaluationLeft(r) \in 0 .. 2 * Len(Chain[r]) + 2 /\ CallLeft(r) \in 0 .. Fuel + 2
  <2> SUFFICES ASSUME EvalInv, SeatInv, NEW r \in Requests
               PROVE  /\ EvaluationLeft(r) \in 0 .. 2 * Len(Chain[r]) + 2
                      /\ CallLeft(r) \in 0 .. Fuel + 2
    OBVIOUS
  <2>1. /\ Len(records[r]) \in Nat /\ Len(Chain[r]) \in Nat /\ Len(records[r]) <= Len(Chain[r])
        /\ Seated(r) /\ Fuel \in Nat
    BY <1>1
  <2>2. PlaceLeft(pc[r]) \in 0 .. 2
    BY DEF PlaceLeft
  <2>3. EvaluationLeft(r) \in 0 .. 2 * Len(Chain[r]) + 2
    BY <2>1, <2>2, PairsLeft, Zenon DEF EvaluationLeft
  <2>4. CallLeft(r) \in 0 .. Fuel + 2
    BY <2>1 DEF CallLeft, Seated
  <2> QED
    BY <2>3, <2>4
<1>3. ASSUME EvalInv, SeatInv, NEW r \in Requests, StepOf(r)
      PROVE  \E s \in Requests :
               /\ \/ EvaluationLeft(s)' < EvaluationLeft(s)
                  \/ EvaluationLeft(s)' = EvaluationLeft(s) /\ CallLeft(s)' < CallLeft(s)
               /\ \A q \in Requests \ {s} :
                    EvaluationLeft(q)' = EvaluationLeft(q) /\ CallLeft(q)' = CallLeft(q)
  <2>1. (HandlerMoves(r) \/ TaskMoves(r)) /\ \A q \in Requests \ {r} : StaysPut(q)
    BY <1>3, StepMoves, Zenon
  <2>2. /\ Len(records[r]) \in Nat /\ Len(Chain[r]) \in Nat
        /\ Seated(r) /\ Fuel \in Nat
    BY <1>1, <1>3
  <2>3. ASSUME HandlerMoves(r) PROVE EvaluationLeft(r)' < EvaluationLeft(r)
    <3>1. \/ Len(records'[r]) = Len(records[r]) /\ PlaceLeft(pc'[r]) < PlaceLeft(pc[r])
          \/ Len(records'[r]) = Len(records[r]) + 1 /\ PlaceLeft(pc'[r]) <= PlaceLeft(pc[r]) + 1
      BY <2>3 DEF HandlerMoves, Rest, PlaceLeft
    <3>2. PlaceLeft(pc[r]) \in Nat /\ PlaceLeft(pc'[r]) \in Nat
      BY DEF PlaceLeft
    <3>3. CASE Len(records'[r]) = Len(records[r]) /\ PlaceLeft(pc'[r]) < PlaceLeft(pc[r])
      BY <2>2, <3>2, <3>3, PairsLeft, Zenon DEF EvaluationLeft
    <3>4. CASE Len(records'[r]) = Len(records[r]) + 1 /\ PlaceLeft(pc'[r]) <= PlaceLeft(pc[r]) + 1
      BY <2>2, <3>2, <3>4, PairsLeft, Zenon DEF EvaluationLeft
    <3> QED
      BY <3>1, <3>3, <3>4, Zenon
  <2>4. ASSUME TaskMoves(r)
        PROVE  EvaluationLeft(r)' = EvaluationLeft(r) /\ CallLeft(r)' < CallLeft(r)
    <3>1. EvaluationLeft(r)' = EvaluationLeft(r)
      BY <2>4, Zenon DEF TaskMoves, EvaluationLeft
    <3>2. CallLeft(r)' < CallLeft(r)
      BY <2>2, <2>4 DEF TaskMoves, CallLeft, Seated
    <3> QED
      BY <3>1, <3>2
  <2>5. \A q \in Requests \ {r} :
          EvaluationLeft(q)' = EvaluationLeft(q) /\ CallLeft(q)' = CallLeft(q)
    BY <2>1, Zenon DEF StaysPut, Rest, EvaluationLeft, CallLeft
  <2>6. \/ EvaluationLeft(r)' < EvaluationLeft(r)
        \/ EvaluationLeft(r)' = EvaluationLeft(r) /\ CallLeft(r)' < CallLeft(r)
    BY <2>1, <2>3, <2>4, Zenon
  <2> QED
    BY <2>5, <2>6, Zenon
<1>4. EvalInv /\ SeatInv /\ [Next]_vars =>
        [\E r \in Requests :
           /\ \/ EvaluationLeft(r)' < EvaluationLeft(r)
              \/ EvaluationLeft(r)' = EvaluationLeft(r) /\ CallLeft(r)' < CallLeft(r)
           /\ \A q \in Requests \ {r} :
                EvaluationLeft(q)' = EvaluationLeft(q) /\ CallLeft(q)' = CallLeft(q)]_vars
  <2> SUFFICES ASSUME EvalInv, SeatInv, Next
               PROVE  \E r \in Requests :
                 /\ \/ EvaluationLeft(r)' < EvaluationLeft(r)
                    \/ EvaluationLeft(r)' = EvaluationLeft(r) /\ CallLeft(r)' < CallLeft(r)
                 /\ \A q \in Requests \ {r} :
                      EvaluationLeft(q)' = EvaluationLeft(q) /\ CallLeft(q)' = CallLeft(q)
    BY Zenon
  <2>1. PICK r \in Requests : StepOf(r)
    BY Zenon DEF Next, StepOf
  <2> QED
    BY <1>3, <2>1, Zenon
<1> QED
  BY <1>2, <1>4, EvalHolds, SeatHolds, PTL DEF Spec, EvaluationRunsDown

-----------------------------------------------------------------------------
(* Lists of headers *)

\* h is t with x appended.
Split(h, n, t, x) == Len(t) = n /\ h = Append(t, x)

\* A list that is not empty ends with an element.
LEMMA Ends ==
  ASSUME NEW X, NEW h \in Seq(X), NEW n \in Nat, Len(h) = n + 1
  PROVE  \E t \in Seq(X), x \in X : Split(h, n, t, x)
<1> DEFINE t == [i \in 1 .. n |-> h[i]]
           x == h[n + 1]
<1>1. x \in X /\ \A i \in 1 .. n : h[i] \in X
  OBVIOUS
<1>2. t \in Seq(X) /\ Len(t) = n /\ \A i \in 1 .. n : t[i] = h[i]
  BY <1>1
<1> HIDE DEF t
<1>3. h = Append(t, x)
  BY <1>1, <1>2
<1>4. Split(h, n, t, x)
  BY <1>2, <1>3, Zenon DEF Split
<1> HIDE DEF x
<1> QED
  BY <1>1, <1>2, <1>4, Zenon

\* What a list has after an element is appended.
LEMMA AppendedSet ==
  ASSUME NEW X, NEW t \in Seq(X), NEW x \in X
  PROVE  /\ Append(t, x) \in Seq(X) /\ Len(Append(t, x)) = Len(t) + 1 /\ Len(t) \in Nat
         /\ DOMAIN t = 1 .. Len(t) /\ DOMAIN Append(t, x) = 1 .. Len(t) + 1
         /\ \A i \in 1 .. Len(t) : Append(t, x)[i] = t[i]
         /\ Append(t, x)[Len(t) + 1] = x
         /\ Range(Append(t, x)) = Range(t) \cup {x}
<1> DEFINE h == Append(t, x)
<1>0. PICK L \in Nat : L = Len(t)
  OBVIOUS
<1>1. /\ h \in Seq(X) /\ Len(h) = L + 1 /\ DOMAIN t = 1 .. L /\ DOMAIN h = 1 .. L + 1
      /\ \A i \in 1 .. L : h[i] = t[i]
      /\ h[L + 1] = x
  BY <1>0
<1> HIDE DEF h
<1>2. 1 .. L + 1 = (1 .. L) \cup {L + 1}
  OBVIOUS
<1>3. Range(h) = {h[i] : i \in 1 .. L} \cup {h[L + 1]}
  BY <1>1, <1>2, Zenon DEF Range
<1>4. Range(t) = {h[i] : i \in 1 .. L}
  BY <1>1, Zenon DEF Range
<1>5. Range(h) = Range(t) \cup {x}
  BY <1>1, <1>3, <1>4, Zenon
<1> QED
  BY <1>0, <1>1, <1>5, Zenon DEF h

\* The recursion of Only: f[n] is what it keeps of the first n headers.
Kept(h, names, n) == IF h[n][1] \in names THEN <<h[n]>> ELSE <<>>
Filters(f, h, names) ==
  f[0] = <<>> /\ \A n \in 1 .. Len(h) : f[n] = f[n - 1] \o Kept(h, names, n)

\* Only is what its recursion gives after the last header.
LEMMA OnlyFilters ==
  ASSUME NEW X, NEW h \in Seq(X), NEW names
  PROVE  \E f : Filters(f, h, names) /\ Only(h, names) = f[Len(h)]
<1> DEFINE N == Len(h)
           Y == Seq(X)
           base == <<>>
           next(n, y) == y \o Kept(h, names, n)
           step == [n \in 1 .. N |-> [y \in Y |-> next(n, y)]]
           F(f) == f = [n \in 0 .. N |-> IF n = 0 THEN base ELSE next(n, f[n - 1])]
<1>1. N \in Nat /\ base \in Y
  OBVIOUS
<1>2. \A n \in 1 .. N, y \in Y : next(n, y) \in Y
  <2> SUFFICES ASSUME NEW n \in 1 .. N, NEW y \in Y PROVE next(n, y) \in Y
    OBVIOUS
  <2>1. h[n] \in X
    OBVIOUS
  <2>2. Kept(h, names, n) \in Y
    BY <2>1 DEF Kept
  <2> QED
    BY <2>2
<1>3. Only(h, names) = (CHOOSE f : F(f))[N]
  BY Zenon DEF Only, Kept
<1> HIDE DEF next, N, Y, base
<1>4. step \in [1 .. N -> [Y -> Y]] /\ \A n \in 1 .. N, y \in Y : step[n][y] = next(n, y)
  BY <1>2
<1> HIDE DEF step
<1>5. PICK g \in [0 .. N -> Y] : Follows(g, N, base, step)
  BY <1>1, <1>4, Recursion, Zenon
<1>6. ASSUME NEW n \in 0 .. N, n # 0 PROVE g[n] = next(n, g[n - 1])
  <2>1. n \in 1 .. N /\ n - 1 \in 0 .. N
    BY <1>1, <1>6
  <2>2. g[n - 1] \in Y
    BY <2>1
  <2> QED
    BY <1>4, <1>5, <2>1, <2>2 DEF Follows
<1>7. \A n \in 0 .. N : g[n] = IF n = 0 THEN base ELSE next(n, g[n - 1])
  BY <1>5, <1>6, Zenon DEF Follows
<1>8. g = [n \in 0 .. N |-> g[n]]
  OBVIOUS
<1>9. F(g)
  BY <1>7, <1>8, Zenon
<1> HIDE DEF F
<1>10. PICK f : F(f) /\ Only(h, names) = f[N]
  BY <1>3, <1>9, Zenon
<1>11. \A n \in 0 .. N : f[n] = IF n = 0 THEN base ELSE next(n, f[n - 1])
  BY <1>10, Zenon DEF F
<1>12. 0 \in 0 .. N /\ \A n \in 1 .. N : n \in 0 .. N /\ n # 0
  BY <1>1
<1>13. f[0] = base /\ \A n \in 1 .. N : f[n] = next(n, f[n - 1])
  BY <1>11, <1>12, Zenon
<1>14. Filters(f, h, names)
  BY <1>13 DEF Filters, base, next, N
<1> QED
  BY <1>10, <1>14, Zenon DEF N

\* The recursion determines the values.
LEMMA FiltersUnique ==
  ASSUME NEW X, NEW h \in Seq(X), NEW names, NEW f, NEW g, Filters(f, h, names), Filters(g, h, names)
  PROVE  f[Len(h)] = g[Len(h)]
<1> DEFINE T == {n \in Nat : n <= Len(h) => f[n] = g[n]}
<1>1. Len(h) \in Nat
  OBVIOUS
<1>2. 0 \in T
  BY DEF Filters
<1>3. ASSUME NEW n \in Nat, n \in T PROVE n + 1 \in T
  <2> SUFFICES ASSUME n + 1 <= Len(h) PROVE f[n + 1] = g[n + 1]
    OBVIOUS
  <2>1. n + 1 \in 1 .. Len(h) /\ (n + 1) - 1 = n /\ f[n] = g[n]
    BY <1>1, <1>3
  <2> QED
    BY <2>1, Zenon DEF Filters
<1>4. Len(h) \in T
  <2> HIDE DEF T
  <2> QED
    BY <1>1, <1>2, <1>3, Induction
<1> QED
  BY <1>1, <1>4

\* Only keeps an element that is appended if its name is one of the names.
LEMMA OnlyAppend ==
  ASSUME NEW X, NEW t \in Seq(X), NEW x \in X, NEW names
  PROVE  /\ Only(<<>>, names) = <<>>
         /\ Only(Append(t, x), names) =
              Only(t, names) \o IF x[1] \in names THEN <<x>> ELSE <<>>
<1>1. Only(<<>>, names) = <<>>
  <2>1. <<>> \in Seq(X) /\ Len(<<>>) = 0
    OBVIOUS
  <2>2. PICK f : Filters(f, <<>>, names) /\ Only(<<>>, names) = f[Len(<<>>)]
    BY <2>1, OnlyFilters, Zenon
  <2> QED
    BY <2>1, <2>2, Zenon DEF Filters
<1> DEFINE h == Append(t, x)
<1>2. PICK L \in Nat : L = Len(t)
  OBVIOUS
<1>3. h \in Seq(X) /\ Len(h) = L + 1 /\ h[L + 1] = x /\ \A n \in 1 .. L : h[n] = t[n]
  BY <1>2
<1> HIDE DEF h
<1>4. PICK f : Filters(f, h, names) /\ Only(h, names) = f[L + 1]
  BY <1>3, OnlyFilters
<1>5. PICK g : Filters(g, t, names) /\ Only(t, names) = g[L]
  BY <1>2, OnlyFilters
<1>6. Filters(f, t, names)
  <2>1. \A n \in 1 .. L : n \in 1 .. L + 1 /\ Kept(h, names, n) = Kept(t, names, n)
    BY <1>3 DEF Kept
  <2> QED
    BY <1>2, <1>3, <1>4, <2>1, Zenon DEF Filters
<1>7. f[L] = g[L]
  BY <1>2, <1>5, <1>6, FiltersUnique
<1>8. f[L + 1] = f[L] \o Kept(h, names, L + 1)
  <2>1. L + 1 \in 1 .. L + 1 /\ (L + 1) - 1 = L
    OBVIOUS
  <2> QED
    BY <1>3, <1>4, <2>1, Zenon DEF Filters
<1>9. Kept(h, names, L + 1) = IF x[1] \in names THEN <<x>> ELSE <<>>
  BY <1>3 DEF Kept
<1>10. Only(h, names) = Only(t, names) \o IF x[1] \in names THEN <<x>> ELSE <<>>
  BY <1>4, <1>5, <1>7, <1>8, <1>9, Zenon
<1> QED
  BY <1>1, <1>10 DEF h

\* What Only keeps are the headers with one of the names.
LEMMA OnlyMembers ==
  ASSUME NEW X, NEW names
  PROVE  \A h \in Seq(X) : /\ Only(h, names) \in Seq(X)
                           /\ Range(Only(h, names)) = {x \in Range(h) : x[1] \in names}
<1> DEFINE Good(h) == /\ Only(h, names) \in Seq(X)
                      /\ Range(Only(h, names)) = {x \in Range(h) : x[1] \in names}
           T == {n \in Nat : \A h \in Seq(X) : Len(h) = n => Good(h)}
<1>1. 0 \in T
  <2> SUFFICES ASSUME NEW h \in Seq(X), Len(h) = 0 PROVE Good(h)
    OBVIOUS
  <2>1. h = <<>> /\ Range(<<>>) = {}
    BY DEF Range
  <2>2. Only(<<>>, names) = <<>>
    <3>1. <<>> \in Seq({0})
      OBVIOUS
    <3> QED
      BY <3>1, OnlyAppend, Zenon
  <2> QED
    BY <2>1, <2>2, Zenon
<1>2. ASSUME NEW n \in Nat, n \in T PROVE n + 1 \in T
  <2> SUFFICES ASSUME NEW h \in Seq(X), Len(h) = n + 1 PROVE Good(h)
    OBVIOUS
  <2>1. PICK t \in Seq(X), x \in X : Len(t) = n /\ h = Append(t, x)
    <3>1. PICK t \in Seq(X), x \in X : Split(h, n, t, x)
      BY Ends, Zenon
    <3> QED
      BY <3>1, Zenon DEF Split
  <2>2. Good(t)
    BY <1>2, <2>1, Zenon
  <2>3. Only(h, names) = Only(t, names) \o IF x[1] \in names THEN <<x>> ELSE <<>>
    BY <2>1, OnlyAppend
  <2>4. Range(h) = Range(t) \cup {x}
    BY <2>1, AppendedSet
  <2> DEFINE o == Only(t, names)
  <2>5. o \in Seq(X) /\ Range(o) = {y \in Range(t) : y[1] \in names}
    BY <2>2, Zenon
  <2> HIDE DEF o
  <2>6. CASE x[1] \in names
    <3>1. Only(h, names) = Append(o, x)
      BY <2>3, <2>5, <2>6 DEF o
    <3>2. Append(o, x) \in Seq(X) /\ Range(Append(o, x)) = Range(o) \cup {x}
      BY <2>5, AppendedSet
    <3> QED
      BY <2>4, <2>5, <2>6, <3>1, <3>2
  <2>7. CASE x[1] \notin names
    <3>1. Only(h, names) = o \o <<>>
      BY <2>3, <2>7, Zenon DEF o
    <3>2. Only(h, names) = o
      BY <2>5, <3>1
    <3> QED
      BY <2>4, <2>5, <2>7, <3>2, Zenon
  <2> QED
    BY <2>6, <2>7
<1>3. \A n \in Nat : n \in T
  <2> HIDE DEF T
  <2> QED
    BY <1>1, <1>2, Induction, Zenon
<1>4. \A h \in Seq(X) : Len(h) \in Nat
  OBVIOUS
<1> QED
  BY <1>3, <1>4

\* The two cases of OnlyAppend.
LEMMA OnlyEmpty == ASSUME NEW names PROVE Only(<<>>, names) = <<>>
<1>1. <<>> \in Seq({0}) /\ 0 \in {0}
  OBVIOUS
<1> QED
  BY <1>1, OnlyAppend, Zenon

\* A header more is kept or left out by its name.
LEMMA OnlyMore ==
  ASSUME NEW X, NEW t \in Seq(X), NEW x \in X, NEW names
  PROVE  /\ x[1] \in names => Only(Append(t, x), names) = Append(Only(t, names), x)
         /\ x[1] \notin names => Only(Append(t, x), names) = Only(t, names)
<1> DEFINE o == Only(t, names)
<1>1. o \in Seq(X)
  BY OnlyMembers
<1>2. Only(Append(t, x), names) = o \o IF x[1] \in names THEN <<x>> ELSE <<>>
  BY OnlyAppend
<1> HIDE DEF o
<1>3. o \o <<x>> = Append(o, x) /\ o \o <<>> = o
  BY <1>1
<1>4. CASE x[1] \in names
  BY <1>2, <1>3, <1>4, Zenon DEF o
<1>5. CASE x[1] \notin names
  BY <1>2, <1>3, <1>5, Zenon DEF o
<1> QED
  BY <1>4, <1>5

\* Only the names that occur matter.
LEMMA OnlyAgree ==
  ASSUME NEW X, NEW M, NEW N
  PROVE  \A h \in Seq(X) : (\A x \in Range(h) : x[1] \in M <=> x[1] \in N) => Only(h, M) = Only(h, N)
<1> DEFINE Agree(h) == \A x \in Range(h) : x[1] \in M <=> x[1] \in N
           Good(h) == Agree(h) => Only(h, M) = Only(h, N)
           T == {n \in Nat : \A h \in Seq(X) : Len(h) = n => Good(h)}
<1>1. 0 \in T
  <2> SUFFICES ASSUME NEW h \in Seq(X), Len(h) = 0 PROVE Good(h)
    OBVIOUS
  <2>1. h = <<>>
    OBVIOUS
  <2> QED
    BY <2>1, OnlyEmpty, Zenon
<1>2. ASSUME NEW n \in Nat, n \in T PROVE n + 1 \in T
  <2> HIDE DEF Good
  <2> SUFFICES ASSUME NEW h \in Seq(X), Len(h) = n + 1 PROVE Good(h)
    OBVIOUS
  <2>1. PICK t \in Seq(X), x \in X : Len(t) = n /\ h = Append(t, x)
    <3>1. PICK t \in Seq(X), x \in X : Split(h, n, t, x)
      BY Ends
    <3> QED
      BY <3>1 DEF Split
  <2> SUFFICES ASSUME Agree(h) PROVE Only(h, M) = Only(h, N)
    BY Zenon DEF Good
  <2>2. Range(h) = Range(t) \cup {x}
    BY <2>1, AppendedSet
  <2>3. Agree(t) /\ (x[1] \in M <=> x[1] \in N)
    BY <2>2, Zenon
  <2> HIDE DEF Agree
  <2>4. Only(t, M) = Only(t, N)
    BY <1>2, <2>1, <2>3, Zenon DEF Good
  <2>5. CASE x[1] \in M
    <3>1. Only(h, M) = Append(Only(t, M), x) /\ Only(h, N) = Append(Only(t, N), x)
      BY <2>1, <2>3, <2>5, OnlyMore, Zenon
    <3> QED
      BY <2>4, <3>1, Zenon
  <2>6. CASE x[1] \notin M
    <3>1. Only(h, M) = Only(t, M) /\ Only(h, N) = Only(t, N)
      BY <2>1, <2>3, <2>6, OnlyMore, Zenon
    <3> QED
      BY <2>4, <3>1, Zenon
  <2> QED
    BY <2>5, <2>6, Zenon
<1>3. \A n \in Nat : n \in T
  <2> HIDE DEF T
  <2> QED
    BY <1>1, <1>2, Induction
<1>4. \A h \in Seq(X) : Len(h) \in Nat
  OBVIOUS
<1> QED
  BY <1>3, <1>4, Zenon

\* Keeping twice.
LEMMA OnlyOnly ==
  ASSUME NEW X, NEW M, NEW N
  PROVE  \A h \in Seq(X) : Only(Only(h, M), N) = Only(h, M \cap N)
<1> DEFINE Good(h) == Only(Only(h, M), N) = Only(h, M \cap N)
           T == {n \in Nat : \A h \in Seq(X) : Len(h) = n => Good(h)}
<1>1. 0 \in T
  <2> SUFFICES ASSUME NEW h \in Seq(X), Len(h) = 0 PROVE Good(h)
    BY Zenon
  <2>1. h = <<>>
    OBVIOUS
  <2> QED
    BY <2>1, OnlyEmpty
<1>2. ASSUME NEW n \in Nat, n \in T PROVE n + 1 \in T
  <2> HIDE DEF Good
  <2> SUFFICES ASSUME NEW h \in Seq(X), Len(h) = n + 1 PROVE Good(h)
    OBVIOUS
  <2>1. PICK t \in Seq(X), x \in X : Len(t) = n /\ h = Append(t, x)
    <3>1. PICK t \in Seq(X), x \in X : Split(h, n, t, x)
      BY Ends
    <3> QED
      BY <3>1 DEF Split
  <2> DEFINE o == Only(t, M)
  <2>2. Only(o, N) = Only(t, M \cap N) /\ o \in Seq(X)
    BY <1>2, <2>1, OnlyMembers, Zenon DEF Good
  <2> HIDE DEF o
  <2>3. CASE x[1] \notin M
    <3>1. Only(h, M) = o /\ Only(h, M \cap N) = Only(t, M \cap N)
      BY <2>1, <2>3, OnlyMore DEF o
    <3> QED
      BY <2>2, <3>1 DEF Good
  <2>4. CASE x[1] \in M
    <3>1. Only(h, M) = Append(o, x)
      BY <2>1, <2>4, OnlyMore DEF o
    <3>2. CASE x[1] \in N
      <4>1. Only(h, M \cap N) = Append(Only(t, M \cap N), x)
        BY <2>1, <2>4, <3>2, OnlyMore
      <4>2. Only(Append(o, x), N) = Append(Only(o, N), x)
        BY <2>1, <2>2, <3>2, OnlyMore, Zenon
      <4> QED
        BY <2>2, <3>1, <4>1, <4>2, Zenon DEF Good
    <3>3. CASE x[1] \notin N
      <4>1. Only(h, M \cap N) = Only(t, M \cap N)
        BY <2>1, <3>3, OnlyMore
      <4>2. Only(Append(o, x), N) = Only(o, N)
        BY <2>2, <3>3, OnlyMore
      <4> QED
        BY <2>2, <3>1, <4>1, <4>2 DEF Good
    <3> QED
      BY <3>2, <3>3, Zenon
  <2> QED
    BY <2>3, <2>4
<1>3. \A n \in Nat : n \in T
  <2> HIDE DEF T
  <2> QED
    BY <1>1, <1>2, Induction
<1>4. \A h \in Seq(X) : Len(h) \in Nat
  OBVIOUS
<1> QED
  BY <1>3, <1>4, Zenon

\* Without leaves out the headers with the names, and no other.
LEMMA WithoutMembers ==
  ASSUME NEW X, NEW h \in Seq(X), NEW names
  PROVE  /\ Without(h, names) \in Seq(X)
         /\ Range(Without(h, names)) = {x \in Range(h) : x[1] \notin names}
<1>1. \A x \in Range(h) : x[1] \in NamesOf(h)
  BY DEF NamesOf
<1> QED
  BY <1>1, OnlyMembers DEF Without

\* There is a header with a name when the name occurs.
LEMMA NamedMembers ==
  ASSUME NEW X, NEW h \in Seq(X), NEW name
  PROVE  /\ Named(h, name) \in Seq(X)
         /\ Range(Named(h, name)) = {x \in Range(h) : x[1] = name}
         /\ Named(h, name) = <<>> <=> name \notin NamesOf(h)
<1> DEFINE o == Named(h, name)
<1>1. o \in Seq(X) /\ Range(o) = {x \in Range(h) : x[1] = name}
  BY OnlyMembers DEF Named
<1> HIDE DEF o
<1>2. o = <<>> <=> Range(o) = {}
  BY <1>1 DEF Range
<1>3. name \in NamesOf(h) <=> \E x \in Range(h) : x[1] = name
  BY Zenon DEF NamesOf
<1>4. o = <<>> <=> name \notin NamesOf(h)
  BY <1>1, <1>2, <1>3, Zenon
<1> QED
  BY <1>1, <1>4, Zenon DEF o

\* What is left out is not found, and the rest is found as before.
LEMMA NamedWithout ==
  ASSUME NEW X, NEW h \in Seq(X), NEW names, NEW name
  PROVE  /\ name \in names => Named(Without(h, names), name) = <<>>
         /\ name \notin names => Named(Without(h, names), name) = Named(h, name)
<1>1. CASE name \in names
  <2>1. Without(h, names) \in Seq(X) /\ name \notin NamesOf(Without(h, names))
    BY <1>1, WithoutMembers DEF NamesOf
  <2> QED
    BY <1>1, <2>1, NamedMembers, Zenon
<1>2. CASE name \notin names
  <2> DEFINE N == NamesOf(h) \ names
  <2>1. \A x \in Range(h) : x[1] \in N \cap {name} <=> x[1] \in {name}
    BY <1>2, Zenon DEF NamesOf
  <2>2. Only(h, N \cap {name}) = Only(h, {name})
    BY <2>1, OnlyAgree
  <2>3. Only(Only(h, N), {name}) = Only(h, N \cap {name})
    BY OnlyOnly
  <2> QED
    BY <1>2, <2>2, <2>3, Zenon DEF Named, Without
<1> QED
  BY <1>1, <1>2, Zenon

\* HeaderMap::insert replaces all headers of the name.
LEMMA NamedInsert ==
  ASSUME NEW X, NEW h \in Seq(X), NEW x \in X, NEW name
  PROVE  /\ Insert(h, x) \in Seq(X)
         /\ x[1] = name => Named(Insert(h, x), name) = <<x>>
         /\ x[1] # name => Named(Insert(h, x), name) = Named(h, name)
<1> DEFINE t == Without(h, {x[1]})
<1>1. t \in Seq(X)
  BY WithoutMembers
<1>2. /\ x[1] = name => Named(t, name) = <<>>
      /\ x[1] # name => Named(t, name) = Named(h, name)
  BY NamedWithout
<1>3. Insert(h, x) = Append(t, x)
  BY DEF Insert
<1> HIDE DEF t
<1>4. /\ x[1] = name => Named(Append(t, x), name) = Append(Named(t, name), x)
      /\ x[1] # name => Named(Append(t, x), name) = Named(t, name)
  BY <1>1, OnlyMore DEF Named
<1>5. Append(<<>>, x) = <<x>> /\ Append(t, x) \in Seq(X)
  BY <1>1
<1> QED
  BY <1>2, <1>3, <1>4, <1>5, Zenon

\* The recursion of InsertAll: f[n] is what the first n insertions give.
Inserts(f, h, list) == f[0] = h /\ \A n \in 1 .. Len(list) : f[n] = Insert(f[n - 1], list[n])

\* InsertAll is what its recursion gives after the last insertion.
LEMMA InsertAllInserts ==
  ASSUME NEW X, NEW h \in Seq(X), NEW list \in Seq(X)
  PROVE  \E f : Inserts(f, h, list) /\ InsertAll(h, list) = f[Len(list)]
<1> DEFINE N == Len(list)
           Y == Seq(X)
           next(n, y) == Insert(y, list[n])
           step == [n \in 1 .. N |-> [y \in Y |-> next(n, y)]]
           F(f) == f = [n \in 0 .. N |-> IF n = 0 THEN h ELSE next(n, f[n - 1])]
<1>1. N \in Nat /\ h \in Y /\ \A n \in 1 .. N : list[n] \in X
  OBVIOUS
<1>2. \A n \in 1 .. N, y \in Y : next(n, y) \in Y
  BY <1>1, NamedInsert, Zenon
<1>3. InsertAll(h, list) = (CHOOSE f : F(f))[N]
  BY Zenon DEF InsertAll
<1> HIDE DEF next, N, Y
<1>4. step \in [1 .. N -> [Y -> Y]] /\ \A n \in 1 .. N, y \in Y : step[n][y] = next(n, y)
  BY <1>2
<1> HIDE DEF step
<1>5. PICK g \in [0 .. N -> Y] : Follows(g, N, h, step)
  BY <1>1, <1>4, Recursion, Zenon
<1>6. ASSUME NEW n \in 0 .. N, n # 0 PROVE g[n] = next(n, g[n - 1])
  <2>1. n \in 1 .. N /\ n - 1 \in 0 .. N
    BY <1>1, <1>6
  <2>2. g[n - 1] \in Y
    BY <2>1
  <2> QED
    BY <1>4, <1>5, <2>1, <2>2 DEF Follows
<1>7. \A n \in 0 .. N : g[n] = IF n = 0 THEN h ELSE next(n, g[n - 1])
  BY <1>5, <1>6, Zenon DEF Follows
<1>8. g = [n \in 0 .. N |-> g[n]]
  OBVIOUS
<1>9. F(g)
  BY <1>7, <1>8, Zenon
<1> HIDE DEF F
<1>10. PICK f : F(f) /\ InsertAll(h, list) = f[N]
  BY <1>3, <1>9, Zenon
<1>11. \A n \in 0 .. N : f[n] = IF n = 0 THEN h ELSE next(n, f[n - 1])
  BY <1>10, Zenon DEF F
<1>12. 0 \in 0 .. N /\ \A n \in 1 .. N : n \in 0 .. N /\ n # 0
  BY <1>1
<1>13. f[0] = h /\ \A n \in 1 .. N : f[n] = next(n, f[n - 1])
  BY <1>11, <1>12, Zenon
<1>14. Inserts(f, h, list)
  BY <1>13, Zenon DEF Inserts, next, N
<1> QED
  BY <1>10, <1>14, Zenon DEF N

\* The recursion has one result.
LEMMA InsertsUnique ==
  ASSUME NEW X, NEW h, NEW list \in Seq(X), NEW f, NEW g, Inserts(f, h, list), Inserts(g, h, list)
  PROVE  f[Len(list)] = g[Len(list)]
<1> DEFINE T == {n \in Nat : n <= Len(list) => f[n] = g[n]}
<1>1. Len(list) \in Nat
  OBVIOUS
<1>2. 0 \in T
  BY DEF Inserts
<1>3. ASSUME NEW n \in Nat, n \in T PROVE n + 1 \in T
  <2> SUFFICES ASSUME n + 1 <= Len(list) PROVE f[n + 1] = g[n + 1]
    OBVIOUS
  <2>1. n + 1 \in 1 .. Len(list) /\ (n + 1) - 1 = n /\ f[n] = g[n]
    BY <1>1, <1>3
  <2> QED
    BY <2>1, Zenon DEF Inserts
<1>4. Len(list) \in T
  <2> HIDE DEF T
  <2> QED
    BY <1>1, <1>2, <1>3, Induction, Zenon
<1> QED
  BY <1>1, <1>4

\* InsertAll inserts one header after the other.
LEMMA InsertAllMore ==
  ASSUME NEW X, NEW h \in Seq(X), NEW t \in Seq(X), NEW x \in X
  PROVE  /\ InsertAll(h, <<>>) = h
         /\ InsertAll(h, Append(t, x)) = Insert(InsertAll(h, t), x)
<1>1. InsertAll(h, <<>>) = h
  <2>1. <<>> \in Seq(X) /\ Len(<<>>) = 0
    OBVIOUS
  <2>2. PICK f : Inserts(f, h, <<>>) /\ InsertAll(h, <<>>) = f[Len(<<>>)]
    BY <2>1, InsertAllInserts, Zenon
  <2> QED
    BY <2>1, <2>2, Zenon DEF Inserts
<1> DEFINE list == Append(t, x)
<1>2. PICK L \in Nat : L = Len(t)
  OBVIOUS
<1>3. list \in Seq(X) /\ Len(list) = L + 1 /\ list[L + 1] = x /\ \A n \in 1 .. L : list[n] = t[n]
  BY <1>2
<1> HIDE DEF list
<1>4. PICK f : Inserts(f, h, list) /\ InsertAll(h, list) = f[L + 1]
  BY <1>3, InsertAllInserts, Zenon
<1>5. PICK g : Inserts(g, h, t) /\ InsertAll(h, t) = g[L]
  BY <1>2, InsertAllInserts, Zenon
<1>6. Inserts(f, h, t)
  <2>1. \A n \in 1 .. L : n \in 1 .. L + 1
    OBVIOUS
  <2> QED
    BY <1>2, <1>3, <1>4, <2>1, Zenon DEF Inserts
<1>7. f[L] = g[L]
  BY <1>2, <1>5, <1>6, InsertsUnique, Zenon
<1>8. f[L + 1] = Insert(f[L], x)
  <2>1. L + 1 \in 1 .. L + 1 /\ (L + 1) - 1 = L
    OBVIOUS
  <2> QED
    BY <1>3, <1>4, <2>1, Zenon DEF Inserts
<1>9. InsertAll(h, list) = Insert(InsertAll(h, t), x)
  BY <1>4, <1>5, <1>7, <1>8, Zenon
<1> QED
  BY <1>1, <1>9, Zenon DEF list

LastOf(s) == s[Len(s)]

\* After InsertAll a name has the last header of the list with that name, or what
\* it had before.
LEMMA NamedInsertAll ==
  ASSUME NEW X, NEW h \in Seq(X), NEW name
  PROVE  \A list \in Seq(X) :
           /\ InsertAll(h, list) \in Seq(X)
           /\ Named(list, name) = <<>> => Named(InsertAll(h, list), name) = Named(h, name)
           /\ Named(list, name) # <<>> =>
                Named(InsertAll(h, list), name) = <<LastOf(Named(list, name))>>
<1> DEFINE Good(list) ==
             /\ InsertAll(h, list) \in Seq(X)
             /\ Named(list, name) = <<>> => Named(InsertAll(h, list), name) = Named(h, name)
             /\ Named(list, name) # <<>> =>
                  Named(InsertAll(h, list), name) = <<LastOf(Named(list, name))>>
           T == {n \in Nat : \A list \in Seq(X) : Len(list) = n => Good(list)}
<1>1. 0 \in T
  <2> SUFFICES ASSUME NEW list \in Seq(X), Len(list) = 0 PROVE Good(list)
    OBVIOUS
  <2>1. list = <<>>
    OBVIOUS
  <2>2. InsertAll(h, <<>>) = h
    <3>1. h \in Seq(X \cup {0}) /\ <<>> \in Seq(X \cup {0}) /\ 0 \in X \cup {0}
      OBVIOUS
    <3> QED
      BY <3>1, InsertAllMore, Zenon
  <2>3. Named(<<>>, name) = <<>>
    BY OnlyEmpty, Zenon DEF Named
  <2> QED
    BY <2>1, <2>2, <2>3, Zenon
<1>2. ASSUME NEW n \in Nat, n \in T PROVE n + 1 \in T
  <2> HIDE DEF Good
  <2> SUFFICES ASSUME NEW list \in Seq(X), Len(list) = n + 1 PROVE Good(list)
    OBVIOUS
  <2>1. PICK t \in Seq(X), x \in X : Len(t) = n /\ list = Append(t, x)
    <3>1. PICK t \in Seq(X), x \in X : Split(list, n, t, x)
      BY Ends, Zenon
    <3> QED
      BY <3>1, Zenon DEF Split
  <2> DEFINE k == InsertAll(h, t)
             o == Named(t, name)
  <2>2. /\ k \in Seq(X)
        /\ o = <<>> => Named(k, name) = Named(h, name)
        /\ o # <<>> => Named(k, name) = <<LastOf(o)>>
    BY <1>2, <2>1, Zenon DEF Good
  <2>3. InsertAll(h, list) = Insert(k, x)
    BY <2>1, InsertAllMore
  <2>4. o \in Seq(X)
    BY NamedMembers, Zenon
  <2>5. /\ x[1] = name => Named(list, name) = Append(o, x)
        /\ x[1] # name => Named(list, name) = o
    BY <2>1, OnlyMore, Zenon DEF Named
  <2> HIDE DEF k, o
  <2>6. /\ Insert(k, x) \in Seq(X)
        /\ x[1] = name => Named(Insert(k, x), name) = <<x>>
        /\ x[1] # name => Named(Insert(k, x), name) = Named(k, name)
    BY <2>2, NamedInsert
  <2>7. Append(o, x) # <<>> /\ LastOf(Append(o, x)) = x
    BY <2>4 DEF LastOf
  <2>8. CASE x[1] = name
    BY <2>3, <2>5, <2>6, <2>7, <2>8, Zenon DEF Good
  <2>9. CASE x[1] # name
    BY <2>2, <2>3, <2>5, <2>6, <2>9 DEF Good
  <2> QED
    BY <2>8, <2>9, Zenon
<1>3. \A n \in Nat : n \in T
  <2> HIDE DEF T
  <2> QED
    BY <1>1, <1>2, Induction, Zenon
<1>4. \A list \in Seq(X) : Len(list) \in Nat
  OBVIOUS
<1> QED
  BY <1>3, <1>4, Zenon

\* The index of the last header with a name.
IsLastNamed(list, name, i) ==
  /\ i \in DOMAIN list /\ list[i][1] = name
  /\ \A j \in DOMAIN list : list[j][1] = name => j <= i

\* The last of the headers with a name is the one with the greatest index.
LEMMA LastNamed ==
  ASSUME NEW X, NEW name
  PROVE  \A list \in Seq(X) : name \in NamesOf(list) =>
           \E i \in DOMAIN list : IsLastNamed(list, name, i) /\ LastOf(Named(list, name)) = list[i]
<1> DEFINE Good(list) == name \in NamesOf(list) =>
             \E i \in DOMAIN list : IsLastNamed(list, name, i) /\ LastOf(Named(list, name)) = list[i]
           T == {n \in Nat : \A list \in Seq(X) : Len(list) = n => Good(list)}
<1>1. 0 \in T
  <2> SUFFICES ASSUME NEW list \in Seq(X), Len(list) = 0 PROVE Good(list)
    BY Zenon
  <2>1. NamesOf(list) = {}
    BY DEF NamesOf, Range
  <2> QED
    BY <2>1, Zenon
<1>2. ASSUME NEW n \in Nat, n \in T PROVE n + 1 \in T
  <2> HIDE DEF Good
  <2> SUFFICES ASSUME NEW list \in Seq(X), Len(list) = n + 1 PROVE Good(list)
    OBVIOUS
  <2>1. PICK t \in Seq(X), x \in X : Len(t) = n /\ list = Append(t, x)
    <3>1. PICK t \in Seq(X), x \in X : Split(list, n, t, x)
      BY Ends
    <3> QED
      BY <3>1 DEF Split
  <2>2. Good(t)
    BY <1>2, <2>1, Zenon
  <2> DEFINE o == Named(t, name)
  <2>3. o \in Seq(X)
    BY NamedMembers, Zenon
  <2>4. /\ x[1] = name => Named(list, name) = Append(o, x)
        /\ x[1] # name => Named(list, name) = o
    BY <2>1, OnlyMore, Zenon DEF Named
  <2>5. /\ DOMAIN t = 1 .. n /\ DOMAIN list = 1 .. n + 1
        /\ \A i \in 1 .. n : list[i] = t[i]
        /\ list[n + 1] = x
        /\ Range(list) = Range(t) \cup {x}
    BY <2>1, AppendedSet
  <2> HIDE DEF o
  <2>6. CASE x[1] = name
    <3>1. LastOf(Append(o, x)) = x
      BY <2>3 DEF LastOf
    <3>2. IsLastNamed(list, name, n + 1) /\ n + 1 \in DOMAIN list
      BY <2>5, <2>6 DEF IsLastNamed
    <3>3. LastOf(Named(list, name)) = list[n + 1]
      BY <2>4, <2>5, <2>6, <3>1, Zenon
    <3> QED
      BY <3>2, <3>3, Zenon DEF Good
  <2>7. CASE x[1] # name
    <3> SUFFICES ASSUME name \in NamesOf(list)
                 PROVE  \E i \in DOMAIN list :
                          IsLastNamed(list, name, i) /\ LastOf(Named(list, name)) = list[i]
      BY Zenon DEF Good
    <3>1. name \in NamesOf(t)
      BY <2>5, <2>7, Zenon DEF NamesOf
    <3>2. PICK i \in DOMAIN t : IsLastNamed(t, name, i) /\ LastOf(o) = t[i]
      BY <2>2, <3>1, Zenon DEF Good, o
    <3>3. i \in DOMAIN list /\ list[i] = t[i]
      BY <2>5
    <3>4. \A j \in DOMAIN list : list[j][1] = name => j \in DOMAIN t /\ t[j][1] = name
      <4> SUFFICES ASSUME NEW j \in 1 .. n + 1, list[j][1] = name PROVE j \in 1 .. n /\ t[j][1] = name
        BY <2>5, Zenon
      <4>1. j # n + 1
        BY <2>5, <2>7, Zenon
      <4>2. j \in 1 .. n
        BY <4>1
      <4> QED
        BY <2>5, <4>2, Zenon
    <3>5. IsLastNamed(list, name, i)
      BY <3>2, <3>3, <3>4, Zenon DEF IsLastNamed
    <3>6. LastOf(Named(list, name)) = list[i]
      BY <2>4, <2>7, <3>2, <3>3, Zenon
    <3> QED
      BY <3>3, <3>5, <3>6
  <2> QED
    BY <2>6, <2>7, Zenon
<1>3. \A n \in Nat : n \in T
  <2> HIDE DEF T
  <2> QED
    BY <1>1, <1>2, Induction
<1>4. \A list \in Seq(X) : Len(list) \in Nat
  OBVIOUS
<1> QED
  BY <1>3, <1>4, Zenon

-----------------------------------------------------------------------------
(* What is shown to plugins and what is stored *)

\* A list of naturals is bounded.
LEMMA Bounded ==
  ASSUME NEW N \in Nat, NEW f \in [1 .. N -> Nat]
  PROVE  \E b \in Nat : \A i \in 1 .. N : f[i] <= b
<1> DEFINE T == {n \in Nat : n <= N => \E b \in Nat : \A i \in 1 .. n : f[i] <= b}
<1>1. 0 \in T
  <2>1. \A i \in 1 .. 0 : f[i] <= 0
    OBVIOUS
  <2> QED
    BY <2>1, Zenon
<1>2. ASSUME NEW n \in Nat, n \in T PROVE n + 1 \in T
  <2> SUFFICES ASSUME n + 1 <= N PROVE \E b \in Nat : \A i \in 1 .. n + 1 : f[i] <= b
    OBVIOUS
  <2>1. PICK b \in Nat : \A i \in 1 .. n : f[i] <= b
    BY <1>2
  <2>2. f[n + 1] \in Nat /\ \A i \in 1 .. n : f[i] \in Nat
    OBVIOUS
  <2>3. \A i \in 1 .. n + 1 : i \in 1 .. n \/ i = n + 1
    OBVIOUS
  <2>4. b + f[n + 1] \in Nat /\ \A i \in 1 .. n + 1 : f[i] <= b + f[n + 1]
    BY <2>1, <2>2, <2>3
  <2> QED
    BY <2>4, Zenon
<1>3. N \in T
  <2> HIDE DEF T
  <2> QED
    BY <1>1, <1>2, Induction, Zenon
<1> QED
  BY <1>3

\* A bounded set of naturals has a greatest element.
LEMMA Largest ==
  ASSUME NEW S, S \subseteq Nat, S # {}, NEW b \in Nat, \A x \in S : x <= b
  PROVE  Max(S) \in S /\ \A y \in S : Max(S) >= y
<1> DEFINE D == {b - x : x \in S}
<1>1. D \subseteq Nat
  <2> SUFFICES ASSUME NEW x \in S PROVE b - x \in Nat
    OBVIOUS
  <2> QED
    OBVIOUS
<1>2. D # {}
  BY Zenon
<1>3. PICK d \in D : \A e \in D : d <= e
  <2> HIDE DEF D
  <2> QED
    BY <1>1, <1>2, Smallest, Zenon
<1>4. PICK x \in S : d = b - x
  OBVIOUS
<1>5. \A y \in S : x >= y
  BY <1>3, <1>4
<1> QED
  BY <1>5, Zenon DEF Max

\* No more of the body is shown than the plugin asks for, or than there is.
LEMMA PreviewBounded ==
  ASSUME NEW r \in Requests, NEW i \in DOMAIN Chain[r], NEW n \in InputFor(r, i).body_preview
  PROVE  n <= Chain[r][i].body_preview_bytes /\ n <= Client[r].body
<1> DEFINE P == {p.body_preview_bytes : p \in Range(Chain[r])}
           limit == Max({0} \cup P)
           own == Chain[r][i].body_preview_bytes
           body == Client[r].body
<1>1. Chain[r] \in Seq(Plugins) /\ body \in Nat
  BY PolicyAssumption, Zenon
<1>2. \A j \in 1 .. Len(Chain[r]) : Chain[r][j].body_preview_bytes \in Nat
  BY <1>1, PolicyAssumption
<1>3. PICK L \in Nat : L = Len(Chain[r]) /\ DOMAIN Chain[r] = 1 .. L
  BY <1>1
<1>4. own \in Nat
  BY <1>2, <1>3, Zenon
<1>5. limit \in Nat
  <2> DEFINE f == [j \in 1 .. L |-> Chain[r][j].body_preview_bytes]
  <2>1. f \in [1 .. L -> Nat]
    BY <1>2, <1>3, Zenon
  <2>2. P = {f[j] : j \in 1 .. L}
    BY <1>3, Zenon DEF Range
  <2> HIDE DEF f, P
  <2>3. PICK b \in Nat : \A j \in 1 .. L : f[j] <= b
    BY <2>1, Bounded, Zenon
  <2>4. {0} \cup P \subseteq Nat /\ {0} \cup P # {} /\ \A x \in {0} \cup P : x <= b
    BY <2>1, <2>2, <2>3
  <2>5. limit \in {0} \cup P
    BY <2>4, Largest, Zenon
  <2> QED
    BY <2>4, <2>5, Zenon
<1>6. PreviewRead(r) \subseteq {Min({limit, body})}
  BY Zenon DEF PreviewRead
<1> HIDE DEF limit, own, body
<1>7. \A a, b \in Nat : Min({a, b}) \in Nat /\ Min({a, b}) <= a /\ Min({a, b}) <= b
  <2> SUFFICES ASSUME NEW a \in Nat, NEW b \in Nat
               PROVE  Min({a, b}) \in Nat /\ Min({a, b}) <= a /\ Min({a, b}) <= b
    BY Zenon
  <2>1. \E x \in {a, b} : \A y \in {a, b} : x <= y
    OBVIOUS
  <2>2. Min({a, b}) \in {a, b} /\ \A y \in {a, b} : Min({a, b}) <= y
    BY <2>1, Zenon DEF Min
  <2> QED
    BY <2>2, Zenon
<1>8. PICK m \in PreviewRead(r) : n = Min({m, own})
  BY Zenon DEF InputFor, own
<1>9. m \in Nat /\ m <= body
  BY <1>1, <1>5, <1>6, <1>7, Zenon
<1>10. n \in Nat /\ n <= own /\ n <= m
  BY <1>4, <1>7, <1>8, <1>9, Zenon
<1> QED
  BY <1>1, <1>9, <1>10 DEF own, body

\* Replacing what is too long or not UTF-8 changes no name.
LEMMA TextMembers ==
  ASSUME NEW h, IsList(h)
  PROVE  /\ IsList(AsText(h))
         /\ Range(AsText(h)) = {<<x[1], Text(x[2])>> : x \in Range(h)}
<1> DEFINE t == AsText(h)
           S == Range(t)
<1>1. PICK L \in Nat : DOMAIN h = 1 .. L
  BY DEF IsList
<1>2. t = [i \in 1 .. L |-> <<h[i][1], Text(h[i][2])>>]
  BY <1>1, Zenon DEF AsText
<1> HIDE DEF t
<1>3. S = {<<x[1], Text(x[2])>> : x \in Range(h)}
  BY <1>1, <1>2, Zenon DEF Range
<1>4. \A i \in 1 .. L : t[i] \in S
  BY <1>2, Zenon DEF Range
<1>5. t \in [1 .. L -> S]
  BY <1>2, <1>4, Zenon
<1> HIDE DEF S
<1>6. t \in Seq(S)
  BY <1>5
<1> QED
  BY <1>3, <1>6, Zenon DEF IsList, S, t

\* What is stored of headers is not sensitive.
LEMMA StoredIsSafe == ASSUME NEW h, IsList(h) PROVE Range(StoredHeaders(h)) \subseteq Safe(h, {})
<1> DEFINE w == Without(h, Sensitive)
<1>1. w \in Seq(Range(h)) /\ Range(w) = {x \in Range(h) : x[1] \notin Sensitive}
  BY WithoutMembers DEF IsList
<1> HIDE DEF w
<1>2. IsList(w)
  BY <1>1 DEF IsList, Range
<1>3. Range(StoredHeaders(h)) = {<<x[1], Text(x[2])>> : x \in Range(w)}
  BY <1>2, TextMembers, Zenon DEF StoredHeaders, w
<1> QED
  BY <1>1, <1>3, Zenon DEF Safe

\* A plugin is shown what is not sensitive and what it names.
LEMMA InputIsSafe ==
  ASSUME NEW h, IsList(h), NEW plugin
  PROVE  /\ IsList(InputHeaders(PolicyHeaders(h), plugin))
         /\ Range(InputHeaders(PolicyHeaders(h), plugin)) \subseteq Safe(h, plugin.raw_headers)
<1> DEFINE t == AsText(h)
           w == Without(t, Sensitive \ plugin.raw_headers)
<1>1. IsList(t) /\ Range(t) = {<<x[1], Text(x[2])>> : x \in Range(h)}
  BY TextMembers, Zenon
<1> HIDE DEF t
<1>2. w \in Seq(Range(t)) /\ Range(w) = {x \in Range(t) : x[1] \notin Sensitive \ plugin.raw_headers}
  BY <1>1, WithoutMembers DEF IsList
<1>3. InputHeaders(PolicyHeaders(h), plugin) = w
  BY Zenon DEF InputHeaders, PolicyHeaders, t
<1> HIDE DEF w
<1>4. IsList(w)
  BY <1>2 DEF IsList, Range
<1>5. ASSUME NEW x \in Range(w) PROVE x \in Safe(h, plugin.raw_headers)
  <2>1. PICK y \in Range(h) : x = <<y[1], Text(y[2])>>
    BY <1>1, <1>2
  <2>2. y[1] \notin Sensitive \ plugin.raw_headers
    BY <1>2, <2>1
  <2> QED
    BY <2>1, <2>2, Zenon DEF Safe
<1> QED
  BY <1>3, <1>4, <1>5, Zenon

\* What is shown and stored of a query is not sensitive.
LEMMA QueryIsSafe ==
  ASSUME NEW query, \A q \in query : IsList(q)
  PROVE  UNION {Range(q) : q \in RedactedQuery(query)} \subseteq SafeParams(query)
<1> SUFFICES ASSUME NEW q \in query, NEW p \in Range(Without(q, SensitiveParams))
             PROVE  p \in SafeParams(query)
  BY Zenon DEF RedactedQuery
<1>1. p \in Range(q) /\ p[1] \notin SensitiveParams
  BY WithoutMembers DEF IsList
<1> QED
  BY <1>1, Zenon DEF SafeParams

\* A guest emits what it made up and values that it was shown.
LEMMA EventsAreShown ==
  ASSUME NEW r, IsList(input[r].headers), NEW d \in Decisions(r)
  PROVE  d.events \subseteq {"own"} \cup {h[2] : h \in Range(input[r].headers)}
<1> DEFINE shown == input[r].headers
<1>1. ASSUME NEW source PROVE Value(shown, source) \subseteq {"own"} \cup {h[2] : h \in Range(shown)}
  <2> DEFINE o == Named(shown, source)
  <2>1. o \in Seq(Range(shown)) /\ Range(o) \subseteq Range(shown)
    BY NamedMembers, Zenon DEF IsList
  <2>2. Get(shown, source) = IF o = <<>> THEN {} ELSE {o[1][2]}
    BY Zenon DEF Get
  <2> HIDE DEF o
  <2>3. o # <<>> => o[1] \in Range(shown)
    BY <2>1
  <2>4. Get(shown, source) \subseteq {h[2] : h \in Range(shown)}
    BY <2>2, <2>3, Zenon
  <2> QED
    BY <2>4, Zenon DEF Value
<1>2. \A deed, kind, status :
        Decision(shown, deed, kind, status).events =
          UNION {Value(shown, source) : source \in deed.events}
  BY Zenon DEF Decision
<1>3. PICK deed, kind, status : d = Decision(shown, deed, kind, status)
  BY DEF Decisions
<1> HIDE DEF shown
<1>4. d.events = UNION {Value(shown, source) : source \in deed.events}
  BY <1>2, <1>3, Zenon
<1> QED
  BY <1>1, <1>4, Zenon DEF shown

-----------------------------------------------------------------------------
(* Redaction *)

\* What the plugin at index may see, and what it may say in its events.
Visible(r, index) == Safe(Client[r].headers, Chain[r][index].raw_headers)
MaySay(r, index) == {"own"} \cup {h[2] : h \in Visible(r, index)}

\* What the latest plugin called was given.
Given(r) ==
  /\ input[r].index \in DOMAIN Chain[r]
  /\ IsList(input[r].headers) /\ Range(input[r].headers) \subseteq Visible(r, input[r].index)
  /\ UNION {Range(q) : q \in input[r].query} \subseteq SafeParams(Client[r].query)
  /\ \A n \in input[r].body_preview :
       n <= Chain[r][input[r].index].body_preview_bytes /\ n <= Client[r].body

\* What is stored in the end.
StoredSafe(r, o) ==
  /\ Range(o.stored.request) \subseteq Safe(Client[r].headers, {})
  /\ UNION {Range(q) : q \in o.stored.query} \subseteq SafeParams(Client[r].query)
  /\ Range(o.stored.response) \subseteq Safe(o.response, {})
  /\ \A i \in DOMAIN o.stored.plugin_decisions :
       o.stored.plugin_decisions[i].events \subseteq MaySay(r, i)

\* A call is the one of the plugin that the evaluation waits for, what it
\* returns is of that plugin, and the records are in the order of the chain.
Contained(r) ==
  /\ input[r].index # 0 => Given(r)
  /\ task[r] # "none" => input[r].index # 0
  /\ pc[r] = "await" => input[r].index = Len(records[r]) + 1
  /\ task[r] = "ended" => result[r].events \subseteq MaySay(r, input[r].index)
  /\ \A i \in DOMAIN records[r] : records[r][i].events \subseteq MaySay(r, i)
  /\ \A o \in outcome[r] : StoredSafe(r, o)

CallShape == input = [r \in Requests |-> input[r]] /\ task = [r \in Requests |-> task[r]]
SecretInv == CallShape /\ \A r \in Requests : Contained(r)

SameCall(q) == Same(q) /\ input'[q] = input[q] /\ task'[q] = task[q]

\* What is contained stays so whatever another request does.
LEMMA SameIsContained == ASSUME NEW q, Contained(q), SameCall(q) PROVE Contained(q)'
BY Zenon DEF Contained, SameCall, Same, Given, StoredSafe

\* The record of a call says what its plugin may say.
LEMMA SettleIsContained ==
  ASSUME EvalInv, CallShape, NEW r \in Requests, Contained(r), pc[r] = "await",
         NEW res, res.events \subseteq MaySay(r, input[r].index), NEW timedOut,
         Settle(r, res, timedOut), UNCHANGED <<input, outcome, result>>,
         task' = task \/ task' = [task EXCEPT ![r] = "none"]
  PROVE  Contained(r)' /\ CallShape' /\ \A q \in Requests \ {r} : SameCall(q)
<1> DEFINE rec == RecordOf(res, timedOut)
           n == Len(records[r])
           label == IF res.kind = "allow" THEN "next" ELSE "denied"
           status == IF res.kind = "allow" THEN 0
                     ELSE IF res.kind = "deny" THEN NormalStatus(res.status) ELSE 403
<1>1. Shape /\ Sound(r) /\ IsList(records[r])
  BY DEF EvalInv, Sound
<1>2. /\ records' = [records EXCEPT ![r] = Append(records[r], rec)]
      /\ pc' = [pc EXCEPT ![r] = label]
      /\ denied' = [denied EXCEPT ![r] = status]
  BY DEF Settle, Goto
<1>3. rec.events = res.events /\ label # "await"
  BY DEF RecordOf
<1> HIDE DEF rec, label, status
<1>4. records'[r] = Append(records[r], rec) /\ pc'[r] # "await"
  BY <1>1, <1>2, <1>3, Zenon DEF Shape
<1>5. \A q \in Requests \ {r} : SameCall(q)
  <2> SUFFICES ASSUME NEW q \in Requests \ {r} PROVE SameCall(q)
    BY Zenon
  <2>1. pc'[q] = pc[q] /\ records'[q] = records[q] /\ denied'[q] = denied[q]
    BY <1>1, <1>2, Zenon DEF Shape
  <2>2. task'[q] = task[q]
    BY DEF CallShape
  <2> QED
    BY <2>1, <2>2, Zenon DEF SameCall, Same
<1>6. CallShape' /\ (task'[r] = task[r] \/ task'[r] = "none")
  BY DEF CallShape
<1>7. /\ n \in Nat /\ DOMAIN records[r] = 1 .. n /\ DOMAIN records'[r] = 1 .. n + 1
      /\ \A i \in 1 .. n : records'[r][i] = records[r][i]
      /\ records'[r][n + 1] = rec
  BY <1>1, <1>4, Appended
<1>8. \A i \in 1 .. n + 1 : i \in 1 .. n \/ i = n + 1
  BY <1>7
<1>9. input[r].index = n + 1
  BY DEF Contained
<1>10. \A i \in DOMAIN records'[r] : records'[r][i].events \subseteq MaySay(r, i)
  BY <1>3, <1>7, <1>8, <1>9 DEF Contained
<1>11. Contained(r)'
  BY <1>4, <1>6, <1>10, Zenon DEF Contained, Given, StoredSafe
<1> QED
  BY <1>5, <1>6, <1>11, Zenon

\* What the handler leaves behind.
Finished(r, sent, reply, o) ==
  LET response == ResponseWithRequestId(reply, RequestIdFromHeaders(Client[r].headers))
  IN  o = [sent |-> sent, response |-> response, stored |-> Stored(r, response)]

\* The handler ends by leaving an outcome, after a denial without a request sent.
LEMMA FinishLeaves ==
  ASSUME Shape, NEW r \in Requests, Deny(r) \/ Forward(r)
  PROVE  \E o, sent, reply :
           /\ Finished(r, sent, reply, o) /\ outcome'[r] = {o}
           /\ reply \in Replies \cup {<<>>}
           /\ sent = {} \/ \E traced \in BOOLEAN :
                sent = {BuildUpstreamRequest(
                          [query |-> Client[r].query,
                           headers |-> ApplyPolicyMutations(Client[r].headers, sets[r], removes[r])],
                          RequestIdFromHeaders(Client[r].headers), traced)}
           /\ pc'[r] = "done"
           /\ \A q \in Requests \ {r} : pc'[q] = pc[q] /\ outcome'[q] = outcome[q]
           /\ UNCHANGED <<epoch, evaluation, call>>
<1>1. ASSUME NEW sent, NEW reply, Finish(r, sent, reply)
      PROVE  \E o : /\ Finished(r, sent, reply, o) /\ outcome'[r] = {o} /\ pc'[r] = "done"
                    /\ \A q \in Requests \ {r} : pc'[q] = pc[q] /\ outcome'[q] = outcome[q]
                    /\ UNCHANGED <<epoch, evaluation, call>>
  <2> DEFINE response == ResponseWithRequestId(reply, RequestIdFromHeaders(Client[r].headers))
             o == [sent |-> sent, response |-> response, stored |-> Stored(r, response)]
  <2>1. /\ outcome' = [outcome EXCEPT ![r] = {o}] /\ pc' = [pc EXCEPT ![r] = "done"]
        /\ UNCHANGED <<epoch, evaluation, call>>
    BY <1>1, Zenon DEF Finish, Goto
  <2>2. Finished(r, sent, reply, o)
    BY Zenon DEF Finished
  <2> HIDE DEF o
  <2>3. /\ outcome'[r] = {o} /\ pc'[r] = "done"
        /\ \A q \in Requests \ {r} : pc'[q] = pc[q] /\ outcome'[q] = outcome[q]
    BY <2>1, Zenon DEF Shape
  <2> QED
    BY <2>1, <2>2, <2>3, Zenon
<1>2. CASE Deny(r)
  <2>1. Finish(r, {}, <<>>)
    BY <1>2, Zenon DEF Deny
  <2>2. <<>> \in Replies \cup {<<>>}
    OBVIOUS
  <2> QED
    BY <1>1, <2>1, <2>2, Zenon
<1>3. CASE Forward(r)
  <2> DEFINE template == [query |-> Client[r].query,
                          headers |-> ApplyPolicyMutations(Client[r].headers, sets[r], removes[r])]
             built(traced) == BuildUpstreamRequest(template, RequestIdFromHeaders(Client[r].headers), traced)
  <2>1. PICK traced \in BOOLEAN, reply \in Replies : Finish(r, {built(traced)}, reply)
    BY <1>3, Zenon DEF Forward
  <2>2. PICK o : /\ Finished(r, {built(traced)}, reply, o) /\ outcome'[r] = {o} /\ pc'[r] = "done"
                 /\ \A q \in Requests \ {r} : pc'[q] = pc[q] /\ outcome'[q] = outcome[q]
                 /\ UNCHANGED <<epoch, evaluation, call>>
    BY <1>1, <2>1, Zenon
  <2>3. reply \in Replies \cup {<<>>}
    OBVIOUS
  <2> QED
    BY <2>2, <2>3, Zenon
<1> QED
  BY <1>2, <1>3, Zenon

\* Every step keeps the secrets of every request contained.
LEMMA SecretStep == EvalInv /\ SecretInv /\ [Next]_vars => SecretInv'
<1> SUFFICES ASSUME EvalInv, SecretInv, [Next]_vars PROVE SecretInv'
  OBVIOUS
<1>0. Shape /\ CallShape /\ \A q \in Requests : Sound(q) /\ Contained(q)
  BY Zenon DEF EvalInv, SecretInv
<1>a. ASSUME NEW r \in Requests, CallShape', Contained(r)', \A q \in Requests \ {r} : SameCall(q)
      PROVE  SecretInv'
  BY <1>0, <1>a, SameIsContained, Zenon DEF SecretInv
<1>1. ASSUME NEW r \in Requests, Spawn(r) PROVE SecretInv'
  <2> DEFINE n == Len(records[r])
             given == InputFor(r, n + 1)
  <2>1. n \in Nat /\ n < Len(Chain[r]) /\ Chain[r] \in Seq(Plugins)
    BY <1>0, <1>1, PolicyAssumption, SMTT(20) DEF Sound, IsList, Spawn
  <2>2. n + 1 \in DOMAIN Chain[r] /\ n + 1 # 0
    BY <2>1
  <2>3. /\ given.index = n + 1
        /\ given.headers = InputHeaders(PolicyHeaders(Client[r].headers), Chain[r][n + 1])
        /\ given.query = RedactedQuery(Client[r].query)
    BY Zenon DEF InputFor
  <2>4. /\ IsList(given.headers) /\ Range(given.headers) \subseteq Visible(r, n + 1)
        /\ UNION {Range(q) : q \in given.query} \subseteq SafeParams(Client[r].query)
    BY <2>3, InputIsSafe, QueryIsSafe, PolicyAssumption, Zenon DEF Visible
  <2>5. \A k \in given.body_preview :
          k <= Chain[r][n + 1].body_preview_bytes /\ k <= Client[r].body
    BY <2>2, PreviewBounded
  <2> HIDE DEF given
  <2>6. /\ input' = [input EXCEPT ![r] = given] /\ task' = [task EXCEPT ![r] = "queued"]
        /\ pc' = [pc EXCEPT ![r] = "await"] /\ UNCHANGED <<records, denied, outcome, result>>
    BY <1>1 DEF Spawn, Goto, evaluation, given
  <2>7. input'[r] = given /\ task'[r] = "queued" /\ CallShape'
    BY <1>0, <2>6, Zenon DEF CallShape
  <2>8. \A q \in Requests \ {r} : SameCall(q)
    BY <1>0, <2>6, Zenon DEF Shape, CallShape, SameCall, Same
  <2>9. Given(r)'
    BY <2>2, <2>3, <2>4, <2>5, <2>7, SMTT(20) DEF Given
  <2>10. Contained(r)'
    BY <1>0, <2>2, <2>3, <2>6, <2>7, <2>9, Zenon DEF Contained, StoredSafe
  <2> QED
    BY <1>a, <2>7, <2>8, <2>10
<1>2. ASSUME NEW r \in Requests, Return(r) \/ Cancel(r) PROVE SecretInv'
  <2>1. PICK label : pc' = [pc EXCEPT ![r] = label] /\ label # "await"
    BY <1>2, Zenon DEF Return, Cancel, Goto
  <2>2. UNCHANGED <<records, denied, outcome, result, input, task>>
    BY <1>2 DEF Return, Cancel, evaluation, call
  <2>3. CallShape' /\ pc'[r] # "await" /\ \A q \in Requests \ {r} : SameCall(q)
    BY <1>0, <2>1, <2>2 DEF Shape, CallShape, SameCall, Same
  <2>4. Contained(r)'
    BY <1>0, <2>2, <2>3, Zenon DEF Contained, Given, StoredSafe
  <2> QED
    BY <1>a, <2>3, <2>4, Zenon
<1>3. ASSUME NEW r \in Requests, Receive(r) PROVE SecretInv'
  <2>1. /\ pc[r] = "await" /\ task[r] = "ended" /\ Settle(r, result[r], FALSE)
        /\ UNCHANGED <<input, outcome, result>> /\ task' = [task EXCEPT ![r] = "none"]
    BY <1>3, Zenon DEF Receive
  <2>2. result[r].events \subseteq MaySay(r, input[r].index)
    BY <1>0, <2>1 DEF Contained
  <2> QED
    BY <1>0, <1>a, <2>1, <2>2, SettleIsContained, Zenon
<1>4. ASSUME NEW r \in Requests, Timeout(r) PROVE SecretInv'
  <2>1. /\ pc[r] = "await" /\ Settle(r, Error, TRUE)
        /\ UNCHANGED <<input, outcome, result>> /\ task' = task
    BY <1>4, Zenon DEF Timeout, call
  <2>2. Error.events \subseteq MaySay(r, input[r].index)
    BY DEF Error
  <2> QED
    BY <1>0, <1>a, <2>1, <2>2, SettleIsContained, Zenon
<1>5. ASSUME NEW r \in Requests, StartCall(r) PROVE SecretInv'
  <2>1. /\ task[r] = "queued" /\ task' = [task EXCEPT ![r] = "running"]
        /\ UNCHANGED <<pc, records, denied, outcome, result, input>>
    BY <1>5 DEF StartCall, evaluation
  <2>2. task'[r] = "running" /\ CallShape' /\ \A q \in Requests \ {r} : SameCall(q)
    BY <1>0, <2>1 DEF Shape, CallShape, SameCall, Same
  <2>3. Contained(r)'
    BY <1>0, <2>1, <2>2, Zenon DEF Contained, Given, StoredSafe
  <2> QED
    BY <1>a, <2>2, <2>3
<1>6. ASSUME NEW r \in Requests, EndCall(r) PROVE SecretInv'
  <2>1. PICK res \in {Error} \cup Decisions(r) : result' = [result EXCEPT ![r] = res]
    BY <1>6, Zenon DEF EndCall
  <2>2. /\ task[r] = "running" /\ task' = [task EXCEPT ![r] = "ended"]
        /\ UNCHANGED <<pc, records, denied, outcome, input>>
    BY <1>6 DEF EndCall, evaluation
  <2>3. /\ task'[r] = "ended" /\ result'[r] = res /\ CallShape'
        /\ \A q \in Requests \ {r} : SameCall(q)
    BY <1>0, <2>1, <2>2 DEF Shape, CallShape, SameCall, Same
  <2>4. input[r].index # 0 /\ Given(r)
    BY <1>0, <2>2, Zenon DEF Contained
  <2>5. res.events \subseteq MaySay(r, input[r].index)
    <3>1. CASE res = Error
      BY <3>1, Zenon DEF Error
    <3>2. CASE res \in Decisions(r)
      <4>1. res.events \subseteq {"own"} \cup {h[2] : h \in Range(input[r].headers)}
        BY <2>4, <3>2, EventsAreShown, Zenon DEF Given
      <4> QED
        BY <2>4, <4>1, Zenon DEF Given, MaySay
    <3> QED
      BY <3>1, <3>2, Zenon
  <2>6. Contained(r)'
    BY <1>0, <2>2, <2>3, <2>4, <2>5, Zenon DEF Contained, Given, StoredSafe
  <2> QED
    BY <1>a, <2>3, <2>6
<1>7. ASSUME NEW r \in Requests, Deny(r) \/ Forward(r) PROVE SecretInv'
  <2>1. PICK o, sent, reply :
          /\ Finished(r, sent, reply, o) /\ outcome'[r] = {o}
          /\ reply \in Replies \cup {<<>>}
          /\ pc'[r] = "done"
          /\ \A q \in Requests \ {r} : pc'[q] = pc[q] /\ outcome'[q] = outcome[q]
          /\ UNCHANGED <<evaluation, call>>
    BY <1>0, <1>7, FinishLeaves, Zenon
  <2>2. UNCHANGED <<records, denied, result, input, task>>
    BY <2>1 DEF evaluation, call
  <2>3. CallShape' /\ \A q \in Requests \ {r} : SameCall(q)
    BY <1>0, <2>1, <2>2, Zenon DEF CallShape, SameCall, Same
  <2> DEFINE id == RequestIdFromHeaders(Client[r].headers)
             response == ResponseWithRequestId(reply, id)
  <2>4. o = [sent |-> sent, response |-> response, stored |-> Stored(r, response)]
    BY <2>1, Zenon DEF Finished
  <2>5. IsList(response)
    <3> DEFINE x == <<"x-request-id", id>>
               X == Range(reply) \cup {x}
    <3>1. IsList(reply)
      <4>1. IsList(<<>>)
        BY DEF IsList, Range
      <4> QED
        BY <2>1, <4>1, PolicyAssumption
    <3>2. reply \in Seq(X) /\ x \in X
      BY <3>1 DEF IsList
    <3> HIDE DEF x, X
    <3>3. Insert(reply, x) \in Seq(X)
      BY <3>2, NamedInsert, Zenon
    <3>4. response = Insert(reply, x)
      BY Zenon DEF ResponseWithRequestId, x
    <3> HIDE DEF response
    <3>5. response \in Seq(X)
      BY <3>3, <3>4, Zenon
    <3> QED
      BY <3>5, SMTT(20) DEF IsList, Range
  <2> HIDE DEF response
  <2>6. /\ o.response = response /\ o.stored.request = StoredHeaders(Client[r].headers)
        /\ o.stored.query = RedactedQuery(Client[r].query)
        /\ o.stored.response = StoredHeaders(response)
        /\ o.stored.plugin_decisions = records[r]
    BY <2>4, Zenon DEF Stored
  <2>7. StoredSafe(r, o)
    <3>1. \A i \in DOMAIN records[r] : records[r][i].events \subseteq MaySay(r, i)
      BY <1>0, Zenon DEF Contained
    <3>2. UNION {Range(q) : q \in RedactedQuery(Client[r].query)} \subseteq SafeParams(Client[r].query)
      BY PolicyAssumption, QueryIsSafe, Zenon
    <3>3. /\ Range(StoredHeaders(Client[r].headers)) \subseteq Safe(Client[r].headers, {})
          /\ Range(StoredHeaders(response)) \subseteq Safe(response, {})
      BY <2>5, PolicyAssumption, StoredIsSafe, Zenon
    <3> QED
      BY <2>6, <3>1, <3>2, <3>3 DEF StoredSafe
  <2>8. \A p \in outcome'[r] : StoredSafe(r, p)
    BY <2>1, <2>7, Zenon
  <2>9. Contained(r)'
    BY <1>0, <2>1, <2>2, <2>8, Zenon DEF Contained, Given, StoredSafe
  <2> QED
    BY <1>a, <2>3, <2>9, Zenon
<1>8. ASSUME UNCHANGED <<pc, records, denied, outcome, result, input, task>> PROVE SecretInv'
  BY <1>0, <1>8, SameIsContained DEF SecretInv, CallShape, SameCall, Same
<1>9. ASSUME NEW r \in Requests, Work(r) PROVE SecretInv'
  BY <1>8, <1>9, Zenon DEF Work, evaluation
<1>10. CASE UNCHANGED vars
  BY <1>8, <1>10, Zenon DEF vars, evaluation, call
<1> QED
  BY <1>1, <1>2, <1>3, <1>4, <1>5, <1>6, <1>7, <1>9, <1>10 DEF Next, Evaluate, Guest

\* The secrets are contained in every reachable state.
LEMMA SecretHolds == Spec => []SecretInv
<1>1. Init => SecretInv
  <2> SUFFICES ASSUME Init PROVE SecretInv
    OBVIOUS
  <2>1. CallShape
    BY Zenon DEF Init, CallShape
  <2>2. ASSUME NEW r \in Requests PROVE Contained(r)
    <3>1. /\ records[r] = <<>> /\ outcome[r] = {} /\ input[r].index = 0
          /\ pc[r] = "next" /\ task[r] = "none"
      BY Zenon DEF Init, NoInput
    <3>2. DOMAIN records[r] = {}
      BY <3>1
    <3> QED
      BY <3>1, <3>2, Zenon DEF Contained
  <2> QED
    BY <2>1, <2>2, Zenon DEF SecretInv
<1> QED
  BY <1>1, SecretStep, EvalHolds, PTL DEF Spec

\* Redaction holds for every request, chain and configuration, however the
\* guests use what they are shown: nothing sensitive is stored, and no plugin is
\* given, or passes on in its events, a value that it may not see.
THEOREM SecretsAreContained == Spec => []SecretsContained
<1>1. SecretInv => SecretsContained
  BY Zenon DEF SecretInv, Contained, Given, StoredSafe, MaySay, Visible, SecretsContained
<1> QED
  BY <1>1, SecretHolds, PTL

-----------------------------------------------------------------------------
(* What is sent upstream *)

Values(list) == [i \in DOMAIN list |-> list[i][2]]

\* Of no header and of one.
LEMMA ValuesOfFew ==
  /\ Values(<<>>) = <<>>
  /\ \A x : Values(<<x>>) = <<x[2]>>
<1>1. Values(<<>>) = <<>>
  BY DEF Values
<1>2. ASSUME NEW x PROVE Values(<<x>>) = <<x[2]>>
  BY DEF Values
<1> QED
  BY <1>1, <1>2, Zenon

\* Values are lost or made up with their headers only.
LEMMA ValuesOfSome ==
  ASSUME NEW X, NEW list \in Seq(X)
  PROVE  /\ Values(list) = <<>> <=> list = <<>>
         /\ list # <<>> => Values(list)[1] = list[1][2]
<1>1. PICK L \in Nat : L = Len(list) /\ DOMAIN list = 1 .. L
  OBVIOUS
<1>2. Values(list) = [i \in 1 .. L |-> list[i][2]]
  BY <1>1, Zenon DEF Values
<1>3. L = 0 <=> list = <<>>
  BY <1>1
<1>4. CASE L = 0
  BY <1>3, <1>4, ValuesOfFew, Zenon
<1>5. CASE L # 0
  <2>1. 1 \in 1 .. L
    BY <1>5
  <2>2. DOMAIN Values(list) = 1 .. L /\ DOMAIN <<>> = {} /\ Values(list)[1] = list[1][2]
    BY <1>2, <2>1
  <2> QED
    BY <1>3, <1>5, <2>1, <2>2
<1> QED
  BY <1>4, <1>5, Zenon

\* The headers of one list after those of another.
LEMMA Joined ==
  ASSUME NEW X, NEW s \in Seq(X), NEW t \in Seq(X)
  PROVE  s \o t \in Seq(X) /\ Range(s \o t) = Range(s) \cup Range(t)
<1> DEFINE u == s \o t
<1>1. PICK K \in Nat : K = Len(s) /\ DOMAIN s = 1 .. K
  OBVIOUS
<1>2. PICK L \in Nat : L = Len(t) /\ DOMAIN t = 1 .. L
  OBVIOUS
<1>3. /\ u \in Seq(X) /\ DOMAIN u = 1 .. K + L
      /\ \A i \in 1 .. K : u[i] = s[i]
      /\ \A i \in 1 .. L : u[K + i] = t[i]
  BY <1>1, <1>2
<1> HIDE DEF u
<1>4. \A i \in 1 .. K + L : i \in 1 .. K \/ (i - K \in 1 .. L /\ i = K + (i - K))
  OBVIOUS
<1>5. /\ \A i \in 1 .. K : i \in 1 .. K + L
      /\ \A i \in 1 .. L : K + i \in 1 .. K + L
  OBVIOUS
<1>6. ASSUME NEW x \in Range(u) PROVE x \in Range(s) \cup Range(t)
  <2>1. PICK i \in 1 .. K + L : x = u[i]
    BY <1>3, Zenon DEF Range
  <2>2. CASE i \in 1 .. K
    BY <1>1, <1>3, <2>1, <2>2, SMTT(20) DEF Range
  <2>3. CASE i - K \in 1 .. L /\ i = K + (i - K)
    <3>1. x = t[i - K]
      BY <1>3, <2>1, <2>3, Zenon
    <3> QED
      BY <1>2, <2>3, <3>1 DEF Range
  <2> QED
    BY <1>4, <2>2, <2>3, Zenon
<1>7. ASSUME NEW x \in Range(s) \cup Range(t) PROVE x \in Range(u)
  <2>1. CASE x \in Range(s)
    <3>1. PICK i \in 1 .. K : x = s[i]
      BY <1>1, <2>1 DEF Range
    <3> QED
      BY <1>3, <1>5, <3>1, Zenon DEF Range
  <2>2. CASE x \in Range(t)
    <3>1. PICK i \in 1 .. L : x = t[i]
      BY <1>2, <2>2, Zenon DEF Range
    <3>2. x = u[K + i] /\ K + i \in DOMAIN u
      BY <1>3, <1>5, <3>1, Zenon
    <3> QED
      BY <3>2 DEF Range
  <2> QED
    BY <2>1, <2>2, Zenon
<1> QED
  BY <1>3, <1>6, <1>7, Zenon DEF u

\* After InsertAll a name has one header of the list, or what it had before.
LEMMA NamedAfter ==
  ASSUME NEW X, NEW h \in Seq(X), NEW list \in Seq(X), NEW name
  PROVE  /\ InsertAll(h, list) \in Seq(X)
         /\ name \notin NamesOf(list) => Named(InsertAll(h, list), name) = Named(h, name)
         /\ name \in NamesOf(list) =>
              \E x \in Range(list) : x[1] = name /\ Named(InsertAll(h, list), name) = <<x>>
<1> DEFINE o == Named(list, name)
<1>1. o \in Seq(X) /\ Range(o) = {x \in Range(list) : x[1] = name} /\ (o = <<>> <=> name \notin NamesOf(list))
  BY NamedMembers
<1>2. /\ InsertAll(h, list) \in Seq(X)
      /\ o = <<>> => Named(InsertAll(h, list), name) = Named(h, name)
      /\ o # <<>> => Named(InsertAll(h, list), name) = <<LastOf(o)>>
  BY NamedInsertAll
<1> HIDE DEF o
<1>3. o # <<>> => LastOf(o) \in Range(o)
  <2> SUFFICES ASSUME o # <<>> PROVE LastOf(o) \in Range(o)
    BY Zenon
  <2>1. Len(o) \in DOMAIN o
    BY <1>1
  <2> QED
    BY <2>1, Zenon DEF LastOf, Range
<1> QED
  BY <1>1, <1>2, <1>3, Zenon

\* Of what the plugins set the last, without what they removed the rest as the
\* client sent it.
LEMMA MutationsAreWanted ==
  ASSUME NEW r \in Requests, IsList(sets[r]), NEW name,
         NEW H, H = ApplyPolicyMutations(Client[r].headers, sets[r], removes[r])
  PROVE  IsList(H) /\ Values(Named(H, name)) = Wanted(r, name)
<1> DEFINE C == Client[r].headers
           S == sets[r]
           R == removes[r]
           X == Range(C) \cup Range(S)
           W == Without(C, R)
           last == {i \in DOMAIN S : S[i][1] = name
                      /\ \A j \in DOMAIN S : S[j][1] = name => j <= i}
<1>1. C \in Seq(X) /\ S \in Seq(X)
  BY PolicyAssumption DEF IsList
<1>2. Wanted(r, name) = IF last # {} THEN <<S[CHOOSE i \in last : TRUE][2]>>
                        ELSE IF name \in R THEN <<>> ELSE Values(Named(C, name))
  BY Zenon DEF Wanted, Values
<1>3. H = InsertAll(W, S)
  BY Zenon DEF ApplyPolicyMutations
<1>4. last = {i \in DOMAIN S : IsLastNamed(S, name, i)}
  BY Zenon DEF IsLastNamed
<1>5. name \in NamesOf(S) <=> \E i \in DOMAIN S : S[i][1] = name
  BY Zenon DEF NamesOf, Range
<1> HIDE DEF C, S, R, X, last
<1>6. W \in Seq(X)
  BY <1>1, WithoutMembers, Zenon
<1>7. /\ name \in R => Named(W, name) = <<>>
      /\ name \notin R => Named(W, name) = Named(C, name)
  BY <1>1, NamedWithout, Zenon
<1>8. /\ name \in NamesOf(S) <=> Named(S, name) # <<>>
  BY <1>1, NamedMembers, Zenon
<1> HIDE DEF W
<1>9. /\ H \in Seq(X)
      /\ Named(S, name) = <<>> => Named(H, name) = Named(W, name)
      /\ Named(S, name) # <<>> => Named(H, name) = <<LastOf(Named(S, name))>>
  BY <1>1, <1>3, <1>6, NamedInsertAll, SMTT(20)
<1>10. IsList(H)
  BY <1>9, SMTT(20) DEF IsList, Range
<1>11. CASE name \in NamesOf(S)
  <2>1. PICK i \in DOMAIN S : IsLastNamed(S, name, i) /\ LastOf(Named(S, name)) = S[i]
    BY <1>1, <1>11, LastNamed, Zenon
  <2>2. DOMAIN S \subseteq Nat
    BY <1>1
  <2>3. last = {i}
    <3>1. ASSUME NEW j \in last PROVE j = i
      <4>1. j \in Nat /\ i \in Nat /\ j <= i /\ i <= j
        BY <1>4, <2>1, <2>2, <3>1 DEF IsLastNamed
      <4> QED
        BY <4>1
    <3> QED
      BY <1>4, <2>1, <3>1, Zenon
  <2>4. (CHOOSE j \in last : TRUE) = i
    BY <2>3, Zenon
  <2>5. Wanted(r, name) = <<S[i][2]>>
    BY <1>2, <2>3, <2>4, Zenon
  <2>6. Named(H, name) = <<S[i]>>
    BY <1>8, <1>9, <1>11, <2>1, Zenon
  <2> QED
    BY <1>10, <2>5, <2>6, ValuesOfFew, Zenon
<1>12. CASE name \notin NamesOf(S)
  <2>1. last = {}
    BY <1>4, <1>5, <1>12, Zenon DEF IsLastNamed
  <2>2. Named(H, name) = Named(W, name)
    BY <1>8, <1>9, <1>12, Zenon
  <2> QED
    BY <1>2, <1>7, <1>10, <2>1, <2>2, ValuesOfFew
<1> QED
  BY <1>11, <1>12, Zenon

\* The headers of a list of two.
LEMMA OfTwo == \A a, b : Range(<<a, b>>) = {a, b} /\ <<a, b>> \in Seq({a, b})
<1> SUFFICES ASSUME NEW a, NEW b PROVE Range(<<a, b>>) = {a, b} /\ <<a, b>> \in Seq({a, b})
  BY Zenon
<1>1. DOMAIN <<a, b>> = {1, 2} /\ <<a, b>>[1] = a /\ <<a, b>>[2] = b
  BY SMT
<1>2. Range(<<a, b>>) = {a, b}
  BY <1>1, Zenon DEF Range
<1> QED
  BY <1>2

OwnNames ==
  {"host", "x-request-id", "x-forwarded-for", "x-forwarded-host", "x-forwarded-proto", "traceparent"}

\* What build_upstream_request makes of the headers H of the template.
Built(headers, H, id) ==
  LET Sent(name) == Values(Named(headers, name))
  IN  /\ \A name : name \notin OwnNames =>
           Sent(name) = IF name \in HopByHop THEN <<>> ELSE Values(Named(H, name))
      /\ Sent("host") = <<"upstream">> /\ Sent("x-forwarded-for") = <<"peer">>
      /\ Sent("x-request-id") = <<id>>
      /\ Sent("x-forwarded-host") = IF Named(H, "host") = <<>> THEN Values(Named(H, "x-forwarded-host"))
                                    ELSE <<Named(H, "host")[1][2]>>
      /\ Sent("traceparent") \in
           {<<"span">>, <<"generated">>, Values(Named(H, "traceparent"))} \ {<<>>}

\* The insertions of the gateway win over the client and the plugins.
LEMMA RequestIsBuilt ==
  ASSUME NEW H, IsList(H), NEW id, NEW traced \in BOOLEAN, NEW query,
         NEW sent, sent = BuildUpstreamRequest([query |-> query, headers |-> H], id, traced)
  PROVE  sent.query = query /\ Built(sent.headers, H, id)
<1> DEFINE hosts == Named(H, "host")
           a == <<"host", "upstream">>
           b == <<"x-request-id", id>>
           c == <<"x-forwarded-for", "peer">>
           d == <<"x-forwarded-proto", "http">>
           e == <<"x-forwarded-host", hosts[1][2]>>
           s == <<"traceparent", "span">>
           g == <<"traceparent", "generated">>
           host == [i \in 1 .. Len(hosts) |-> e]
           list == <<a, b>> \o host \o <<c, d>>
           W == Without(H, HopByHop)
           U == InsertAll(W, list)
           V == sent.headers
           X == Range(H) \cup {a, b, c, d, e, s, g}
           passed == IF hosts = <<>> THEN {} ELSE {e}
<1>1. sent.query = query /\ V = InjectContext(U, traced)
  BY Zenon DEF BuildUpstreamRequest
<1>2. /\ a[1] = "host" /\ a[2] = "upstream" /\ b[1] = "x-request-id" /\ b[2] = id
      /\ c[1] = "x-forwarded-for" /\ c[2] = "peer" /\ d[1] = "x-forwarded-proto"
      /\ e[1] = "x-forwarded-host" /\ e[2] = hosts[1][2]
      /\ s[1] = "traceparent" /\ s[2] = "span" /\ g[1] = "traceparent" /\ g[2] = "generated"
  BY Zenon
<1>3. V = Insert(U, s) \/ V = Insert(U, g) \/ (V = U /\ Get(U, "traceparent") # {})
  <2> HIDE DEF U
  <2> QED
    BY <1>1, Zenon DEF InjectContext
<1> HIDE DEF V
<1> HIDE DEF a, b, c, d, e, s, g
<1>4. H \in Seq(X) /\ {a, b, c, d, e, s, g} \subseteq X
  BY DEF IsList
<1>5. hosts \in Seq(X)
  BY <1>4, NamedMembers, Zenon
<1> HIDE DEF hosts, X
<1>6. host \in Seq(X) /\ Range(host) = passed
  <2>1. PICK L \in Nat : L = Len(hosts)
    BY <1>5
  <2>2. L = 0 <=> hosts = <<>>
    BY <1>5, <2>1
  <2>3. host = [i \in 1 .. L |-> e] /\ e \in X
    BY <1>4, <2>1, Zenon
  <2> HIDE DEF host
  <2>4. host \in Seq(X) /\ DOMAIN host = 1 .. L /\ \A i \in 1 .. L : host[i] = e
    BY <2>3
  <2>5. L # 0 => 1 \in 1 .. L
    OBVIOUS
  <2>6. L = 0 => 1 .. L = {}
    OBVIOUS
  <2>7. Range(host) = {host[i] : i \in 1 .. L}
    BY <2>4, Zenon DEF Range
  <2> QED
    BY <2>2, <2>4, <2>5, <2>6, <2>7, Zenon
<1>7. list \in Seq(X) /\ Range(list) = {a, b, c, d} \cup passed
  <2>1. /\ <<a, b>> \in Seq(X) /\ Range(<<a, b>>) = {a, b}
        /\ <<c, d>> \in Seq(X) /\ Range(<<c, d>>) = {c, d}
    BY <1>4, OfTwo
  <2> DEFINE ab == <<a, b>>
             cd == <<c, d>>
  <2> HIDE DEF ab, cd, host, passed
  <2>2. ab \in Seq(X) /\ Range(ab) = {a, b} /\ cd \in Seq(X) /\ Range(cd) = {c, d}
    BY <2>1, Zenon DEF ab, cd
  <2>3. ab \o host \in Seq(X) /\ Range(ab \o host) = {a, b} \cup passed
    BY <1>6, <2>2, Joined
  <2> DEFINE abh == ab \o host
  <2> HIDE DEF abh
  <2>4. abh \in Seq(X) /\ Range(abh) = {a, b} \cup passed
    BY <2>3, Zenon DEF abh
  <2>5. abh \o cd \in Seq(X) /\ Range(abh \o cd) = Range(abh) \cup Range(cd)
    BY <2>2, <2>4, Joined
  <2>6. list = abh \o cd
    BY Zenon DEF ab, cd, abh
  <2> QED
    BY <2>2, <2>4, <2>5, <2>6, Zenon
<1> HIDE DEF list, host
<1>8. \A x \in Range(list) : x \in {a, b, c, d} \/ (hosts # <<>> /\ x = e)
  BY <1>7, Zenon
<1>9. W \in Seq(X)
  BY <1>4, WithoutMembers, Zenon
<1>10. \A name : /\ name \in HopByHop => Named(W, name) = <<>>
                 /\ name \notin HopByHop => Named(W, name) = Named(H, name)
  BY <1>4, NamedWithout, Zenon
<1> HIDE DEF W
<1>11. U \in Seq(X)
  BY <1>7, <1>9, NamedAfter, Zenon
<1>12. \A name : name \notin NamesOf(list) => Named(U, name) = Named(W, name)
  BY <1>7, <1>9, NamedAfter
<1>13. \A name : name \in NamesOf(list) =>
         \E x \in Range(list) : x[1] = name /\ Named(U, name) = <<x>>
  BY <1>7, <1>9, NamedAfter
<1> HIDE DEF U
<1>14. \A name : name # "traceparent" => Named(V, name) = Named(U, name)
  <2> SUFFICES ASSUME NEW name, name # "traceparent" PROVE Named(V, name) = Named(U, name)
    BY Zenon
  <2>1. s \in X /\ g \in X /\ s[1] # name /\ g[1] # name
    BY <1>2, <1>4, Zenon
  <2>2. CASE V = Insert(U, s)
    BY <1>11, <2>1, <2>2, NamedInsert
  <2>3. CASE V = Insert(U, g)
    BY <1>11, <2>1, <2>3, NamedInsert
  <2>4. CASE V = U
    BY <2>4, Zenon
  <2> QED
    BY <1>3, <2>2, <2>3, <2>4, Zenon
<1>15. "traceparent" \notin HopByHop /\ "x-forwarded-host" \notin HopByHop
  BY Zenon DEF HopByHop
<1>16. NamesOf(list) = {x[1] : x \in Range(list)}
  BY Zenon DEF NamesOf
<1>17. ASSUME NEW name, name \notin OwnNames
       PROVE  Values(Named(V, name)) = IF name \in HopByHop THEN <<>> ELSE Values(Named(H, name))
  <2>1. name \notin NamesOf(list) /\ name # "traceparent"
    BY <1>2, <1>8, <1>16, <1>17 DEF OwnNames
  <2>2. Named(V, name) = Named(W, name)
    BY <1>12, <1>14, <2>1, Zenon
  <2> QED
    BY <1>10, <2>2, ValuesOfFew, Zenon
<1>18. Values(Named(V, "host")) = <<"upstream">>
  <2>1. "host" \in NamesOf(list)
    BY <1>2, <1>7, <1>16, Zenon
  <2>2. PICK x \in Range(list) : x[1] = "host" /\ Named(U, "host") = <<x>>
    BY <1>13, <2>1, Zenon
  <2>3. x = a
    BY <1>2, <1>8, <2>2, Zenon
  <2> QED
    BY <1>2, <1>14, <2>2, <2>3, ValuesOfFew, Zenon
<1>19. Values(Named(V, "x-forwarded-for")) = <<"peer">>
  <2>1. "x-forwarded-for" \in NamesOf(list)
    BY <1>2, <1>7, <1>16, Zenon
  <2>2. PICK x \in Range(list) : x[1] = "x-forwarded-for" /\ Named(U, "x-forwarded-for") = <<x>>
    BY <1>13, <2>1, Zenon
  <2>3. x = c
    BY <1>2, <1>8, <2>2, Zenon
  <2> QED
    BY <1>2, <1>14, <2>2, <2>3, ValuesOfFew
<1>20. Values(Named(V, "x-request-id")) = <<id>>
  <2>1. "x-request-id" \in NamesOf(list)
    BY <1>2, <1>7, <1>16, Zenon
  <2>2. PICK x \in Range(list) : x[1] = "x-request-id" /\ Named(U, "x-request-id") = <<x>>
    BY <1>13, <2>1, Zenon
  <2>3. x = b
    BY <1>2, <1>8, <2>2, Zenon
  <2> QED
    BY <1>2, <1>14, <2>2, <2>3, ValuesOfFew
<1>21. Values(Named(V, "x-forwarded-host")) =
         IF hosts = <<>> THEN Values(Named(H, "x-forwarded-host")) ELSE <<hosts[1][2]>>
  <2>1. CASE hosts = <<>>
    <3>1. "x-forwarded-host" \notin NamesOf(list)
      BY <1>2, <1>8, <1>16, <2>1, Zenon
    <3> QED
      BY <1>10, <1>12, <1>14, <1>15, <2>1, <3>1
  <2>2. CASE hosts # <<>>
    <3>1. "x-forwarded-host" \in NamesOf(list)
      BY <1>2, <1>7, <1>16, <2>2, Zenon
    <3>2. PICK x \in Range(list) : x[1] = "x-forwarded-host" /\ Named(U, "x-forwarded-host") = <<x>>
      BY <1>13, <3>1, Zenon
    <3>3. x = e
      BY <1>2, <1>8, <3>2, Zenon
    <3> QED
      BY <1>2, <1>14, <2>2, <3>2, <3>3, ValuesOfFew
  <2> QED
    BY <2>1, <2>2, Zenon
<1>22. Values(Named(V, "traceparent")) \in
         {<<"span">>, <<"generated">>, Values(Named(H, "traceparent"))} \ {<<>>}
  <2> DEFINE t == Named(U, "traceparent")
  <2>1. /\ Named(Insert(U, s), "traceparent") = <<s>>
        /\ Named(Insert(U, g), "traceparent") = <<g>>
    BY <1>2, <1>4, <1>11, NamedInsert, SMTT(20)
  <2>2. Values(<<s>>) = <<"span">> /\ Values(<<g>>) = <<"generated">>
    BY <1>2, ValuesOfFew, Zenon
  <2>3. <<"span">> # <<>> /\ <<"generated">> # <<>>
    BY Zenon
  <2>4. t \in Seq(X) /\ (Values(t) = <<>> <=> t = <<>>)
    BY <1>11, NamedMembers, ValuesOfSome, Zenon
  <2>5. "traceparent" \notin NamesOf(list)
    BY <1>2, <1>8, <1>16, Zenon
  <2>6. t = Named(H, "traceparent")
    BY <1>10, <1>12, <1>15, <2>5, Zenon
  <2>7. Get(U, "traceparent") # {} => t # <<>>
    BY Zenon DEF Get
  <2> HIDE DEF t
  <2>8. CASE V = Insert(U, s)
    BY <2>1, <2>2, <2>3, <2>8, Zenon
  <2>9. CASE V = Insert(U, g)
    BY <2>1, <2>2, <2>3, <2>9
  <2>10. CASE V = U /\ Get(U, "traceparent") # {}
    BY <2>4, <2>6, <2>7, <2>10 DEF t
  <2> QED
    BY <1>3, <2>8, <2>9, <2>10, Zenon
<1> QED
  BY <1>1, <1>17, <1>18, <1>19, <1>20, <1>21, <1>22 DEF Built, V, hosts

\* What was sent, if anything was, in terms of what the plugins decided.
Faithful(r, o) ==
  \A sent \in o.sent :
    LET Sent(name) == Values(Named(sent.headers, name))
        names == {h[1] : h \in Range(sent.headers) \cup Range(Client[r].headers) \cup Range(sets[r])}
    IN  /\ \A name \in names \ OwnNames :
             Sent(name) = IF name \in HopByHop THEN <<>> ELSE Wanted(r, name)
        /\ Sent("host") = <<"upstream">> /\ Sent("x-forwarded-for") = <<"peer">>
        /\ Sent("x-forwarded-host") = IF Wanted(r, "host") = <<>> THEN Wanted(r, "x-forwarded-host")
                                      ELSE <<Wanted(r, "host")[1]>>
        /\ Sent("traceparent") \in {<<"span">>, <<"generated">>, Wanted(r, "traceparent")} \ {<<>>}
        /\ sent.query = Client[r].query
        /\ Sent("x-request-id") = <<o.stored.id>> /\ {o.stored.id} = Get(o.response, "x-request-id")

\* The decisions are lists of headers, and do not change once a request is sent.
Decided(r) == IsList(sets[r]) /\ IsList(result[r].sets) /\ \A o \in outcome[r] : Faithful(r, o)
DecidedInv ==
  /\ sets = [r \in Requests |-> sets[r]] /\ removes = [r \in Requests |-> removes[r]]
  /\ \A r \in Requests : Decided(r)

\* Wanted, as a function of the decisions.
WantedOf(S, R, r, name) ==
  LET last == {i \in DOMAIN S : S[i][1] = name /\ \A j \in DOMAIN S : S[j][1] = name => j <= i}
  IN  IF last # {} THEN <<S[CHOOSE i \in last : TRUE][2]>>
      ELSE IF name \in R THEN <<>>
      ELSE [i \in DOMAIN Named(Client[r].headers, name) |-> Named(Client[r].headers, name)[i][2]]

\* What is wanted changes with the decisions of the request only.
LEMMA SameIsFaithful ==
  ASSUME NEW r, sets'[r] = sets[r], removes'[r] = removes[r], NEW o, Faithful(r, o)
  PROVE  Faithful(r, o)'
<1>1. \A name : Wanted(r, name)' = Wanted(r, name)
  <2> SUFFICES ASSUME NEW name PROVE Wanted(r, name)' = Wanted(r, name)
    BY Zenon
  <2>1. Wanted(r, name) = WantedOf(sets[r], removes[r], r, name)
    BY Zenon DEF Wanted, WantedOf
  <2>2. Wanted(r, name)' = WantedOf(sets'[r], removes'[r], r, name)
    BY Zenon DEF Wanted, WantedOf
  <2> QED
    BY <2>1, <2>2, Zenon
<1> QED
  BY <1>1, Zenon DEF Faithful

\* What another request does changes nothing here.
LEMMA SameIsDecided ==
  ASSUME NEW r, Decided(r), sets'[r] = sets[r], removes'[r] = removes[r],
         outcome'[r] = outcome[r], result'[r] = result[r]
  PROVE  Decided(r)'
BY SameIsFaithful, Zenon DEF Decided

\* The headers that a guest sets are a list.
LEMMA DecisionSets ==
  ASSUME NEW r \in Requests, input[r].index \in DOMAIN Chain[r], NEW d \in Decisions(r)
  PROVE  IsList(d.sets)
<1> DEFINE shown == input[r].headers
           made(deed) == [i \in DOMAIN deed.sets |->
                            <<deed.sets[i][1], CHOOSE v \in Value(shown, deed.sets[i][2]) : TRUE>>]
<1>1. \A deed, kind, status : Decision(shown, deed, kind, status).sets = made(deed)
  BY Zenon DEF Decision
<1>2. PICK deed \in Chain[r][input[r].index].guest :
        \E kind, status : d = Decision(shown, deed, kind, status)
  BY DEF Decisions
<1>3. Chain[r][input[r].index] \in Plugins
  BY PolicyAssumption
<1>4. IsList(deed.sets)
  BY <1>2, <1>3, PolicyAssumption, Zenon
<1>5. PICK L \in Nat : DOMAIN deed.sets = 1 .. L
  BY <1>4 DEF IsList
<1> DEFINE s == made(deed)
<1>6. DOMAIN s = 1 .. L /\ s = [i \in 1 .. L |-> s[i]]
  BY <1>5
<1> HIDE DEF made
<1>7. d.sets = s
  BY <1>1, <1>2, Zenon
<1> HIDE DEF s
<1>8. s \in [1 .. L -> Range(s)]
  BY <1>6, Zenon DEF Range
<1>9. s \in Seq(Range(s))
  <2> DEFINE S == Range(s)
  <2> HIDE DEF S
  <2>1. s \in [1 .. L -> S]
    BY <1>8, Zenon DEF S
  <2>2. s \in Seq(S)
    BY <2>1
  <2> QED
    BY <2>2, Zenon DEF S
<1> QED
  BY <1>7, <1>9, Zenon DEF IsList

\* The response carries the id it is given.
LEMMA ResponseCarriesId ==
  ASSUME NEW reply, IsList(reply), NEW id
  PROVE  {id} = Get(ResponseWithRequestId(reply, id), "x-request-id")
<1> DEFINE x == <<"x-request-id", id>>
           X == Range(reply) \cup {x}
           response == ResponseWithRequestId(reply, id)
<1>1. reply \in Seq(X) /\ x \in X
  BY DEF IsList
<1>2. x[1] = "x-request-id" /\ x[2] = id
  BY Zenon
<1>3. response = Insert(reply, x)
  BY Zenon DEF ResponseWithRequestId
<1> HIDE DEF x, X, response
<1>4. Named(response, "x-request-id") = <<x>>
  BY <1>1, <1>2, <1>3, NamedInsert
<1>5. <<x>>[1] = x /\ <<x>> # <<>>
  OBVIOUS
<1>6. {id} = Get(response, "x-request-id")
  BY <1>2, <1>4, <1>5, Zenon DEF Get
<1> QED
  BY <1>6, Zenon DEF response

\* The request that is sent, and the record of it, are faithful.
LEMMA SendingIsFaithful ==
  ASSUME NEW r \in Requests, IsList(sets[r]), NEW o, NEW sent, NEW reply, NEW traced \in BOOLEAN,
         Finished(r, sent, reply, o), IsList(reply),
         sent = {} \/ sent = {BuildUpstreamRequest(
                                [query |-> Client[r].query,
                                 headers |-> ApplyPolicyMutations(Client[r].headers, sets[r], removes[r])],
                                RequestIdFromHeaders(Client[r].headers), traced)}
  PROVE  Faithful(r, o)
<1> DEFINE id == RequestIdFromHeaders(Client[r].headers)
           H == ApplyPolicyMutations(Client[r].headers, sets[r], removes[r])
           m == BuildUpstreamRequest([query |-> Client[r].query, headers |-> H], id, traced)
           response == ResponseWithRequestId(reply, id)
<1>1. o = [sent |-> sent, response |-> response, stored |-> Stored(r, response)]
  BY Zenon DEF Finished
<1>2. o.sent = sent /\ o.response = response /\ o.stored.id = id
  BY <1>1, Zenon DEF Stored
<1>3. {id} = Get(response, "x-request-id")
  BY ResponseCarriesId, Zenon
<1>4. IsList(H) /\ \A name : Values(Named(H, name)) = Wanted(r, name)
  BY MutationsAreWanted, Zenon
<1>5. sent = {} \/ sent = {m}
  BY Zenon
<1>6. m.query = Client[r].query /\ Built(m.headers, H, id)
  <2> HIDE DEF H, id
  <2> QED
    BY <1>4, RequestIsBuilt
<1>7. /\ Wanted(r, "host") = <<>> <=> Named(H, "host") = <<>>
      /\ Named(H, "host") # <<>> => Wanted(r, "host")[1] = Named(H, "host")[1][2]
  <2> DEFINE list == Named(H, "host")
  <2> HIDE DEF H
  <2>1. list \in Seq(Range(H))
    BY <1>4, NamedMembers, Zenon DEF IsList
  <2>2. Values(list) = Wanted(r, "host")
    BY <1>4, Zenon
  <2> QED
    BY <2>1, <2>2, ValuesOfSome, Zenon
<1> HIDE DEF H, id, m, response
<1>8. ASSUME NEW name, name \notin OwnNames
      PROVE  Values(Named(m.headers, name)) = IF name \in HopByHop THEN <<>> ELSE Wanted(r, name)
  BY <1>4, <1>6, <1>8, Zenon DEF Built
<1>9. /\ Values(Named(m.headers, "host")) = <<"upstream">>
      /\ Values(Named(m.headers, "x-forwarded-for")) = <<"peer">>
      /\ Values(Named(m.headers, "x-request-id")) = <<id>>
  BY <1>6, Zenon DEF Built
<1>10. Values(Named(m.headers, "x-forwarded-host")) =
         IF Wanted(r, "host") = <<>> THEN Wanted(r, "x-forwarded-host") ELSE <<Wanted(r, "host")[1]>>
  BY <1>4, <1>6, <1>7, Zenon DEF Built
<1>11. Values(Named(m.headers, "traceparent")) \in
         {<<"span">>, <<"generated">>, Wanted(r, "traceparent")} \ {<<>>}
  BY <1>4, <1>6, Zenon DEF Built
<1> QED
  BY <1>2, <1>3, <1>5, <1>6, <1>8, <1>9, <1>10, <1>11 DEF Faithful

\* Every step keeps what was sent faithful.
LEMMA DecidedStep == EvalInv /\ SecretInv /\ DecidedInv /\ [Next]_vars => DecidedInv'
<1> SUFFICES ASSUME EvalInv, SecretInv, DecidedInv, [Next]_vars PROVE DecidedInv'
  BY Zenon
<1>0. /\ Shape /\ \A q \in Requests : Sound(q) /\ Contained(q) /\ Decided(q)
      /\ sets = [r \in Requests |-> sets[r]] /\ removes = [r \in Requests |-> removes[r]]
  BY Zenon DEF EvalInv, SecretInv, DecidedInv
<1>1. ASSUME NEW r \in Requests, pc[r] = "await", NEW res, IsList(res.sets), NEW timedOut,
             Settle(r, res, timedOut), UNCHANGED <<outcome, result>>
      PROVE  DecidedInv'
  <2>1. /\ sets' = [sets EXCEPT ![r] = sets[r] \o res.sets]
        /\ removes' = [removes EXCEPT ![r] = removes[r] \cup res.removes]
    BY <1>1, Zenon DEF Settle
  <2>2. /\ sets' = [q \in Requests |-> sets'[q]] /\ removes' = [q \in Requests |-> removes'[q]]
        /\ sets'[r] = sets[r] \o res.sets
    BY <1>0, <2>1, Zenon
  <2>3. ASSUME NEW q \in Requests \ {r} PROVE sets'[q] = sets[q] /\ removes'[q] = removes[q]
    BY <1>0, <2>1, Zenon
  <2>4. IsList(sets'[r])
    <3> DEFINE X == Range(sets[r]) \cup Range(res.sets)
               s == sets[r] \o res.sets
    <3>1. sets[r] \in Seq(X) /\ res.sets \in Seq(X)
      BY <1>0, <1>1 DEF Decided, IsList
    <3> HIDE DEF X
    <3>2. s \in Seq(X)
      BY <3>1
    <3> HIDE DEF s
    <3>3. s \in Seq(Range(s))
      BY <3>2 DEF Range
    <3> QED
      BY <2>2, <3>3 DEF IsList, s
  <2>5. outcome'[r] = {} /\ IsList(result'[r].sets)
    BY <1>0, <1>1, Zenon DEF Sound, Decided
  <2>6. Decided(r)'
    BY <2>4, <2>5, Zenon DEF Decided
  <2>7. \A q \in Requests \ {r} : Decided(q)'
    BY <1>0, <1>1, <2>3, SameIsDecided, Zenon
  <2> QED
    BY <2>2, <2>6, <2>7, Zenon DEF DecidedInv
<1>2. ASSUME UNCHANGED <<sets, removes>>, NEW r \in Requests, Decided(r)',
             \A q \in Requests \ {r} : outcome'[q] = outcome[q] /\ result'[q] = result[q]
      PROVE  DecidedInv'
  BY <1>0, <1>2, SameIsDecided, Zenon DEF DecidedInv
<1>3. ASSUME NEW r \in Requests, Receive(r) PROVE DecidedInv'
  <2>1. pc[r] = "await" /\ Settle(r, result[r], FALSE) /\ UNCHANGED <<outcome, result>>
    BY <1>3, Zenon DEF Receive
  <2>2. IsList(result[r].sets)
    BY <1>0 DEF Decided
  <2> QED
    BY <1>1, <2>1, <2>2, Zenon
<1>4. ASSUME NEW r \in Requests, Timeout(r) PROVE DecidedInv'
  <2>1. pc[r] = "await" /\ Settle(r, Error, TRUE) /\ UNCHANGED <<outcome, result>>
    BY <1>4, Zenon DEF Timeout, call
  <2>2. IsList(Error.sets)
    BY DEF Error, IsList, Range
  <2> QED
    BY <1>1, <2>1, <2>2, Zenon
<1>5. ASSUME NEW r \in Requests, EndCall(r) PROVE DecidedInv'
  <2>1. PICK res \in {Error} \cup Decisions(r) : result' = [result EXCEPT ![r] = res]
    BY <1>5, Zenon DEF EndCall
  <2>2. task[r] = "running" /\ UNCHANGED <<sets, removes, outcome>>
    BY <1>5 DEF EndCall, evaluation
  <2>3. result'[r] = res /\ \A q \in Requests \ {r} : result'[q] = result[q]
    BY <1>0, <2>1 DEF Shape
  <2>4. input[r].index \in DOMAIN Chain[r]
    BY <1>0, <2>2 DEF Contained, Given
  <2>5. IsList(res.sets)
    <3>1. IsList(Error.sets)
      BY DEF Error, IsList, Range
    <3> QED
      BY <2>4, <3>1, DecisionSets, Zenon
  <2>6. Decided(r)'
    BY <1>0, <2>2, <2>3, <2>5, SameIsFaithful DEF Decided
  <2> QED
    BY <1>2, <2>2, <2>3, <2>6
<1>6. ASSUME NEW r \in Requests, Deny(r) \/ Forward(r) PROVE DecidedInv'
  <2>1. PICK o, sent, reply :
          /\ Finished(r, sent, reply, o) /\ outcome'[r] = {o}
          /\ reply \in Replies \cup {<<>>}
          /\ sent = {} \/ \E traced \in BOOLEAN :
               sent = {BuildUpstreamRequest(
                         [query |-> Client[r].query,
                          headers |-> ApplyPolicyMutations(Client[r].headers, sets[r], removes[r])],
                         RequestIdFromHeaders(Client[r].headers), traced)}
          /\ \A q \in Requests \ {r} : outcome'[q] = outcome[q]
          /\ UNCHANGED <<evaluation, call>>
    BY <1>0, <1>6, FinishLeaves, Zenon
  <2>2. UNCHANGED <<sets, removes, result>>
    BY <2>1, Zenon DEF evaluation, call
  <2>3. IsList(reply)
    <3>1. IsList(<<>>)
      BY DEF IsList, Range
    <3> QED
      BY <2>1, <3>1, PolicyAssumption
  <2>4. IsList(sets[r]) /\ IsList(result[r].sets)
    BY <1>0, Zenon DEF Decided
  <2>5. Faithful(r, o)
    <3>1. TRUE \in BOOLEAN
      BY Zenon
    <3> QED
      BY <2>1, <2>3, <2>4, <3>1, SendingIsFaithful, Zenon
  <2>6. Faithful(r, o)'
    BY <2>2, <2>5, SameIsFaithful
  <2>7. Decided(r)'
    BY <2>1, <2>2, <2>4, <2>6 DEF Decided
  <2> QED
    BY <1>2, <2>1, <2>2, <2>7
<1>7. ASSUME UNCHANGED <<sets, removes, outcome, result>> PROVE DecidedInv'
  BY <1>0, <1>7, SameIsDecided, Zenon DEF DecidedInv
<1>8. ASSUME NEW r \in Requests,
             Spawn(r) \/ Return(r) \/ Cancel(r) \/ StartCall(r) \/ Work(r)
      PROVE  DecidedInv'
  BY <1>7, <1>8, Zenon DEF Spawn, Return, Cancel, StartCall, Work, evaluation, call
<1>9. CASE UNCHANGED vars
  BY <1>7, <1>9, Zenon DEF vars, evaluation, call
<1> QED
  BY <1>3, <1>4, <1>5, <1>6, <1>8, <1>9 DEF Next, Evaluate, Guest

\* Whatever the client sends and the plugins of any chain decide, the upstream
\* gets the gateway's own headers, no hop-by-hop header, of what the plugins set
\* the last, and the rest and the query as the client sent them; the id sent is
\* the one of the answer and of the stored record.
THEOREM ForwardingIsFaithful == Spec => []ForwardedFaithful
<1>1. Init => DecidedInv
  <2> SUFFICES ASSUME Init PROVE DecidedInv
    OBVIOUS
  <2>1. sets = [r \in Requests |-> sets[r]] /\ removes = [r \in Requests |-> removes[r]]
    BY Zenon DEF Init
  <2>2. \A r \in Requests : sets[r] = <<>> /\ outcome[r] = {} /\ result[r].sets = <<>>
    BY Zenon DEF Init, Error
  <2>3. IsList(<<>>)
    BY DEF IsList, Range
  <2> QED
    BY <2>1, <2>2, <2>3, Zenon DEF DecidedInv, Decided
<1>2. DecidedInv => ForwardedFaithful
  BY Zenon DEF DecidedInv, Decided, Faithful, Values, OwnNames, ForwardedFaithful
<1> QED
  BY <1>1, <1>2, DecidedStep, SecretHolds, EvalHolds, PTL DEF Spec
=============================================================================
