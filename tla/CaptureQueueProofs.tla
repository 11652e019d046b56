------------------------- MODULE CaptureQueueProofs -------------------------
(***************************************************************************)
(* Proofs about CaptureQueue, for any number of writes and any capacity.   *)
(***************************************************************************)
EXTENDS CaptureQueue, DataLemmas, TLAPS

\* The row of a write is one of the four a request can have.
LEMMA RowOfType == \A w : RowOf(w) \in Rows \ {"none"}
  BY DEF RowOf, Rows

\* Counting a drop keeps the counters natural numbers.
LEMMA CountDropType ==
  ASSUME drops \in [Writes -> Nat], NEW w \in Writes, CountDrop(w)
  PROVE  drops' \in [Writes -> Nat]
<1>1. drops' = [drops EXCEPT ![w] = drops[w] + 1] /\ drops[w] + 1 \in Nat
  BY DEF CountDrop
<1> QED
  BY <1>1

\* Every step of the specification preserves the types.
LEMMA TypeStep == TypeOK /\ [Next]_vars => TypeOK'
<1> SUFFICES ASSUME TypeOK, [Next]_vars PROVE TypeOK'
  OBVIOUS
<1> USE QueueAssumption
<1>1. ASSUME NEW w \in Writes, FinalizeSent(w) \/ ResendSent(w) PROVE TypeOK'
  <2>0. queue' = Append(queue, w) /\ Len(queue) < Capacity
    BY <1>1 DEF FinalizeSent, ResendSent, Send, HasRoom
  <2>1. queue' \in Seq(Writes) /\ Len(queue') <= Capacity
    <3>1. queue \in Seq(Writes) /\ Len(queue) \in Nat
      BY DEF TypeOK
    <3>2. Append(queue, w) \in Seq(Writes) /\ Len(Append(queue, w)) = Len(queue) + 1
      BY <3>1
    <3> QED
      BY <2>0, <3>1, <3>2
  <2>2. phase' \in [Writes -> Phases]
    BY <1>1 DEF FinalizeSent, ResendSent, Send, Phases, TypeOK
  <2> QED
    BY <1>1, <2>1, <2>2 DEF FinalizeSent, ResendSent, TypeOK
<1>2. ASSUME NEW w \in Writes, FinalizeFull(w) PROVE TypeOK'
  BY <1>2 DEF FinalizeFull, Phases, TypeOK
<1>3. ASSUME NEW w \in Writes, FinalizeClosed(w) \/ ResendFailed(w) PROVE TypeOK'
  <2>0. CountDrop(w) /\ phase' = [phase EXCEPT ![w] = "lost"]
    BY <1>3 DEF FinalizeClosed, ResendFailed
  <2>1. drops' \in [Writes -> Nat] /\ phase' \in [Writes -> Phases]
    BY <2>0, CountDropType DEF Phases, TypeOK
  <2>2. UNCHANGED <<kind, capture, dropped, queue, writing, row, captures, stopped>>
    BY <1>3 DEF FinalizeClosed, ResendFailed
  <2> QED
    BY <2>1, <2>2 DEF TypeOK
<1>4. ASSUME NEW w \in Writes, Fallback(w) PROVE TypeOK'
  <2>1. drops' = drops \/ CountDrop(w)
    BY <1>4 DEF Fallback
  <2>2. drops' \in [Writes -> Nat]
    BY <2>1, CountDropType DEF TypeOK
  <2> QED
    BY <1>4, <2>2 DEF Fallback, Phases, TypeOK
<1>5. CASE Recv
  <2>1. Head(queue) \in Writes /\ Tail(queue) \in Seq(Writes)
        /\ Len(Tail(queue)) <= Capacity
    BY <1>5 DEF Recv, TypeOK
  <2> QED
    BY <1>5, <2>1 DEF Recv, Phases, TypeOK
<1>6. CASE Inserted
  <2>1. row' \in [Writes -> Rows]
    BY <1>6, RowOfType DEF Inserted, TypeOK
  <2>2. captures' \in [Writes -> Nat]
    BY <1>6 DEF Inserted, TypeOK
  <2>3. phase' \in [Writes -> Phases]
    BY <1>6 DEF Inserted, Phases, TypeOK
  <2>4. UNCHANGED <<kind, capture, dropped, queue, drops, stopped>> /\ writing' = Nobody
    BY <1>6 DEF Inserted
  <2> QED
    BY <2>1, <2>2, <2>3, <2>4 DEF TypeOK
<1>7. CASE InsertFailed
  <2>1. row' \in [Writes -> Rows]
    BY <1>7, RowOfType, ZenonT(60) DEF InsertFailed, Rows, TypeOK
  <2>2. drops' \in [Writes -> Nat]
    BY <1>7 DEF InsertFailed, CountDrop, TypeOK
  <2>3. phase' \in [Writes -> Phases]
    BY <1>7 DEF InsertFailed, Phases, TypeOK
  <2>4. UNCHANGED <<kind, capture, dropped, queue, captures, stopped>> /\ writing' = Nobody
    BY <1>7 DEF InsertFailed
  <2> QED
    BY <2>1, <2>2, <2>3, <2>4 DEF TypeOK
<1>8. CASE Stop
  <2>1. row' \in [Writes -> Rows]
    <3>1. row' = row \/ row' = [row EXCEPT ![writing] = RowOf(writing)]
      BY <1>8 DEF Stop
    <3>2. RowOf(writing) \in Rows
      BY RowOfType
    <3> QED
      BY <3>1, <3>2 DEF TypeOK
  <2>2. phase' \in [Writes -> Phases]
    BY <1>8 DEF Stop, Phases, TypeOK
  <2>3. queue' \in Seq(Writes) /\ Len(queue') <= Capacity
    BY <1>8 DEF Stop
  <2>4. UNCHANGED <<kind, capture, dropped, captures, drops>> /\ writing' = Nobody
        /\ stopped' = TRUE
    BY <1>8 DEF Stop
  <2> QED
    BY <2>1, <2>2, <2>3, <2>4 DEF TypeOK
<1>9. CASE UNCHANGED vars
  BY <1>9 DEF vars, TypeOK
<1> QED
  BY <1>1, <1>2, <1>3, <1>4, <1>5, <1>6, <1>7, <1>8, <1>9
     DEF Next, Writer, Finalize, EnqueueRest

\* Type correctness; the channel holds at most capture_queue_capacity writes.
THEOREM TypeCorrect == Spec => []TypeOK
<1>1. Init => TypeOK
  <2>1. Init => /\ kind \in [Writes -> Kinds] /\ phase \in [Writes -> Phases]
                /\ writing \in Writes \cup {Nobody} /\ row \in [Writes -> Rows]
                /\ captures \in [Writes -> Nat] /\ drops \in [Writes -> Nat]
    BY DEF Init, Phases, Rows
  <2>2. Init => /\ capture \in [Writes -> BOOLEAN] /\ dropped \in [Writes -> BOOLEAN]
                /\ stopped \in BOOLEAN
    BY ZenonT(60) DEF Init
  <2>3. Init => queue \in Seq(Writes) /\ Len(queue) <= Capacity
    BY QueueAssumption DEF Init
  <2> QED
    BY <2>1, <2>2, <2>3 DEF TypeOK
<1> QED
  BY <1>1, TypeStep, PTL DEF Spec

-----------------------------------------------------------------------------
\* Each write is in the channel or with the writer at most once.
THEOREM QueueIsConsistent == Spec => []QueueConsistent
<1>1. Init => QueueConsistent
  BY DEF Init, QueueConsistent
<1>2. TypeOK /\ QueueConsistent /\ [Next]_vars => QueueConsistent'
  <2> SUFFICES ASSUME TypeOK, QueueConsistent, [Next]_vars PROVE QueueConsistent'
    OBVIOUS
  <2> USE QueueAssumption
  <2>0. /\ queue \in Seq(Writes) /\ phase \in [Writes -> Phases]
        /\ \A i \in 1 .. Len(queue) : queue[i] \in Writes
    BY DEF TypeOK
  <2>1. ASSUME NEW w \in Writes, FinalizeSent(w) \/ ResendSent(w)
        PROVE  QueueConsistent'
    <3>1. /\ queue' = Append(queue, w) /\ phase' = [phase EXCEPT ![w] = "queued"]
          /\ phase[w] \in {"body", "fallback"} /\ writing' = writing
      BY <2>1 DEF FinalizeSent, ResendSent, Send
    <3>2. \A i \in 1 .. Len(queue) : queue[i] # w
      BY <3>1 DEF QueueConsistent
    <3>3. /\ Len(queue') = Len(queue) + 1 /\ queue'[Len(queue) + 1] = w
          /\ \A i \in 1 .. Len(queue) : queue'[i] = queue[i]
      BY <2>0, <3>1
    <3>4. Len(queue) \in Nat
      BY <2>0
    <3>5. \A i \in 1 .. Len(queue') : i \in 1 .. Len(queue) \/ i = Len(queue) + 1
      BY <3>3, <3>4
    <3>6. \A i \in 1 .. Len(queue') : phase'[queue'[i]] = "queued"
      BY <2>0, <3>1, <3>2, <3>3, <3>5 DEF QueueConsistent
    <3>7. \A i, j \in 1 .. Len(queue') : i # j => queue'[i] # queue'[j]
      BY <3>2, <3>3, <3>5 DEF QueueConsistent
    <3>8. writing' # Nobody => phase'[writing'] = "writing"
      BY <2>0, <3>1 DEF QueueConsistent, TypeOK
    <3> QED
      BY <3>6, <3>7, <3>8 DEF QueueConsistent
  <2>2. ASSUME NEW w \in Writes,
               FinalizeFull(w) \/ FinalizeClosed(w) \/ Fallback(w) \/ ResendFailed(w)
        PROVE  QueueConsistent'
    <3>1. /\ UNCHANGED <<queue, writing>> /\ phase[w] \in {"body", "full", "fallback"}
          /\ \A q \in Writes \ {w} : phase'[q] = phase[q]
      BY <2>2 DEF FinalizeFull, FinalizeClosed, Fallback, ResendFailed, TypeOK
    <3>2. /\ \A i \in 1 .. Len(queue) : queue[i] # w
          /\ writing # w
      BY <3>1 DEF QueueConsistent
    <3> QED
      BY <2>0, <3>1, <3>2 DEF QueueConsistent, TypeOK
  <2>3. CASE Recv
    <3>1. /\ queue' = Tail(queue) /\ queue # <<>> /\ writing' = queue[1]
          /\ phase' = [phase EXCEPT ![queue[1]] = "writing"]
      BY <2>0, <2>3 DEF Recv
    <3>2. Len(queue) \in Nat \ {0} /\ queue[1] \in Writes
      BY <2>0, <3>1
    <3>3. /\ Len(queue') = Len(queue) - 1
          /\ \A i \in 1 .. Len(queue') : queue'[i] = queue[i + 1]
      BY <2>0, <3>1, <3>2
    <3>4. \A i \in 1 .. Len(queue') :
             i + 1 \in 1 .. Len(queue) /\ queue[i + 1] # queue[1]
      BY <3>2, <3>3 DEF QueueConsistent
    <3>5. \A i \in 1 .. Len(queue') : phase'[queue'[i]] = "queued"
      BY <2>0, <3>1, <3>3, <3>4 DEF QueueConsistent
    <3>6. \A i, j \in 1 .. Len(queue') : i # j => queue'[i] # queue'[j]
      BY <3>2, <3>3, <3>4 DEF QueueConsistent
    <3>7. phase'[writing'] = "writing"
      BY <2>0, <3>1, <3>2
    <3> QED
      BY <3>5, <3>6, <3>7 DEF QueueConsistent
  <2>4. CASE Inserted \/ InsertFailed
    <3>1. /\ queue' = queue /\ writing' = Nobody /\ phase[writing] = "writing"
          /\ \A q \in Writes \ {writing} : phase'[q] = phase[q]
      BY <2>4 DEF Inserted, InsertFailed, QueueConsistent, TypeOK
    <3>2. \A i \in 1 .. Len(queue) : queue[i] # writing
      BY <3>1 DEF QueueConsistent
    <3> QED
      BY <2>0, <3>1, <3>2 DEF QueueConsistent
  <2>5. CASE Stop
    BY <2>5 DEF Stop, QueueConsistent
  <2>6. CASE UNCHANGED vars
    BY <2>6 DEF vars, QueueConsistent
  <2> QED
    BY <2>1, <2>2, <2>3, <2>4, <2>5, <2>6 DEF Next, Writer, Finalize, EnqueueRest
<1> QED
  BY <1>1, <1>2, TypeCorrect, PTL DEF Spec

-----------------------------------------------------------------------------
(* Every write in step with its counters and its row *)

\* The state of one write.
Local(q) == <<kind[q], phase[q], capture[q], dropped[q], row[q], captures[q], drops[q]>>

\* A write nothing happens to stays in step.
LEMMA StillOK ==
  ASSUME NEW q \in Writes, WriteOK(q), Local(q)' = Local(q)
  PROVE  WriteOK(q)'
  BY DEF WriteOK, RowOf, Local

\* The steps of enqueue leave the other writes alone and keep this one in step.
LEMMA EnqueueOK ==
  ASSUME TypeOK, NEW w \in Writes, Finalize(w) \/ EnqueueRest(w), WriteOK(w)
  PROVE  WriteOK(w)' /\ \A q \in Writes \ {w} : Local(q)' = Local(q)
<1>0. drops[w] \in Nat
  BY DEF TypeOK
<1>1. CASE FinalizeSent(w) \/ ResendSent(w)
  BY <1>0, <1>1 DEF FinalizeSent, ResendSent, Send, WriteOK, RowOf, Local, TypeOK
<1>2. CASE FinalizeFull(w)
  BY <1>0, <1>2 DEF FinalizeFull, WriteOK, RowOf, Local, TypeOK
<1>3. CASE FinalizeClosed(w) \/ ResendFailed(w)
  <2>1. /\ phase'[w] = "lost" /\ drops'[w] = drops[w] + 1
        /\ phase[w] \in {"body", "fallback"}
        /\ UNCHANGED <<kind, capture, dropped, row, captures>>
        /\ \A q \in Writes \ {w} : phase'[q] = phase[q] /\ drops'[q] = drops[q]
    BY <1>3 DEF FinalizeClosed, ResendFailed, CountDrop, TypeOK
  <2> QED
    BY <1>0, <2>1 DEF WriteOK, RowOf, Local
<1>4. CASE Fallback(w)
  <2>1. /\ phase'[w] = "fallback" /\ ~capture'[w] /\ phase[w] = "full"
        /\ UNCHANGED <<kind, row, captures>>
        /\ drops'[w] = IF capture[w] THEN drops[w] + 1 ELSE drops[w]
        /\ \A q \in Writes \ {w} : /\ phase'[q] = phase[q] /\ drops'[q] = drops[q]
                                   /\ capture'[q] = capture[q] /\ dropped'[q] = dropped[q]
    BY <1>4 DEF Fallback, CountDrop, TypeOK
  <2> QED
    BY <1>0, <2>1 DEF WriteOK, RowOf, Local
<1> QED
  BY <1>1, <1>2, <1>3, <1>4 DEF Finalize, EnqueueRest

\* So do the steps of the writer task and the end of the process.
LEMMA WriterOK ==
  ASSUME TypeOK, QueueConsistent, Writer \/ Stop, NEW q \in Writes, WriteOK(q)
  PROVE  WriteOK(q)'
<1> USE QueueAssumption
<1>0. drops[q] \in Nat /\ captures[q] \in Nat /\ RowOf(q) # "none"
  BY RowOfType DEF TypeOK
<1>1. CASE Recv
  <2>1. /\ Head(queue) \in Writes /\ phase[Head(queue)] = "queued"
    BY <1>1 DEF Recv, QueueConsistent, TypeOK
  <2>2. /\ UNCHANGED <<kind, capture, dropped, row, captures, drops>>
        /\ phase' = [phase EXCEPT ![Head(queue)] = "writing"]
    BY <1>1 DEF Recv
  <2>3. phase'[q] = phase[q] \/ (phase[q] = "queued" /\ phase'[q] = "writing")
    BY <2>1, <2>2 DEF TypeOK
  <2> QED
    BY <1>0, <2>2, <2>3 DEF WriteOK, RowOf
<1>2. CASE Inserted
  <2>1. CASE q = writing
    <3>1. /\ phase[q] = "writing" /\ phase'[q] = "stored" /\ row'[q] = RowOf(q)
          /\ captures'[q] = IF capture[q] /\ ~dropped[q] THEN captures[q] + 1 ELSE captures[q]
          /\ UNCHANGED <<kind, capture, dropped, drops>>
      BY <1>2, <2>1 DEF Inserted, WroteCapture, QueueConsistent, TypeOK
    <3> QED
      BY <1>0, <3>1 DEF WriteOK, RowOf
  <2>2. CASE q # writing
    <3>1. Local(q)' = Local(q)
      BY <1>2, <2>2 DEF Inserted, Local, TypeOK
    <3> QED
      BY <3>1, StillOK
  <2> QED
    BY <2>1, <2>2
<1>3. CASE InsertFailed
  <2>1. CASE q = writing
    <3>1. /\ phase[q] = "writing" /\ phase'[q] = "failed"
          /\ row'[q] \in {"none", RowOf(q)} /\ drops'[q] = drops[q] + 1
          /\ UNCHANGED <<kind, capture, dropped, captures>>
      BY <1>3, <2>1 DEF InsertFailed, CountDrop, QueueConsistent, TypeOK
    <3> QED
      BY <1>0, <3>1 DEF WriteOK, RowOf
  <2>2. CASE q # writing
    <3>1. Local(q)' = Local(q)
      BY <1>3, <2>2 DEF InsertFailed, CountDrop, Local, TypeOK
    <3> QED
      BY <3>1, StillOK
  <2> QED
    BY <2>1, <2>2
<1>4. CASE Stop
  <2>1. /\ UNCHANGED <<kind, capture, dropped, captures, drops>>
        /\ phase'[q] = IF phase[q] \in {"queued", "writing"} THEN "gone" ELSE phase[q]
    BY <1>4 DEF Stop
  <2>2. row'[q] = row[q] \/ (phase[q] = "writing" /\ row'[q] = RowOf(q))
    BY <1>4 DEF Stop, QueueConsistent, TypeOK
  <2> QED
    BY <1>0, <2>1, <2>2 DEF WriteOK, RowOf
<1> QED
  BY <1>1, <1>2, <1>3, <1>4 DEF Writer

\* Every write is always in step with its counters and its row.
THEOREM WritesInStep == Spec => []WriteInv
<1>1. Init => WriteInv
  <2> SUFFICES ASSUME Init, NEW w \in Writes PROVE WriteOK(w)
    BY DEF WriteInv
  <2>1. /\ capture[w] <=> kind[w] = "capture"
        /\ dropped[w] <=> kind[w] = "rejected"
    BY DEF Init
  <2>2. phase[w] = "body" /\ drops[w] = 0 /\ captures[w] = 0 /\ row[w] = "none"
    BY DEF Init
  <2> QED
    BY <2>1, <2>2 DEF WriteOK
<1>2. TypeOK /\ QueueConsistent /\ WriteInv /\ [Next]_vars => WriteInv'
  <2> SUFFICES ASSUME TypeOK, QueueConsistent, WriteInv, [Next]_vars, NEW q \in Writes
               PROVE  WriteOK(q)'
    BY DEF WriteInv
  <2>0. \A w \in Writes : WriteOK(w)
    BY DEF WriteInv
  <2>1. ASSUME NEW w \in Writes, Finalize(w) \/ EnqueueRest(w) PROVE WriteOK(q)'
    <3>1. CASE q = w
      BY <2>0, <2>1, <3>1, EnqueueOK
    <3>2. CASE q # w
      BY <2>0, <2>1, <3>2, EnqueueOK, StillOK
    <3> QED
      BY <3>1, <3>2
  <2>2. CASE Writer \/ Stop
    BY <2>0, <2>2, WriterOK
  <2>3. CASE UNCHANGED vars
    <3>1. Local(q)' = Local(q)
      BY <2>3 DEF vars, Local
    <3> QED
      BY <2>0, <3>1, StillOK
  <2> QED
    BY <2>1, <2>2, <2>3 DEF Next
<1> QED
  BY <1>1, <1>2, TypeCorrect, QueueIsConsistent, PTL DEF Spec

\* No record and no body is dropped without being counted while the process
\* lives, and the capture counter claims no capture the store does not hold.
THEOREM DropsAreAccounted == Spec => [](DropsAccounted /\ CapturesTruthful)
<1>1. TypeOK /\ WriteInv => DropsAccounted /\ CapturesTruthful
  <2> SUFFICES ASSUME TypeOK, WriteInv, NEW w \in Writes
               PROVE  /\ phase[w] \in {"lost", "failed"} => drops[w] > 0
                      /\ kind[w] = "capture" /\ row[w] \in {"metadata", "dropped"}
                           => drops[w] > 0
                      /\ drops[w] <= 2
                      /\ captures[w] > 0 => row[w] = "capture"
                      /\ row[w] = "capture" => kind[w] = "capture" /\ ~dropped[w]
                      /\ phase[w] = "stored" /\ row[w] = "capture" => captures[w] = 1
    BY DEF DropsAccounted, CapturesTruthful
  <2>1. WriteOK(w)
    BY DEF WriteInv
  <2>2. row[w] = "capture" => capture[w]
    BY <2>1 DEF WriteOK, RowOf
  <2>3. row[w] \in {"metadata", "dropped"} => ~capture[w]
    BY <2>1 DEF WriteOK, RowOf
  <2>4. captures[w] > 0 => row[w] = "capture"
    BY <2>1 DEF WriteOK, RowOf
  <2> QED
    BY <2>1, <2>2, <2>3, <2>4 DEF WriteOK
<1> QED
  BY <1>1, TypeCorrect, WritesInStep, PTL

\* The part of it about what is stored: tracegate_captures_total counts only
\* captures that the store holds, and a row marked capture_dropped holds none.
THEOREM CapturesAreTruthful == Spec => []CapturesTruthful
<1>1. DropsAccounted /\ CapturesTruthful => CapturesTruthful
  OBVIOUS
<1> QED
  BY <1>1, DropsAreAccounted, PTL

-----------------------------------------------------------------------------
(* CaptureQueue implements RecordSink *)

\* A write that is not settled is open.
LEMMA OpenWrite ==
  ASSUME NEW w \in Writes, WriteOK(w),
         phase[w] \in {"body", "full", "fallback", "queued", "writing"}
  PROVE  w \in Sink!Open /\ row[w] = "none"
  BY DEF WriteOK, Stored, Lost, Sink!Open

\* Counting a drop of w adds w to the counted writes.
LEMMA CountedStep ==
  ASSUME drops \in [Writes -> Nat], NEW w \in Writes,
         drops' = [drops EXCEPT ![w] = @ + 1]
  PROVE  Counted' = Counted \cup {w}
  BY DEF Counted

\* A finalizer that gives up, or an insert that fails, loses the record and
\* counts it.
LEMMA LoseStep ==
  ASSUME TypeOK, NEW w \in Writes, WriteOK(w),
         phase[w] \in {"body", "full", "fallback", "queued", "writing"},
         drops' = [drops EXCEPT ![w] = @ + 1], row' = row, kind' = kind,
         stopped' = stopped, NEW p \in {"lost", "failed"},
         phase' = [phase EXCEPT ![w] = p]
  PROVE  Sink!Lose(w)
<1>1. w \in Sink!Open /\ row[w] = "none"
  BY OpenWrite
<1>2. Lost' = Lost \cup {w}
  BY <1>1 DEF Lost, TypeOK
<1>3. Counted' = Counted \cup {w}
  BY CountedStep DEF TypeOK
<1>4. Stored' = Stored /\ Whole' = Whole
  BY DEF Stored, Whole
<1> QED
  BY <1>1, <1>2, <1>3, <1>4 DEF Sink!Lose

\* An insert that reached the store stores the record, whole or counted.
LEMMA StoreStep ==
  ASSUME TypeOK, NEW w \in Writes, WriteOK(w), phase[w] = "writing", ~stopped,
         row' = [row EXCEPT ![w] = RowOf(w)], kind' = kind, stopped' = stopped,
         drops' = drops \/ drops' = [drops EXCEPT ![w] = @ + 1],
         NEW p \in {"stored", "failed"}, phase' = [phase EXCEPT ![w] = p]
  PROVE  Sink!Store(w)
<1>1. w \in Sink!Open /\ row[w] = "none" /\ RowOf(w) # "none"
  BY OpenWrite, RowOfType
<1>2. Stored' = Stored \cup {w} /\ Lost' = Lost
  BY <1>1 DEF Stored, Lost, TypeOK
<1>3. Whole' = Whole \cup {w} \/ (w \in Counted /\ Whole' = Whole)
  <2>1. CASE kind[w] = "capture" => RowOf(w) = "capture"
    <3>1. Whole' = Whole \cup {w}
      BY <1>1, <2>1 DEF Whole, Stored, TypeOK
    <3> QED
      BY <3>1
  <2>2. CASE kind[w] = "capture" /\ RowOf(w) # "capture"
    <3>1. w \in Counted
      BY <2>2 DEF WriteOK, RowOf, Counted
    <3>2. Whole' = Whole
      BY <1>1, <2>2 DEF Whole, Stored, TypeOK
    <3> QED
      BY <3>1, <3>2
  <2> QED
    BY <2>1, <2>2
<1>4. Counted' \in {Counted, Counted \cup {w}}
  <2>1. CASE drops' = drops
    BY <2>1 DEF Counted
  <2>2. CASE drops' = [drops EXCEPT ![w] = @ + 1]
    BY <2>2, CountedStep DEF TypeOK
  <2> QED
    BY <2>1, <2>2
<1> QED
  BY <1>1, <1>2, <1>3, <1>4 DEF Sink!Store

\* The end of the process loses what was queued, and what was being written
\* unless that was committed.
LEMMA StopStep ==
  ASSUME TypeOK, QueueConsistent, WriteInv, Stop
  PROVE  Sink!Stop
<1> USE QueueAssumption
<1> DEFINE InFlight == {w \in Writes : phase[w] \in {"queued", "writing"}}
           kept == {w \in Writes : w = writing /\ row'[w] # "none"}
           gone == InFlight \ kept
           complete == {w \in kept : kind[w] = "capture" => row'[w] = "capture"}
<1>1. /\ ~stopped /\ stopped' = TRUE
      /\ UNCHANGED <<kind, capture, dropped, captures, drops>>
      /\ \A w \in Writes : phase'[w] = IF w \in InFlight THEN "gone" ELSE phase[w]
  BY DEF Stop
<1>2. \A w \in Writes : row'[w] = row[w] \/ (w = writing /\ row'[w] = RowOf(w))
  BY DEF Stop, TypeOK
<1>3. kept \subseteq InFlight
  BY DEF QueueConsistent
<1>4. \A w \in InFlight : w \in Sink!Open /\ row[w] = "none"
  BY OpenWrite DEF WriteInv
<1>5. gone \in SUBSET Sink!Open /\ kept \in SUBSET Sink!Open
  BY <1>3, <1>4
<1>6. gone \cap kept = {} /\ complete \in SUBSET kept
  OBVIOUS
<1>7. \A w \in Writes : w \in kept \/ row'[w] = row[w]
  <2> TAKE w \in Writes
  <2>1. RowOf(w) # "none"
    BY RowOfType
  <2> QED
    BY <1>2, <2>1
<1>8. \A w \in kept : row'[w] # "none" /\ row[w] = "none" /\ w \in Writes
  BY <1>3, <1>4
<1>9. Lost' = Lost \cup gone
  <2>1. \A w \in Writes : w \in Lost' <=> w \in Lost \/ w \in gone
    <3> TAKE w \in Writes
    <3>1. CASE w \in kept
      BY <1>3, <1>8, <3>1 DEF Lost
    <3>2. CASE w \notin kept
      <4>1. row'[w] = row[w]
        BY <1>7, <3>2
      <4>2. CASE w \in InFlight
        <5>1. phase'[w] = "gone" /\ row[w] = "none"
          BY <1>1, <1>4, <4>2
        <5> QED
          BY <3>2, <4>1, <4>2, <5>1 DEF Lost
      <4>3. CASE w \notin InFlight
        <5>1. phase'[w] = phase[w]
          BY <1>1, <4>3
        <5> QED
          BY <4>1, <4>3, <5>1 DEF Lost
      <4> QED
        BY <4>2, <4>3
    <3> QED
      BY <3>1, <3>2
  <2>2. Lost' \subseteq Writes /\ Lost \subseteq Writes /\ gone \subseteq Writes
    BY DEF Lost
  <2> HIDE DEF gone
  <2> QED
    BY <2>1, <2>2
<1>10. Stored' = Stored \cup kept
  BY <1>7, <1>8 DEF Stored
<1>11. kept \ complete \subseteq Counted
  <2> SUFFICES ASSUME NEW w \in kept, kind[w] = "capture", row'[w] # "capture"
               PROVE  w \in Counted
    OBVIOUS
  <2>1. WriteOK(w) /\ row[w] = "none" /\ row'[w] # "none"
    BY <1>3, <1>4 DEF WriteInv
  <2>2. row'[w] = RowOf(w)
    BY <1>2, <2>1
  <2> QED
    BY <2>1, <2>2 DEF WriteOK, RowOf, Counted
<1>12. Whole' = Whole \cup complete
  BY <1>1, <1>2, <1>3, <1>4, <1>10 DEF Whole, Stored
<1>13. Counted' = Counted
  BY <1>1 DEF Counted
<1> HIDE DEF InFlight, kept, gone, complete
<1> QED
  BY <1>1, <1>5, <1>6, <1>9, <1>10, <1>11, <1>12, <1>13 DEF Sink!Stop

\* Every step of the capture path is a step of RecordSink or none.
LEMMA SinkStep ==
  ASSUME TypeOK, QueueConsistent, WriteInv, [Next]_vars
  PROVE  [Sink!Next]_(Sink!vars)
<1> USE QueueAssumption
<1>0. \A w \in Writes : WriteOK(w)
  BY DEF WriteInv
<1>1. ASSUME NEW w \in Writes, FinalizeSent(w) \/ FinalizeFull(w) \/ ResendSent(w)
      PROVE  UNCHANGED Sink!vars
  BY <1>1 DEF FinalizeSent, FinalizeFull, ResendSent, Send, Sink!vars, Stored,
              Whole, Lost, Counted, TypeOK
<1>2. ASSUME NEW w \in Writes, FinalizeClosed(w) \/ ResendFailed(w)
      PROVE  Sink!Lose(w)
  BY <1>0, <1>2, LoseStep DEF FinalizeClosed, ResendFailed, CountDrop
<1>3. ASSUME NEW w \in Writes, Fallback(w)
      PROVE  Sink!GiveUpBody(w) \/ UNCHANGED Sink!vars
  <2>1. /\ phase[w] = "full" /\ phase' = [phase EXCEPT ![w] = "fallback"]
        /\ UNCHANGED <<kind, row, stopped>>
    BY <1>3 DEF Fallback
  <2>2. w \in Sink!Open
    BY <1>0, <2>1, OpenWrite
  <2>3. Stored' = Stored /\ Whole' = Whole /\ Lost' = Lost
    BY <2>1 DEF Stored, Whole, Lost, TypeOK
  <2>4. CASE capture[w]
    <3>1. Counted' = Counted \cup {w}
      BY <1>3, <2>4, CountedStep DEF Fallback, CountDrop, TypeOK
    <3> QED
      BY <2>1, <2>2, <2>3, <3>1 DEF Sink!GiveUpBody
  <2>5. CASE ~capture[w]
    <3>1. Counted' = Counted
      BY <1>3, <2>5 DEF Fallback, Counted
    <3> QED
      BY <2>1, <2>3, <3>1 DEF Sink!vars
  <2> QED
    BY <2>4, <2>5
<1>4. CASE Recv
  <2>1. Head(queue) \in Writes /\ phase[Head(queue)] = "queued"
    BY <1>4 DEF Recv, QueueConsistent, TypeOK
  <2> QED
    BY <1>4, <2>1 DEF Recv, Sink!vars, Stored, Whole, Lost, Counted, TypeOK
<1>5. CASE Inserted
  <2>1. writing \in Writes /\ phase[writing] = "writing"
    BY <1>5 DEF Inserted, QueueConsistent, TypeOK
  <2>2. Sink!Store(writing)
    BY <1>0, <1>5, <2>1, StoreStep DEF Inserted
  <2> QED
    BY <2>1, <2>2 DEF Sink!Next
<1>6. CASE InsertFailed
  <2>1. writing \in Writes /\ phase[writing] = "writing"
    BY <1>6 DEF InsertFailed, QueueConsistent, TypeOK
  <2>2. CASE row' = [row EXCEPT ![writing] = "none"]
    <3>1. row[writing] = "none"
      BY <1>0, <2>1 DEF WriteOK
    <3>2. row' = row
      BY <2>1, <2>2, <3>1 DEF TypeOK
    <3>3. Sink!Lose(writing)
      BY <1>0, <1>6, <2>1, <3>2, LoseStep DEF InsertFailed, CountDrop
    <3> QED
      BY <2>1, <3>3 DEF Sink!Next
  <2>3. CASE row' = [row EXCEPT ![writing] = RowOf(writing)]
    <3>1. Sink!Store(writing)
      BY <1>0, <1>6, <2>1, <2>3, StoreStep DEF InsertFailed, CountDrop
    <3> QED
      BY <2>1, <3>1 DEF Sink!Next
  <2> QED
    BY <1>6, <2>2, <2>3 DEF InsertFailed
<1>7. CASE Stop
  BY <1>7, StopStep DEF Sink!Next
<1>8. CASE UNCHANGED vars
  BY <1>8 DEF vars, Sink!vars, Stored, Whole, Lost, Counted
<1> QED
  BY <1>1, <1>2, <1>3, <1>4, <1>5, <1>6, <1>7, <1>8
     DEF Next, Writer, Finalize, EnqueueRest, Sink!Next

\* The finalizers, the channel and the writer keep the promise of RecordSink:
\* stored, or counted, or lost with the process.
THEOREM QueueImplementsSink == Spec => SinkSpec
<1>1. Init => Sink!Init
  BY DEF Init, Sink!Init, Stored, Whole, Lost, Counted
<1> QED
  BY <1>1, SinkStep, TypeCorrect, QueueIsConsistent, WritesInStep, PTL
     DEF Spec, SinkSpec, Sink!Spec

-----------------------------------------------------------------------------
(* Where an unsettled record is, and in what order they are settled *)

\* How far each phase is from the end of the write.
PhaseRank ==
  [body |-> 5, full |-> 4, fallback |-> 3, queued |-> 2, writing |-> 1,
   stored |-> 0, failed |-> 0, lost |-> 0, gone |-> 0]

\* No record is in limbo: one that was sent is in the channel, once, or with the
\* writer, and when the receiver is gone nothing is in either.  So the writer
\* can go on while a record is not settled.
Placed ==
  /\ queue \in Seq(Writes) /\ Once(queue)
  /\ \A w \in Writes : phase[w] = "queued" <=> Has(queue, w)
  /\ \A w \in Writes : phase[w] = "writing" <=> writing = w
  /\ stopped => queue = <<>> /\ writing = Nobody

\* w is neither in the channel nor with the writer.
Outside(label) == label \notin {"queued", "writing"}

\* w goes on to a phase nearer to its end; the channel and the writer follow.
GoesOn(w, label) ==
  /\ phase' = [phase EXCEPT ![w] = label] /\ PhaseRank[label] < PhaseRank[phase[w]]
  /\ stopped' = stopped
  /\ \/ /\ UNCHANGED <<queue, writing>> /\ Outside(phase[w]) /\ Outside(label)
     \/ /\ ~stopped /\ Outside(phase[w]) /\ label = "queued"
        /\ queue' = Append(queue, w) /\ writing' = writing
     \/ /\ ~stopped /\ queue # <<>> /\ w = Head(queue) /\ label = "writing"
        /\ queue' = Tail(queue) /\ writing = Nobody /\ writing' = w
     \/ /\ ~stopped /\ writing = w /\ Outside(label)
        /\ queue' = queue /\ writing' = Nobody

\* Every step takes one write on, or none, or is the end of the writer.
LEMMA OneGoesOn ==
  ASSUME TypeOK, Placed, [Next]_vars
  PROVE  \/ UNCHANGED <<phase, queue, writing, stopped>>
         \/ Stop
         \/ \E w \in Writes, label \in Phases : GoesOn(w, label)
<1> USE DEF PhaseRank, Phases, Outside
<1>1. ASSUME NEW w \in Writes, FinalizeSent(w) \/ ResendSent(w) PROVE GoesOn(w, "queued")
  <2>1. /\ phase[w] \in {"body", "fallback"} /\ phase' = [phase EXCEPT ![w] = "queued"]
        /\ ~stopped /\ queue' = Append(queue, w) /\ UNCHANGED <<writing, stopped>>
    BY <1>1, Zenon DEF FinalizeSent, ResendSent, Send
  <2> QED
    BY <2>1 DEF GoesOn
<1>2. ASSUME NEW w \in Writes, FinalizeFull(w) \/ FinalizeClosed(w) \/ Fallback(w) \/ ResendFailed(w)
      PROVE  \E label \in Phases : GoesOn(w, label)
  <2>1. /\ UNCHANGED <<queue, writing, stopped>>
        /\ \/ phase[w] = "body" /\ phase' = [phase EXCEPT ![w] = "full"]
           \/ phase[w] = "full" /\ phase' = [phase EXCEPT ![w] = "fallback"]
           \/ phase[w] \in {"body", "fallback"} /\ phase' = [phase EXCEPT ![w] = "lost"]
    BY <1>2, Zenon DEF FinalizeFull, FinalizeClosed, Fallback, ResendFailed
  <2>2. /\ PhaseRank["full"] < PhaseRank["body"] /\ PhaseRank["fallback"] < PhaseRank["full"]
        /\ \A from \in {"body", "fallback"} : PhaseRank["lost"] < PhaseRank[from]
        /\ \A label \in {"body", "full", "fallback", "lost"} : Outside(label) /\ label \in Phases
    OBVIOUS
  <2> HIDE DEF PhaseRank, Phases, Outside
  <2> QED
    BY <2>1, <2>2, Zenon DEF GoesOn
<1>3. CASE Recv
  <2> DEFINE w == Head(queue)
  <2>1. /\ ~stopped /\ writing = Nobody /\ queue # <<>> /\ queue' = Tail(queue) /\ writing' = w
        /\ phase' = [phase EXCEPT ![w] = "writing"] /\ stopped' = stopped
    BY <1>3, Zenon DEF Recv
  <2>2. w \in Writes /\ Has(queue, w)
    BY <2>1, LineIsServed, Zenon DEF Placed
  <2> HIDE DEF w
  <2>3. phase[w] = "queued"
    BY <2>2, Zenon DEF Placed
  <2>4. GoesOn(w, "writing")
    BY <2>1, <2>3 DEF GoesOn, w
  <2> QED
    BY <2>2, <2>4
<1>4. CASE Inserted \/ InsertFailed
  <2>1. /\ ~stopped /\ writing \in Writes /\ writing' = Nobody /\ UNCHANGED <<queue, stopped>>
        /\ \E label \in {"stored", "failed"} : phase' = [phase EXCEPT ![writing] = label]
    BY <1>4, Zenon DEF Inserted, InsertFailed, TypeOK
  <2>2. phase[writing] = "writing"
    BY <2>1, Zenon DEF Placed
  <2>3. \A label \in {"stored", "failed"} :
          PhaseRank[label] < PhaseRank["writing"] /\ Outside(label) /\ label \in Phases
    OBVIOUS
  <2> HIDE DEF PhaseRank, Phases, Outside
  <2>4. \E label \in Phases : GoesOn(writing, label)
    BY <2>1, <2>2, <2>3, Zenon DEF GoesOn
  <2> QED
    BY <2>1, <2>4, Zenon
<1>5. CASE UNCHANGED vars
  BY <1>5, Zenon DEF vars
<1>6. "queued" \in Phases
  OBVIOUS
<1> HIDE DEF PhaseRank, Phases, Outside
<1> QED
  BY <1>1, <1>2, <1>3, <1>4, <1>5, <1>6, Zenon DEF Next, Writer, Finalize, EnqueueRest

\* What each step does to the place of a record and to the order of the channel.
LEMMA PlacedStep ==
  ASSUME TypeOK, Placed, [Next]_vars
  PROVE  /\ Placed'
         /\ \A w \in Writes :
              /\ phase'[w] = phase[w] \/ PhaseRank[phase'[w]] < PhaseRank[phase[w]]
              /\ phase[w] = "queued" /\ phase'[w] = "queued" =>
                   \A v \in Writes : Precedes(queue', v, w) => Precedes(queue, v, w)
<1>0. /\ phase \in [Writes -> Phases] /\ queue \in Seq(Writes) /\ Once(queue)
      /\ writing \in Writes \cup {Nobody} /\ Nobody \notin Writes
  BY QueueAssumption DEF TypeOK, Placed
<1> DEFINE Nearer(w) == phase'[w] = phase[w] \/ PhaseRank[phase'[w]] < PhaseRank[phase[w]]
           Kept(w) == phase[w] = "queued" /\ phase'[w] = "queued" =>
                        \A v \in Writes : Precedes(queue', v, w) => Precedes(queue, v, w)
           Good == Placed' /\ \A w \in Writes : Nearer(w) /\ Kept(w)
<1>1. CASE UNCHANGED <<phase, queue, writing, stopped>>
  BY <1>1, Zenon DEF Placed
<1>2. CASE Stop
  <2>1. /\ queue' = <<>> /\ writing' = Nobody
        /\ \A w \in Writes :
             phase'[w] = IF phase[w] \in {"queued", "writing"} THEN "gone" ELSE phase[w]
    BY <1>2 DEF Stop
  <2>2. queue' \in Seq(Writes) /\ DOMAIN queue' = {}
    BY <2>1
  <2>3. Placed'
    BY <1>0, <2>1, <2>2 DEF Placed, Once, Has
  <2>4. \A w \in Writes : Nearer(w) /\ Kept(w)
    BY <2>1 DEF PhaseRank
  <2> QED
    BY <2>3, <2>4
<1>3. ASSUME NEW w \in Writes, NEW label \in Phases, GoesOn(w, label) PROVE Good
  <2>1. /\ phase'[w] = label /\ PhaseRank[label] < PhaseRank[phase[w]] /\ stopped' = stopped
        /\ \A v \in Writes : v # w => phase'[v] = phase[v]
    BY <1>0, <1>3 DEF GoesOn
  <2>2. \A v \in Writes : Nearer(v)
    BY <2>1, Zenon
  <2>3. CASE UNCHANGED <<queue, writing>> /\ Outside(phase[w]) /\ Outside(label)
    <3>1. Placed'
      BY <2>1, <2>3, Zenon DEF Placed, Outside
    <3> QED
      BY <2>2, <2>3, <3>1, Zenon
  <2>4. CASE /\ ~stopped /\ Outside(phase[w]) /\ label = "queued"
             /\ queue' = Append(queue, w) /\ writing' = writing
    <3>1. ~Has(queue, w)
      BY <2>4, Zenon DEF Placed, Outside
    <3>2. /\ queue' \in Seq(Writes) /\ Once(queue')
          /\ \A g : Has(queue', g) <=> g = w \/ Has(queue, g)
          /\ \A g, k : k # w /\ Precedes(queue', g, k) => Precedes(queue, g, k)
      BY <1>0, <2>4, <3>1, LineGrows, Zenon
    <3>3. "queued" # "writing"
      OBVIOUS
    <3>4. Placed'
      BY <2>1, <2>4, <3>2, <3>3, Zenon DEF Placed, Outside
    <3>5. \A v \in Writes : Kept(v)
      BY <2>4, <3>2, Zenon DEF Outside
    <3> QED
      BY <2>2, <3>4, <3>5, Zenon
  <2>5. CASE /\ ~stopped /\ queue # <<>> /\ w = Head(queue) /\ label = "writing"
             /\ queue' = Tail(queue) /\ writing = Nobody /\ writing' = w
    <3>1. /\ queue' \in Seq(Writes) /\ Once(queue')
          /\ \A g : Has(queue', g) <=> g # w /\ Has(queue, g)
          /\ \A g, k : Precedes(queue', g, k) => Precedes(queue, g, k)
      BY <1>0, <2>5, LineIsServed, Zenon
    <3>2. "queued" # "writing"
      OBVIOUS
    <3>3. Placed'
      BY <1>0, <2>1, <2>5, <3>1, <3>2, Zenon DEF Placed
    <3> QED
      BY <2>2, <3>1, <3>3, Zenon
  <2>6. CASE /\ ~stopped /\ writing = w /\ Outside(label)
             /\ queue' = queue /\ writing' = Nobody
    <3>1. phase[w] = "writing" /\ "writing" # "queued"
      BY <2>6 DEF Placed
    <3>2. Placed'
      BY <1>0, <2>1, <2>6, <3>1, Zenon DEF Placed, Outside
    <3> QED
      BY <2>2, <2>6, <3>2, Zenon
  <2> QED
    BY <1>3, <2>3, <2>4, <2>5, <2>6, Zenon DEF GoesOn
<1>4. Good
  BY <1>1, <1>2, <1>3, OneGoesOn, Zenon
<1> QED
  BY <1>4, Zenon

\* A record only ever comes nearer to being settled, a settled one stays as it
\* is, and the writer takes the records in the order in which they were sent:
\* none gets before one that is already in the channel.
Settling ==
  /\ []Placed
  /\ [][\A w \in Writes :
         /\ phase'[w] = phase[w] \/ PhaseRank[phase'[w]] < PhaseRank[phase[w]]
         /\ phase[w] = "queued" /\ phase'[w] = "queued" =>
              \A v \in Writes : Precedes(queue', v, w) => Precedes(queue, v, w)]_vars
THEOREM RecordsAreNotStranded == Spec => Settling
<1>1. Init => Placed
  <2> SUFFICES ASSUME Init PROVE Placed
    OBVIOUS
  <2>1. queue = <<>> /\ writing = Nobody /\ \A w \in Writes : phase[w] = "body"
    BY DEF Init
  <2>2. queue \in Seq(Writes) /\ DOMAIN queue = {}
    BY <2>1
  <2> QED
    BY <2>1, <2>2, QueueAssumption DEF Placed, Once, Has
<1>2. TypeOK /\ Placed /\ [Next]_vars =>
        /\ Placed'
        /\ \A w \in Writes :
             /\ phase'[w] = phase[w] \/ PhaseRank[phase'[w]] < PhaseRank[phase[w]]
             /\ phase[w] = "queued" /\ phase'[w] = "queued" =>
                  \A v \in Writes : Precedes(queue', v, w) => Precedes(queue, v, w)
  BY PlacedStep, Zenon
<1> QED
  BY <1>1, <1>2, TypeCorrect, PTL DEF Spec, Settling
=============================================================================
