---------------------------- MODULE CaptureQueue ----------------------------
(***************************************************************************)
(* The way of a finished request's record into the store: the finalizer    *)
(* of the response body, CaptureWriter::enqueue with its metadata-only     *)
(* fallback, the bounded channel and the writer task                       *)
(* (crates/tracegate-proxy/src/lib.rs).                                    *)
(*                                                                         *)
(* Finalizers run on the connection tasks, so another finalizer or the     *)
(* writer may get between the two try_send calls of one enqueue.  The      *)
(* store behind insert_request either commits the whole record or rolls    *)
(* it back; the answer to a commit may be lost.  The operators named       *)
(* Mutant... are plausible slips in the code, each caught by a property.   *)
(***************************************************************************)
EXTENDS Integers, Sequences

CONSTANTS
  Writes,    \* the finished requests, each with one CaptureWrite
  Capacity,  \* storage.capture_queue_capacity
  Nobody     \* the writer task holds no write

ASSUME QueueAssumption ==
  /\ Capacity \in Nat \ {0}
  /\ Nobody \notin Writes

VARIABLES
  kind,      \* what the CaptureWrite starts as
  phase,     \* where the write is
  capture,   \* write.capture.is_some()
  dropped,   \* write.record.capture_dropped
  queue,     \* the mpsc channel
  writing,   \* the write the writer task is inserting
  row,       \* what the store holds of the request
  captures,  \* record_capture() calls for the write
  drops,     \* record_capture_dropped() calls for the write
  stopped    \* the runtime is being dropped: the receiver is gone

vars == <<kind, phase, capture, dropped, queue, writing, row, captures, drops,
          stopped>>

\* A capture is attached when should_capture; the gateway's own 503s are
\* marked capture_dropped from the start and never carry one.
Kinds == {"capture", "metadata", "rejected"}
Phases == {"body", "full", "fallback", "queued", "writing", "stored", "failed",
           "lost", "gone"}
Rows == {"none", "capture", "metadata", "dropped"}

Init ==
  /\ kind \in [Writes -> Kinds]
  /\ phase = [w \in Writes |-> "body"]
  /\ capture = [w \in Writes |-> kind[w] = "capture"]
  /\ dropped = [w \in Writes |-> kind[w] = "rejected"]
  /\ queue = <<>>
  /\ writing = Nobody
  /\ row = [w \in Writes |-> "none"]
  /\ captures = [w \in Writes |-> 0]
  /\ drops = [w \in Writes |-> 0]
  /\ stopped = FALSE

\* record_capture_dropped
CountDrop(w) == drops' = [drops EXCEPT ![w] = @ + 1]

-----------------------------------------------------------------------------
(* CaptureFinalizer::finalize and CaptureWriter::enqueue *)

\* Room in the channel.
MutantHasRoom == TRUE
HasRoom == Len(queue) < Capacity

\* try_send puts the write in the channel.
Send(w) ==
  /\ phase' = [phase EXCEPT ![w] = "queued"]
  /\ queue' = Append(queue, w)

\* The response body ended or was dropped: the first try_send.
FinalizeSent(w) ==
  /\ phase[w] = "body"
  /\ ~stopped /\ HasRoom
  /\ Send(w)
  /\ UNCHANGED <<kind, capture, dropped, writing, row, captures, drops, stopped>>

FinalizeFull(w) ==
  /\ phase[w] = "body"
  /\ ~stopped /\ ~HasRoom
  /\ phase' = [phase EXCEPT ![w] = "full"]
  /\ UNCHANGED <<kind, capture, dropped, queue, writing, row, captures, drops,
                 stopped>>

FinalizeClosed(w) ==
  /\ phase[w] = "body"
  /\ stopped
  /\ phase' = [phase EXCEPT ![w] = "lost"]
  /\ CountDrop(w)
  /\ UNCHANGED <<kind, capture, dropped, queue, writing, row, captures, stopped>>

\* metadata_only_capture_fallback
MutantUncountedFallback(w) ==
  /\ phase[w] = "full"
  /\ phase' = [phase EXCEPT ![w] = "fallback"]
  /\ capture' = [capture EXCEPT ![w] = FALSE]
  /\ dropped' = [dropped EXCEPT ![w] = TRUE]
  /\ UNCHANGED <<kind, queue, writing, row, captures, drops, stopped>>
Fallback(w) ==
  /\ phase[w] = "full"
  /\ phase' = [phase EXCEPT ![w] = "fallback"]
  /\ capture' = [capture EXCEPT ![w] = FALSE]
  /\ dropped' = [dropped EXCEPT ![w] = TRUE]
  /\ IF capture[w] THEN CountDrop(w) ELSE UNCHANGED drops
  /\ UNCHANGED <<kind, queue, writing, row, captures, stopped>>

\* The second try_send, for which the writer may have made room meanwhile ...
ResendSent(w) ==
  /\ phase[w] = "fallback"
  /\ ~stopped /\ HasRoom
  /\ Send(w)
  /\ UNCHANGED <<kind, capture, dropped, writing, row, captures, drops, stopped>>

\* ... or not: the record is dropped.
MutantResendWaits(w) ==
  /\ phase[w] = "fallback"
  /\ stopped
  /\ phase' = [phase EXCEPT ![w] = "lost"]
  /\ CountDrop(w)
  /\ UNCHANGED <<kind, capture, dropped, queue, writing, row, captures, stopped>>
ResendFailed(w) ==
  /\ phase[w] = "fallback"
  /\ stopped \/ ~HasRoom
  /\ phase' = [phase EXCEPT ![w] = "lost"]
  /\ CountDrop(w)
  /\ UNCHANGED <<kind, capture, dropped, queue, writing, row, captures, stopped>>

-----------------------------------------------------------------------------
(* The writer task *)

\* receiver.recv()
Recv ==
  /\ ~stopped /\ writing = Nobody
  /\ queue # <<>>
  /\ writing' = Head(queue)
  /\ queue' = Tail(queue)
  /\ phase' = [phase EXCEPT ![Head(queue)] = "writing"]
  /\ UNCHANGED <<kind, capture, dropped, row, captures, drops, stopped>>

\* The row insert_request leaves behind for the write.
RowOf(w) ==
  IF capture[w] THEN "capture" ELSE IF dropped[w] THEN "dropped" ELSE "metadata"

\* wrote_capture of the writer loop.
MutantWroteCapture(w) == ~dropped[w]
WroteCapture(w) == capture[w] /\ ~dropped[w]

\* insert_request returns Ok.
Inserted ==
  /\ ~stopped /\ writing # Nobody
  /\ phase' = [phase EXCEPT ![writing] = "stored"]
  /\ row' = [row EXCEPT ![writing] = RowOf(writing)]
  /\ captures' = [captures EXCEPT ![writing] = IF WroteCapture(writing) THEN @ + 1 ELSE @]
  /\ writing' = Nobody
  /\ UNCHANGED <<kind, capture, dropped, queue, drops, stopped>>

\* A write whose insert failed is put back for another try.
MutantInsertRetries ==
  /\ ~stopped /\ writing # Nobody
  /\ queue' = Append(queue, writing)
  /\ phase' = [phase EXCEPT ![writing] = "queued"]
  /\ writing' = Nobody
  /\ UNCHANGED <<kind, capture, dropped, row, captures, drops, stopped>>

\* insert_request returns Err: rolled back, or committed with the answer lost.
InsertFailed ==
  /\ ~stopped /\ writing # Nobody
  /\ phase' = [phase EXCEPT ![writing] = "failed"]
  /\ \E new \in {"none", RowOf(writing)} : row' = [row EXCEPT ![writing] = new]
  /\ CountDrop(writing)
  /\ writing' = Nobody
  /\ UNCHANGED <<kind, capture, dropped, queue, captures, stopped>>

\* The server function has returned and the runtime drops the writer task,
\* with the channel and the insert it awaits.
Stop ==
  /\ ~stopped /\ stopped' = TRUE
  /\ queue' = <<>> /\ writing' = Nobody
  /\ phase' = [w \in Writes |->
                 IF phase[w] \in {"queued", "writing"} THEN "gone" ELSE phase[w]]
  /\ row' = row \/ (writing # Nobody /\ row' = [row EXCEPT ![writing] = RowOf(writing)])
  /\ UNCHANGED <<kind, capture, dropped, captures, drops>>

-----------------------------------------------------------------------------
\* The response body comes to its end, which is up to the peers.
Finalize(w) == FinalizeSent(w) \/ FinalizeFull(w) \/ FinalizeClosed(w)

\* The rest of enqueue, on the thread that began it.
EnqueueRest(w) == Fallback(w) \/ ResendSent(w) \/ ResendFailed(w)

Writer == Recv \/ Inserted \/ InsertFailed

Next == Stop \/ Writer \/ \E w \in Writes : Finalize(w) \/ EnqueueRest(w)

Spec == Init /\ [][Next]_vars

\* enqueue runs without an await; nothing is assumed of the store.
EnqueueSpec == Spec /\ \A w \in Writes : WF_vars(EnqueueRest(w))

\* The database answers every insert, with a result or an error.
StoreAnswers == WF_vars(Writer)

-----------------------------------------------------------------------------
(* Properties *)

\* Type invariant, with the bound of the channel.
TypeOK ==
  /\ kind \in [Writes -> Kinds]
  /\ phase \in [Writes -> Phases]
  /\ capture \in [Writes -> BOOLEAN]
  /\ dropped \in [Writes -> BOOLEAN]
  /\ queue \in Seq(Writes) /\ Len(queue) <= Capacity
  /\ writing \in Writes \cup {Nobody}
  /\ row \in [Writes -> Rows]
  /\ captures \in [Writes -> Nat]
  /\ drops \in [Writes -> Nat]
  /\ stopped \in BOOLEAN

\* A write is in the channel, or with the writer, at most once and only while
\* it is neither settled nor still with its finalizer.
QueueConsistent ==
  /\ \A i \in 1 .. Len(queue) : phase[queue[i]] = "queued"
  /\ \A i, j \in 1 .. Len(queue) : i # j => queue[i] # queue[j]
  /\ writing # Nobody => phase[writing] = "writing"

\* README.md:35, drop accounting under backpressure: as long as the process
\* lives, a record that is not stored, or stored without the body it had, was
\* counted in tracegate_capture_dropped_total, once or twice but not more.
DropsAccounted ==
  \A w \in Writes :
    /\ phase[w] \in {"lost", "failed"} => drops[w] > 0
    /\ kind[w] = "capture" /\ row[w] \in {"metadata", "dropped"} => drops[w] > 0
    /\ drops[w] <= 2

\* tracegate_captures_total never claims a capture the store does not hold, and
\* a row marked capture_dropped holds none.
CapturesTruthful ==
  \A w \in Writes :
    /\ captures[w] > 0 => row[w] = "capture"
    /\ row[w] = "capture" => kind[w] = "capture" /\ ~dropped[w]
    /\ phase[w] = "stored" /\ row[w] = "capture" => captures[w] = 1

\* What has been done to a write by the time it is in each phase: the
\* inductive strengthening of the two invariants above.
WriteOK(w) ==
  /\ capture[w] => kind[w] = "capture" /\ ~dropped[w]
  /\ kind[w] = "capture" /\ ~capture[w] => drops[w] > 0
  /\ phase[w] \in {"body", "full"} => drops[w] = 0
  /\ phase[w] \in {"fallback", "queued", "writing"} => drops[w] <= 1
  /\ phase[w] \in {"lost", "failed"} => drops[w] > 0
  /\ drops[w] <= 2
  /\ row[w] = "none" \/ row[w] = RowOf(w)
  /\ phase[w] \notin {"stored", "failed", "gone"} => row[w] = "none"
  /\ phase[w] = "stored" => row[w] = RowOf(w)
  /\ captures[w] = IF phase[w] = "stored" /\ capture[w] THEN 1 ELSE 0

\* Every write is in step with its counters and its row.
WriteInv == \A w \in Writes : WriteOK(w)

\* The refinement mapping to RecordSink.
Stored == {w \in Writes : row[w] # "none"}
Whole == {w \in Stored : kind[w] = "capture" => row[w] = "capture"}
Lost == {w \in Writes : row[w] = "none" /\ phase[w] \in {"failed", "lost", "gone"}}
Counted == {w \in Writes : drops[w] > 0}
Sink == INSTANCE RecordSink WITH
          stored <- Stored, whole <- Whole, lost <- Lost, counted <- Counted

\* The capture path keeps the promise of RecordSink.
SinkSpec == Sink!Spec

\* PLAN.md:508, "Recording failure does not break proxy traffic": a finalizer
\* gets through enqueue whatever the queue, the writer and the store do.
EnqueueEnds ==
  \A w \in Writes : phase[w] \in {"full", "fallback"} ~>
                      phase[w] \notin {"full", "fallback"}

\* With a store that answers, the record of every finished response is
\* settled: stored, counted as dropped, or lost with the process.
RecordsSettle ==
  StoreAnswers => \A w \in Writes : phase[w] # "body" ~>
                      phase[w] \in {"stored", "failed", "lost", "gone"}
=============================================================================
