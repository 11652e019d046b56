---------------------------- MODULE BodyCapture ----------------------------
(***************************************************************************)
(* The bodies of one proxied request (crates/tracegate-proxy/src/lib.rs):  *)
(* the policy preview taken off the front of the request body, the rest    *)
(* forwarded behind it, both bodies recorded as they pass (CapturingBody   *)
(* over CaptureBuffer), and the snapshot that is stored when the response  *)
(* body is finished.                                                       *)
(*                                                                         *)
(* The request body goes on while the response is already coming back:     *)
(* hyper polls the two independently.  A byte is its position in its body, *)
(* a frame a run of positions; a hash is the bytes it covers.  The         *)
(* operators named Mutant... are plausible slips in the code, each caught  *)
(* by a property below.                                                    *)
(***************************************************************************)
EXTENDS Integers, Sequences, SequencesExt

CONSTANTS
  Sizes,          \* sizes of a frame
  MaxBytes,       \* bound on the length of a body
  PreviewLimit,   \* policy.max_body_preview_bytes of the route
  RequestLimit,   \* storage.max_capture_bytes_per_request
  ResponseLimit   \* capture_response_body_bytes of the route

ASSUME BodyAssumption ==
  /\ Sizes \subseteq Nat
  /\ {MaxBytes, PreviewLimit, RequestLimit, ResponseLimit} \subseteq Nat

VARIABLES
  pc,         \* where the handler is
  pulled,     \* frames taken off the client's connection
  upload,     \* the request body: "open", "ended" or "dropped"
  preview,    \* bytes shown to the plugins
  prefix,     \* frames of the preview that are still to be forwarded
  forwarded,  \* frames passed on to the upstream
  request,    \* request_capture
  early,      \* the response came before the request body was through
  download,   \* bytes of the response passed on to the client
  response,   \* response_capture
  stored      \* the snapshots given to the capture writer

vars == <<pc, pulled, upload, preview, prefix, forwarded, request, early, download,
          response, stored>>
incoming == <<preview, prefix>>
outgoing == <<early, download, response, stored>>

PCs == {"preview", "select", "dispatch", "respond", "end"}

-----------------------------------------------------------------------------
(* CaptureBuffer *)

Buffer(enabled, limit) ==
  [enabled |-> enabled, limit |-> limit, body |-> <<>>, truncated |-> FALSE,
   sawBody |-> FALSE, hashed |-> <<>>]

\* record(chunk)
MutantRecorded(b, chunk) ==
  LET room == b.limit - Len(b.body) IN
  IF ~b.enabled \/ room <= 0
  THEN b
  ELSE [b EXCEPT !.sawBody = TRUE,
                 !.hashed = @ \o chunk,
                 !.body = @ \o SubSeq(chunk, 1, IF room < Len(chunk) THEN room ELSE Len(chunk)),
                 !.truncated = @ \/ room < Len(chunk)]
Recorded(b, chunk) ==
  LET room == b.limit - Len(b.body) IN
  IF ~b.enabled
  THEN b
  ELSE [b EXCEPT !.sawBody = TRUE,
                 !.hashed = @ \o chunk,
                 !.body = @ \o SubSeq(chunk, 1, IF room < Len(chunk) THEN room ELSE Len(chunk)),
                 !.truncated = @ \/ room < Len(chunk)]

\* snapshot(): nothing of a body that was not captured or had no frame
NoBody == [some |-> FALSE, body |-> <<>>, truncated |-> FALSE, hashed |-> <<>>]
Snapshot(b) ==
  IF b.enabled /\ b.sawBody
  THEN [some |-> TRUE, body |-> b.body, truncated |-> b.truncated, hashed |-> b.hashed]
  ELSE NoBody

-----------------------------------------------------------------------------
Init ==
  /\ pc = "preview"
  /\ pulled = <<>> /\ upload = "open"
  /\ preview = <<>> /\ prefix = <<>>
  /\ forwarded = <<>> /\ request = Buffer(FALSE, 0)
  /\ early = FALSE /\ download = <<>> /\ response = Buffer(FALSE, 0)
  /\ stored = [request |-> NoBody, response |-> NoBody]

\* The next n bytes of a body of which len have been seen.
Chunk(len, n) == [i \in 1 .. n |-> len + i]

\* The client's next frame.
Pull(frame) ==
  /\ upload = "open"
  /\ \E n \in Sizes :
       /\ Len(FlattenSeq(pulled)) + n <= MaxBytes /\ Len(pulled) < MaxBytes
       /\ frame = Chunk(Len(FlattenSeq(pulled)), n)
  /\ pulled' = Append(pulled, frame)

Frames == UNION {{Chunk(len, n) : len \in 0 .. MaxBytes} : n \in Sizes}

-----------------------------------------------------------------------------
(* split_body_preview *)

MutantPrefixAfter(frame) ==
  Append(prefix, SubSeq(frame, 1, IF PreviewLimit - Len(preview) < Len(frame)
                                  THEN PreviewLimit - Len(preview) ELSE Len(frame)))
PrefixAfter(frame) == Append(prefix, frame)

PreviewAfter(frame) ==
  LET room == PreviewLimit - Len(preview)
  IN  preview \o SubSeq(frame, 1, IF room < Len(frame) THEN room ELSE Len(frame))

ReadPreview ==
  /\ pc = "preview" /\ Len(preview) < PreviewLimit
  /\ \E frame \in Frames :
       /\ Pull(frame)
       /\ preview' = PreviewAfter(frame)
       /\ prefix' = PrefixAfter(frame)
  /\ UNCHANGED <<pc, upload, forwarded, request, outgoing>>

\* The body is over before the limit, or the limit is reached (at once when
\* no plugin of the route asks for a preview).
PreviewDone ==
  /\ pc = "preview"
  /\ \/ upload = "open" /\ upload' = "ended" /\ Len(preview) < PreviewLimit
     \/ Len(preview) >= PreviewLimit /\ UNCHANGED upload
  /\ pc' = "select"
  /\ UNCHANGED <<pulled, incoming, forwarded, request, outgoing>>

\* The body fails, or the plugins deny the request: 403 without captures.
PreviewFailed ==
  /\ pc \in {"preview", "select"}
  /\ pc' = "end" /\ upload' = "dropped"
  /\ UNCHANGED <<pulled, incoming, forwarded, request, outgoing>>

-----------------------------------------------------------------------------
(* Dispatch *)

\* A request that may be retried (GET, HEAD or OPTIONS that announces no body)
\* is sent with an empty body; over HTTP/2 it may have had one.
Dispatch ==
  /\ pc = "select"
  /\ \E enabled \in BOOLEAN : request' = Buffer(enabled, RequestLimit)
  /\ \/ UNCHANGED upload
     \/ upload' = "dropped"
  /\ pc' = "dispatch"
  /\ UNCHANGED <<pulled, incoming, forwarded, outgoing>>

\* hyper polls the request body: PrefixBody gives the frames of the preview
\* first, and CapturingBody records what it gives.
Forward ==
  /\ pc \in {"dispatch", "respond"} /\ upload # "dropped"
  /\ \E frame \in Frames :
       /\ IF prefix # <<>>
          THEN frame = Head(prefix) /\ prefix' = Tail(prefix) /\ UNCHANGED pulled
          ELSE Pull(frame) /\ UNCHANGED prefix
       /\ forwarded' = Append(forwarded, frame)
       /\ request' = Recorded(request, frame)
  /\ UNCHANGED <<pc, upload, preview, outgoing>>

\* The request body is over, fails, or is dropped with the connection to the
\* upstream.
UploadEnds ==
  /\ pc \in {"dispatch", "respond"}
  /\ \/ upload = "open" /\ prefix = <<>> /\ upload' = "ended"
     \/ (upload = "open" \/ prefix # <<>>) /\ upload' = "dropped"
  /\ UNCHANGED <<pc, pulled, incoming, forwarded, request, outgoing>>

\* The head of the response, or the answer that stands for a failed attempt.
\* The response gets what the request body has left of the limit by now.
MutantResponseRoom == ResponseLimit
ResponseRoom ==
  LET left == IF Len(request.body) < RequestLimit THEN RequestLimit - Len(request.body) ELSE 0
  IN  IF left < ResponseLimit THEN left ELSE ResponseLimit

Respond ==
  /\ pc = "dispatch"
  /\ \/ response' = Buffer(TRUE, ResponseRoom) /\ ResponseLimit > 0
     \/ response' = Buffer(FALSE, 0)
  /\ early' = (upload = "open" \/ prefix # <<>>)
  /\ pc' = "respond"
  /\ UNCHANGED <<pulled, upload, incoming, forwarded, request, download, stored>>

Download ==
  /\ pc = "respond"
  /\ \E n \in Sizes :
       LET chunk == Chunk(Len(download), n) IN
       /\ Len(download) + n <= MaxBytes
       /\ download' = download \o chunk
       /\ response' = Recorded(response, chunk)
  /\ UNCHANGED <<pc, pulled, upload, incoming, forwarded, request, early, stored>>

\* CaptureFinalizer::finalize, when the response body is over, fails or is
\* dropped; whether there is a capture at all was decided with the response.
Finalize ==
  /\ pc = "respond"
  /\ \/ stored' = [request |-> Snapshot(request), response |-> Snapshot(response)]
     \/ ~response.enabled /\ UNCHANGED stored
  /\ pc' = "end"
  /\ UNCHANGED <<pulled, upload, incoming, forwarded, request, early, download, response>>

Next ==
  \/ ReadPreview \/ PreviewDone \/ PreviewFailed
  \/ Dispatch \/ Forward \/ UploadEnds
  \/ Respond \/ Download \/ Finalize

Spec == Init /\ [][Next]_vars

-----------------------------------------------------------------------------
(* Properties *)

\* The preview costs the upstream nothing: the frames forwarded and those still
\* in PrefixBody are the frames the client sent, each once and in order; when the
\* upload breaks off, what was forwarded is a beginning of it.
FramesKept ==
  IF upload = "dropped" THEN IsPrefix(forwarded, pulled) ELSE forwarded \o prefix = pulled

\* The frames are kept, and the plugins see the beginning of the body, all of it
\* up to the limit of split_body_preview.
NothingLost ==
  /\ FramesKept
  /\ IsPrefix(preview, FlattenSeq(pulled))
  /\ Len(preview) <= PreviewLimit
  /\ pc = "dispatch" /\ forwarded = <<>> =>
       Len(preview) = Len(FlattenSeq(pulled)) \/ Len(preview) = PreviewLimit

\* A stored body says what it is: the beginning of what passed, with the hash
\* of all of what passed, and marked truncated exactly when some is missing.
SnapshotTruthful ==
  \A s \in {[kept |-> stored.request, passed |-> FlattenSeq(forwarded)],
            [kept |-> stored.response, passed |-> download]} :
    s.kept.some =>
      /\ s.kept.hashed = s.passed
      /\ IsPrefix(s.kept.body, s.passed)
      /\ s.kept.truncated <=> s.kept.body # s.passed

\* Neither buffer grows past its limit, and when the request body was through
\* before the response came, both stored bodies together stay within
\* max_capture_bytes_per_request.
BudgetKept ==
  /\ Len(request.body) <= request.limit /\ Len(response.body) <= response.limit
  /\ ~early => Len(stored.request.body) + Len(stored.response.body) <= RequestLimit

\* PLAN.md:512, "Body capture is bounded by route and global caps": both stored
\* bodies together, whatever the order in which the bodies pass.
CaptureBounded ==
  Len(stored.request.body) + Len(stored.response.body) <= RequestLimit
=============================================================================
