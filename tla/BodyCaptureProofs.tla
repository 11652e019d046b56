------------------------- MODULE BodyCaptureProofs --------------------------
(***************************************************************************)
(* Proofs about the capture of bodies (module BodyCapture), for frames and *)
(* bodies of any length and any limits.                                    *)
(*                                                                         *)
(* The limit of the response is fixed when its head comes, from what the   *)
(* request has taken by then; the argument is that a request body that was *)
(* through takes no more.  What is said of single bytes rests on FlattenSeq *)
(* taking one more frame: the concatenation grows by that frame.           *)
(***************************************************************************)
EXTENDS BodyCapture, SequenceTheorems, DataLemmas, TLAPS

Bytes == Seq(Int)

Buffers == [enabled : BOOLEAN, limit : Nat, body : Bytes, truncated : BOOLEAN,
            sawBody : BOOLEAN, hashed : Bytes]

\* A buffer within its limit.
Fits(b) == b \in Buffers /\ Len(b.body) <= b.limit

\* A new buffer is empty.
LEMMA NewFits ==
  ASSUME NEW enabled \in BOOLEAN, NEW limit \in Nat
  PROVE  /\ Fits(Buffer(enabled, limit))
         /\ Buffer(enabled, limit).limit = limit /\ Len(Buffer(enabled, limit).body) = 0
BY DEF Fits, Buffers, Buffer, Bytes

\* CaptureBuffer::record never takes more than there is room for.
LEMMA RecordedFits ==
  ASSUME NEW b, Fits(b), NEW chunk \in Bytes
  PROVE  Fits(Recorded(b, chunk)) /\ Recorded(b, chunk).limit = b.limit
<1> DEFINE room == b.limit - Len(b.body)
           n == IF room < Len(chunk) THEN room ELSE Len(chunk)
<1>1. /\ b \in Buffers /\ b.body \in Bytes /\ b.hashed \in Bytes /\ b.limit \in Nat
      /\ Len(b.body) \in Nat /\ Len(b.body) <= b.limit
      /\ b.enabled \in BOOLEAN /\ b.truncated \in BOOLEAN
  BY DEF Fits, Buffers, Bytes
<1>2. n \in 0 .. Len(chunk) /\ n <= room
  BY <1>1 DEF Bytes
<1>3. SubSeq(chunk, 1, n) \in Bytes /\ Len(SubSeq(chunk, 1, n)) = n
  BY <1>2 DEF Bytes
<1>4. /\ b.body \o SubSeq(chunk, 1, n) \in Bytes
      /\ Len(b.body \o SubSeq(chunk, 1, n)) = Len(b.body) + n
      /\ b.hashed \o chunk \in Bytes
  BY <1>1, <1>3 DEF Bytes
<1>5. CASE ~b.enabled
  BY <1>1, <1>5 DEF Recorded, Fits
<1>6. CASE b.enabled
  <2> DEFINE full == b.truncated \/ room < Len(chunk)
  <2>1. Recorded(b, chunk) = [b EXCEPT !.sawBody = TRUE, !.hashed = b.hashed \o chunk,
                                       !.body = b.body \o SubSeq(chunk, 1, n),
                                       !.truncated = full]
    BY <1>6 DEF Recorded
  <2>2. full \in BOOLEAN
    OBVIOUS
  <2> HIDE DEF full, n, room
  <2>3. /\ Recorded(b, chunk) \in Buffers /\ Recorded(b, chunk).limit = b.limit
        /\ Recorded(b, chunk).body = b.body \o SubSeq(chunk, 1, n)
    BY <1>1, <1>4, <2>1, <2>2, Zenon DEF Buffers
  <2>4. Len(b.body) + n <= b.limit
    BY <1>1, <1>2 DEF n, room
  <2> QED BY <1>4, <2>3, <2>4, Zenon DEF Fits
<1> QED BY <1>1, <1>5, <1>6

Taken == <<Len(stored.request.body), Len(stored.response.body)>>

Budget ==
  /\ Fits(request) /\ request.limit <= RequestLimit
  /\ Fits(response) /\ download \in Bytes
  /\ pc \in {"preview", "select", "dispatch"} => early = FALSE
  /\ pc # "end" => Taken = <<0, 0>>
  /\ Taken \in Nat \X Nat
  /\ ~early => Taken[1] + Taken[2] <= RequestLimit
  /\ pc = "respond" /\ ~early =>
       /\ upload # "open" /\ prefix = <<>>
       /\ Len(request.body) + response.limit <= RequestLimit
\* A frame is a sequence of bytes.
LEMMA FrameIsBytes ==
  ASSUME NEW len \in Nat, NEW n \in Nat
  PROVE  Chunk(len, n) \in Bytes /\ Len(Chunk(len, n)) = n
BY DEF Chunk, Bytes

\* So are all that a body may consist of.
LEMMA FramesAreBytes ==
  ASSUME NEW frame \in Frames
  PROVE  frame \in Bytes
<1>1. PICK n \in Sizes : frame \in {Chunk(len, n) : len \in 0 .. MaxBytes}
  BY DEF Frames
<1>2. PICK len \in 0 .. MaxBytes : frame = Chunk(len, n)
  BY <1>1
<1>3. len \in Nat /\ n \in Nat
  BY BodyAssumption
<1> QED BY <1>2, <1>3, FrameIsBytes

-----------------------------------------------------------------------------
(* The limits *)

\* Nothing is captured before the request is dispatched.
LEMMA BudgetInit == Init => Budget
<1> SUFFICES ASSUME Init PROVE Budget
  OBVIOUS
<1>1. Fits(Buffer(FALSE, 0)) /\ Buffer(FALSE, 0).limit = 0
  BY NewFits, Zenon
<1>2. Taken = <<0, 0>>
  BY DEF Init, Taken, NoBody
<1>3. RequestLimit \in Nat /\ 0 <= RequestLimit
  BY BodyAssumption
<1>4. Taken \in Nat \X Nat /\ Taken[1] + Taken[2] = 0
  BY <1>2
<1>5. download \in Bytes
  BY DEF Init, Bytes
<1>6. pc = "preview" /\ early = FALSE /\ request = Buffer(FALSE, 0) /\ response = Buffer(FALSE, 0)
  BY DEF Init
<1> QED BY <1>1, <1>2, <1>3, <1>4, <1>5, <1>6, Zenon DEF Budget

\* The room left for the response is at most what the request has not taken.
LEMMA RoomIsLeft ==
  ASSUME Fits(request), request.limit <= RequestLimit
  PROVE  ResponseRoom \in Nat /\ Len(request.body) + ResponseRoom <= RequestLimit
<1>1. /\ RequestLimit \in Nat /\ ResponseLimit \in Nat /\ request.limit \in Nat
      /\ Len(request.body) \in Nat /\ Len(request.body) <= request.limit
  BY BodyAssumption DEF Fits, Buffers, Bytes
<1>2. Len(request.body) <= RequestLimit
  BY <1>1
<1> DEFINE used == Len(request.body)
           left == IF used < RequestLimit THEN RequestLimit - used ELSE 0
<1>3. ResponseRoom = IF left < ResponseLimit THEN left ELSE ResponseLimit
  BY DEF ResponseRoom
<1>4. used \in Nat /\ used <= RequestLimit /\ RequestLimit \in Nat
  BY <1>1, <1>2
<1> HIDE DEF used
<1>5. left \in Nat /\ used + left <= RequestLimit
  BY <1>4
<1> HIDE DEF left
<1>6. ResponseRoom \in Nat /\ ResponseRoom <= left
  BY <1>1, <1>3, <1>5
<1>7. used + ResponseRoom <= RequestLimit
  BY <1>4, <1>5, <1>6
<1> QED BY <1>6, <1>7 DEF used

\* What a snapshot keeps is in the buffer.
LEMMA SnapshotFits ==
  ASSUME NEW b, Fits(b)
  PROVE  Len(Snapshot(b).body) \in Nat /\ Len(Snapshot(b).body) <= Len(b.body)
<1>1. Len(b.body) \in Nat
  BY DEF Fits, Buffers, Bytes
<1>2. Snapshot(b).body = b.body \/ Snapshot(b).body = <<>>
  BY DEF Snapshot, NoBody
<1>3. Len(<<>>) = 0
  OBVIOUS
<1> QED BY <1>1, <1>2, <1>3

\* Every step keeps the limits.
LEMMA BudgetStep ==
  ASSUME Budget, [Next]_vars
  PROVE  Budget'
<1>0. RequestLimit \in Nat /\ Fits(request) /\ Fits(response) /\ request.limit <= RequestLimit
  BY BodyAssumption DEF Budget
<1>1. CASE ReadPreview \/ PreviewDone \/ PreviewFailed
  <2>1. /\ pc' \in {"preview", "select", "end"} /\ pc \in {"preview", "select"}
        /\ UNCHANGED <<request, response, early, download, stored>>
    BY <1>1 DEF ReadPreview, PreviewDone, PreviewFailed, outgoing
  <2> QED BY <2>1, Zenon DEF Budget, Taken, Fits
<1>2. CASE Dispatch
  <2>1. PICK enabled \in BOOLEAN : request' = Buffer(enabled, RequestLimit)
    BY <1>2 DEF Dispatch
  <2>2. Fits(request)' /\ request'.limit <= RequestLimit
    BY <1>0, <2>1, NewFits DEF Fits
  <2>3. pc = "select" /\ pc' = "dispatch" /\ UNCHANGED <<response, early, download, stored>>
    BY <1>2 DEF Dispatch, outgoing
  <2> QED BY <2>2, <2>3, Zenon DEF Budget, Taken, Fits
<1>3. CASE Forward
  <2>1. PICK frame \in Frames :
          /\ prefix # <<>> \/ upload = "open"
          /\ request' = Recorded(request, frame)
    BY <1>3 DEF Forward, Pull
  <2>2. frame \in Bytes
    BY FramesAreBytes
  <2>3. Fits(request)' /\ request'.limit <= RequestLimit
    BY <1>0, <2>1, <2>2, RecordedFits DEF Fits
  <2>4. /\ pc \in {"dispatch", "respond"} /\ pc' = pc
        /\ UNCHANGED <<response, early, download, stored>>
    BY <1>3 DEF Forward, outgoing
  <2>5. ~(pc = "respond" /\ ~early)
    BY <2>1 DEF Budget
  <2> QED BY <2>3, <2>4, <2>5, Zenon DEF Budget, Taken, Fits
<1>4. CASE UploadEnds
  <2>1. /\ upload' # "open" /\ UNCHANGED <<pc, prefix, request, response, early, download, stored>>
    BY <1>4 DEF UploadEnds, incoming, outgoing
  <2> QED BY <2>1, Zenon DEF Budget, Taken, Fits
<1>5. CASE Respond
  <2>1. Fits(response)' /\ Len(request.body) + response'.limit <= RequestLimit
    <3>1. ResponseRoom \in Nat /\ Len(request.body) + ResponseRoom <= RequestLimit
      BY <1>0, RoomIsLeft
    <3>2. CASE response' = Buffer(TRUE, ResponseRoom)
      BY <3>1, <3>2, NewFits, Zenon DEF Fits
    <3>3. CASE response' = Buffer(FALSE, 0)
      <4>1. Fits(response)' /\ response'.limit = 0
        BY <3>3, NewFits, Zenon DEF Fits
      <4>2. Len(request.body) \in Nat
        BY <1>0 DEF Fits, Buffers, Bytes
      <4> QED BY <1>0, <3>1, <4>1, <4>2
    <3> QED BY <1>5, <3>2, <3>3, Zenon DEF Respond
  <2>2. /\ pc = "dispatch" /\ pc' = "respond"
        /\ early' = (upload = "open" \/ prefix # <<>>)
        /\ UNCHANGED <<upload, prefix, request, download, stored>>
    BY <1>5 DEF Respond, incoming
  <2>3. Taken = <<0, 0>> /\ Taken' = Taken
    BY <2>2 DEF Budget, Taken
  <2> QED BY <1>0, <2>1, <2>2, <2>3, Zenon DEF Budget, Fits
<1>6. CASE Download
  <2>1. PICK n \in Sizes : response' = Recorded(response, Chunk(Len(download), n))
    BY <1>6 DEF Download
  <2>2. Chunk(Len(download), n) \in Bytes
    BY BodyAssumption, FrameIsBytes DEF Budget, Bytes
  <2>3. Fits(response)' /\ response'.limit = response.limit
    BY <1>0, <2>1, <2>2, RecordedFits DEF Fits
  <2>4. download' \in Bytes
    <3>1. PICK m \in Sizes : download' = download \o Chunk(Len(download), m)
      BY <1>6 DEF Download
    <3>2. Chunk(Len(download), m) \in Bytes
      BY BodyAssumption, FrameIsBytes DEF Budget, Bytes
    <3> QED BY <3>1, <3>2 DEF Budget, Bytes
  <2>5. pc = "respond" /\ UNCHANGED <<pc, upload, prefix, request, early, stored>>
    BY <1>6 DEF Download, incoming
  <2> QED BY <2>3, <2>4, <2>5, Zenon DEF Budget, Taken, Fits
<1>7. CASE Finalize
  <2>1. /\ pc = "respond" /\ pc' = "end"
        /\ UNCHANGED <<upload, prefix, request, early, download, response>>
        /\ \/ stored' = [request |-> Snapshot(request), response |-> Snapshot(response)]
           \/ stored' = stored
    BY <1>7 DEF Finalize, incoming
  <2>2. Taken = <<0, 0>>
    BY <2>1 DEF Budget
  <2>3. /\ Taken' \in Nat \X Nat
        /\ Taken'[1] <= Len(request.body) /\ Taken'[2] <= Len(response.body)
    <3>1. Len(request.body) \in Nat /\ Len(response.body) \in Nat
      BY <1>0 DEF Fits, Buffers, Bytes
    <3>2. CASE stored' = stored
      <4>1. Taken' = <<0, 0>>
        BY <2>2, <3>2 DEF Taken
      <4> QED BY <3>1, <4>1
    <3>3. CASE stored' = [request |-> Snapshot(request), response |-> Snapshot(response)]
      <4>1. Taken' = <<Len(Snapshot(request).body), Len(Snapshot(response).body)>>
        BY <3>3 DEF Taken
      <4> QED BY <1>0, <4>1, SnapshotFits
    <3> QED BY <2>1, <3>2, <3>3
  <2>4. ~early => Taken'[1] + Taken'[2] <= RequestLimit
    <3>1. /\ Len(request.body) \in Nat /\ Len(response.body) \in Nat /\ response.limit \in Nat
          /\ Len(response.body) <= response.limit
      BY <1>0 DEF Fits, Buffers, Bytes
    <3>2. ~early => Len(request.body) + response.limit <= RequestLimit
      BY <2>1 DEF Budget
    <3>3. Taken'[1] \in Nat /\ Taken'[2] \in Nat
      BY <2>3
    <3> QED BY <1>0, <2>3, <3>1, <3>2, <3>3
  <2> QED BY <1>0, <2>1, <2>3, <2>4 DEF Budget, Fits
<1>8. CASE UNCHANGED vars
  BY <1>8, Zenon DEF vars, Budget, Taken, Fits
<1> QED BY <1>1, <1>2, <1>3, <1>4, <1>5, <1>6, <1>7, <1>8 DEF Next

\* Whatever the frames, the limits and the order in which the two bodies pass:
\* no buffer grows past its limit, and a request body that was through before
\* the response leaves both within max_capture_bytes_per_request (BudgetKept).
THEOREM BudgetIsKept == Spec => []BudgetKept
<1>1. Budget => BudgetKept
  BY Zenon DEF Budget, BudgetKept, Fits, Taken
<1> QED BY <1>1, BudgetInit, BudgetStep, PTL DEF Spec

-----------------------------------------------------------------------------
(* The frames *)

Order ==
  /\ pulled \in Seq(Bytes) /\ prefix \in Seq(Bytes) /\ forwarded \in Seq(Bytes)
  /\ pc \in {"preview", "select"} => forwarded = <<>>
  /\ FramesKept

\* What comes first is a beginning of the whole.
LEMMA FirstPart ==
  ASSUME NEW s \in Seq(Bytes), NEW t \in Seq(Bytes)
  PROVE  IsPrefix(s, s \o t)
BY DEF IsPrefix

\* Every step keeps the order of the frames.
LEMMA OrderStep ==
  ASSUME Order, [Next]_vars
  PROVE  Order'
<1>0. IsPrefix(forwarded, pulled)
  BY FirstPart, Zenon DEF Order, FramesKept
<1>1. CASE ReadPreview
  <2>1. PICK frame \in Frames : /\ pulled' = Append(pulled, frame)
                                /\ prefix' = Append(prefix, frame)
                                /\ upload = "open"
    BY <1>1 DEF ReadPreview, Pull, PrefixAfter
  <2>2. frame \in Bytes
    BY FramesAreBytes
  <2>3. UNCHANGED <<pc, upload, forwarded>>
    BY <1>1 DEF ReadPreview
  <2>4. forwarded \o prefix = pulled
    BY <2>1 DEF Order, FramesKept
  <2>5. /\ forwarded \o Append(prefix, frame) = Append(forwarded \o prefix, frame)
        /\ Append(prefix, frame) \in Seq(Bytes) /\ Append(pulled, frame) \in Seq(Bytes)
    BY <2>2 DEF Order, FramesKept
  <2> QED BY <2>1, <2>3, <2>4, <2>5 DEF Order, FramesKept
<1>2. CASE Forward
  <2>1. PICK frame \in Frames :
          /\ \/ prefix # <<>> /\ frame = Head(prefix) /\ prefix' = Tail(prefix) /\ pulled' = pulled
             \/ prefix = <<>> /\ pulled' = Append(pulled, frame) /\ prefix' = prefix
          /\ forwarded' = Append(forwarded, frame)
    BY <1>2 DEF Forward, Pull
  <2>2. frame \in Bytes
    BY FramesAreBytes
  <2>3. pc \in {"dispatch", "respond"} /\ upload # "dropped" /\ UNCHANGED <<pc, upload>>
    BY <1>2 DEF Forward
  <2>4. forwarded \o prefix = pulled
    BY <2>3 DEF Order, FramesKept
  <2>5. CASE prefix # <<>>
    <3>1. /\ frame = Head(prefix) /\ prefix' = Tail(prefix) /\ pulled' = pulled
      BY <2>1, <2>5
    <3>2. Append(forwarded, Head(prefix)) \o Tail(prefix) = forwarded \o prefix
      BY <2>5, SMTT(20) DEF Order, FramesKept
    <3>3. Tail(prefix) \in Seq(Bytes) /\ Append(forwarded, frame) \in Seq(Bytes)
      BY <2>2, <2>5 DEF Order, FramesKept
    <3> QED BY <2>1, <2>3, <2>4, <3>1, <3>2, <3>3 DEF Order, FramesKept
  <2>6. CASE prefix = <<>>
    <3>1. pulled' = Append(pulled, frame) /\ prefix' = <<>>
      BY <2>1, <2>6
    <3>2. forwarded = pulled
      BY <2>4, <2>6 DEF Order, FramesKept
    <3>3. /\ Append(forwarded, frame) \in Seq(Bytes)
          /\ Append(forwarded, frame) \o <<>> = Append(forwarded, frame)
      BY <2>2 DEF Order, FramesKept
    <3>4. <<>> \in Seq(Bytes)
      OBVIOUS
    <3> QED BY <2>1, <2>3, <3>1, <3>2, <3>3, <3>4 DEF Order, FramesKept
  <2> QED BY <2>5, <2>6
<1>3. CASE PreviewDone \/ PreviewFailed \/ Dispatch \/ UploadEnds
  <2>1. /\ UNCHANGED <<pulled, prefix, forwarded>>
        /\ upload' = "dropped" \/ (upload # "dropped" /\ upload' # "dropped") \/ upload' = upload
        /\ pc' \in {"preview", "select"} => pc \in {"preview", "select"}
    BY <1>3 DEF PreviewDone, PreviewFailed, Dispatch, UploadEnds, incoming
  <2> QED BY <1>0, <2>1 DEF Order, FramesKept
<1>4. CASE Respond \/ Download \/ Finalize \/ UNCHANGED vars
  <2>1. /\ UNCHANGED <<pulled, prefix, forwarded, upload>>
        /\ pc' \in {"preview", "select"} => pc \in {"preview", "select"}
    BY <1>4, Zenon DEF Respond, Download, Finalize, incoming, vars
  <2> QED BY <2>1 DEF Order, FramesKept
<1> QED BY <1>1, <1>2, <1>3, <1>4 DEF Next

\* The preview costs the upstream nothing: for frames of any number and size,
\* those forwarded and those kept back by split_body_preview are the client's,
\* each once and in order (FramesKept, the first part of NothingLost).
THEOREM FramesAreKept == Spec => []FramesKept
<1>1. Init => Order
  BY DEF Init, Order, FramesKept
<1>2. Order => FramesKept
  BY DEF Order
<1> QED BY <1>1, <1>2, OrderStep, PTL DEF Spec

-----------------------------------------------------------------------------
(* FlattenSeq *)

\* The sums of the first sequences, which the definition of FlattenSeq names.
Flattens(f, s) == f = [i \in 1 .. Len(s) |-> IF i = 1 THEN s[i] ELSE f[i - 1] \o s[i]]

\* The recursion is well founded: there is such a function.
LEMMA FlattenExists ==
  ASSUME NEW S, NEW s \in Seq(Seq(S))
  PROVE  \E f : Flattens(f, s)
<1> DEFINE part(f, n) == f = [i \in 1 .. n |-> IF i = 1 THEN s[i] ELSE f[i - 1] \o s[i]]
           T == {n \in Nat : \E f : part(f, n)}
<1>1. 0 \in T
  <2>1. part([i \in 1 .. 0 |-> s[i]], 0)
    OBVIOUS
  <2> QED
    BY <2>1, Zenon
<1>2. ASSUME NEW n \in Nat, n \in T PROVE n + 1 \in T
  <2>1. PICK f : part(f, n)
    BY <1>2, Zenon
  <2> DEFINE g == [i \in 1 .. n + 1 |-> IF i = 1 THEN s[i] ELSE f[i - 1] \o s[i]]
             h == [i \in 1 .. n + 1 |-> IF i = 1 THEN s[i] ELSE g[i - 1] \o s[i]]
  <2>2. \A i \in 1 .. n : f[i] = IF i = 1 THEN s[i] ELSE f[i - 1] \o s[i]
    BY <2>1, Zenon
  <2> HIDE DEF part
  <2>3. \A i \in 1 .. n : g[i] = f[i]
    BY <2>2
  <2>4. \A i \in 1 .. n + 1 : i # 1 => g[i - 1] = f[i - 1]
    <3>1. \A i \in 1 .. n + 1 : i # 1 => i - 1 \in 1 .. n
      OBVIOUS
    <3> HIDE DEF g
    <3> QED
      BY <2>3, <3>1
  <2>5. g = h
    <3>1. \A i \in 1 .. n + 1 : g[i] = IF i = 1 THEN s[i] ELSE f[i - 1] \o s[i]
      OBVIOUS
    <3>2. \A i \in 1 .. n + 1 : h[i] = IF i = 1 THEN s[i] ELSE g[i - 1] \o s[i]
      BY Zenon
    <3>3. g = [i \in 1 .. n + 1 |-> g[i]] /\ h = [i \in 1 .. n + 1 |-> h[i]]
      OBVIOUS
    <3> HIDE DEF g, h
    <3>4. \A i \in 1 .. n + 1 : g[i] = h[i]
      BY <2>4, <3>1, <3>2
    <3> QED
      BY <3>3, <3>4
  <2>6. part(g, n + 1)
    BY <2>5, Zenon DEF part
  <2> HIDE DEF g
  <2>7. \E k : part(k, n + 1)
    BY <2>6
  <2> QED
    BY <2>7
<1> HIDE DEF T
<1>3. \A n \in Nat : n \in T
  BY <1>1, <1>2, Induction, SMTT(20)
<1>4. Len(s) \in T
  BY <1>3
<1> QED
  BY <1>4, Zenon DEF T, Flattens

\* How the concatenation of frames goes on from one frame to the next.
LEMMA FlattensStep ==
  ASSUME NEW f, NEW s, Flattens(f, s)
  PROVE  \A i \in 1 .. Len(s) : f[i] = IF i = 1 THEN s[i] ELSE f[i - 1] \o s[i]
BY Zenon DEF Flattens

\* What a function of this kind gives is determined step by step.
LEMMA FlattenUnique ==
  ASSUME NEW S, NEW s \in Seq(Seq(S)), NEW f, Flattens(f, s),
         NEW t \in Seq(Seq(S)), NEW g, Flattens(g, t),
         NEW m \in Nat, m <= Len(s), m <= Len(t), \A i \in 1 .. m : s[i] = t[i]
  PROVE  \A i \in 1 .. m : f[i] = g[i] /\ f[i] \in Seq(S)
<1> DEFINE T == {n \in Nat : n # 0 /\ n <= m => f[n] = g[n] /\ f[n] \in Seq(S)}
<1>1. 0 \in T
  OBVIOUS
<1>2. ASSUME NEW n \in Nat, n \in T PROVE n + 1 \in T
  <2> SUFFICES ASSUME n + 1 <= m PROVE f[n + 1] = g[n + 1] /\ f[n + 1] \in Seq(S)
    OBVIOUS
  <2> DEFINE k == n + 1
  <2>1. k \in 1 .. m /\ k \in 1 .. Len(s) /\ k \in 1 .. Len(t) /\ k - 1 = n /\ (k = 1 <=> n = 0)
    OBVIOUS
  <2> HIDE DEF k
  <2>2. s[k] = t[k] /\ s[k] \in Seq(S)
    BY <2>1
  <2>3. /\ f[k] = IF k = 1 THEN s[k] ELSE f[k - 1] \o s[k]
        /\ g[k] = IF k = 1 THEN t[k] ELSE g[k - 1] \o t[k]
    BY <2>1, FlattensStep, Zenon
  <2>4. CASE n = 0
    <3>1. f[k] = g[k] /\ f[k] \in Seq(S)
      BY <2>1, <2>2, <2>3, <2>4, Zenon
    <3> QED
      BY <3>1, Zenon DEF k
  <2>5. CASE n # 0
    <3>1. f[n] = g[n] /\ f[n] \in Seq(S)
      BY <1>2, <2>5
    <3>2. f[k] = f[n] \o s[k] /\ g[k] = f[k]
      BY <2>1, <2>2, <2>3, <2>5, <3>1, Zenon
    <3>3. f[k] \in Seq(S)
      BY <2>2, <3>1, <3>2
    <3> QED
      BY <3>2, <3>3, Zenon DEF k
  <2> QED
    BY <2>4, <2>5
<1> HIDE DEF T
<1>3. \A n \in Nat : n \in T
  BY <1>1, <1>2, Induction, Zenon
<1> QED
  BY <1>3 DEF T

\* What FlattenSeq gives is the last of these sums.
LEMMA FlattenIsLast ==
  ASSUME NEW S, NEW s \in Seq(Seq(S))
  PROVE  /\ s = <<>> => FlattenSeq(s) = <<>>
         /\ s # <<>> => \E f : Flattens(f, s) /\ FlattenSeq(s) = f[Len(s)]
<1> DEFINE f == CHOOSE f : Flattens(f, s)
<1>1. FlattenSeq(s) = IF Len(s) = 0 THEN s ELSE f[Len(s)]
  BY DEF FlattenSeq, Flattens
<1>2. Flattens(f, s)
  BY FlattenExists
<1> HIDE DEF f
<1> QED
  BY <1>1, <1>2

\* FlattenSeq of one sequence more.
LEMMA FlattenAppend ==
  ASSUME NEW S, NEW s \in Seq(Seq(S)), NEW x \in Seq(S)
  PROVE  /\ FlattenSeq(s) \in Seq(S)
         /\ FlattenSeq(Append(s, x)) = FlattenSeq(s) \o x
<1> DEFINE t == Append(s, x)
<1>1. /\ t \in Seq(Seq(S)) /\ t # <<>> /\ Len(t) = Len(s) + 1 /\ Len(s) \in Nat
      /\ t[Len(s) + 1] = x /\ \A i \in 1 .. Len(s) : t[i] = s[i]
  <2>1. t \in Seq(Seq(S)) /\ Len(t) = Len(s) + 1 /\ Len(s) \in Nat
    OBVIOUS
  <2>2. t[Len(s) + 1] = x
    OBVIOUS
  <2>3. \A i \in 1 .. Len(s) : t[i] = s[i]
    OBVIOUS
  <2>4. Len(<<>>) = 0
    OBVIOUS
  <2> HIDE DEF t
  <2>5. t # <<>>
    BY <2>1, <2>4
  <2> QED
    BY <2>1, <2>2, <2>3, <2>5
<1> HIDE DEF t
<1>2. PICK g : Flattens(g, t) /\ FlattenSeq(t) = g[Len(s) + 1]
  BY <1>1, FlattenIsLast
<1>3. g[Len(s) + 1] = IF Len(s) + 1 = 1 THEN x ELSE g[Len(s) + 1 - 1] \o x
  BY <1>1, <1>2, FlattensStep
<1>4. CASE s = <<>>
  <2>1. Len(s) + 1 = 1
    BY <1>4
  <2>2. FlattenSeq(t) = x
    BY <1>2, <1>3, <2>1
  <2>3. FlattenSeq(s) = <<>>
    BY <1>4, FlattenIsLast, Zenon
  <2>4. <<>> \in Seq(S) /\ <<>> \o x = x
    OBVIOUS
  <2> QED
    BY <2>2, <2>3, <2>4 DEF t
<1>5. CASE s # <<>>
  <2>1. PICK f : Flattens(f, s) /\ FlattenSeq(s) = f[Len(s)]
    BY <1>5, FlattenIsLast
  <2>2. Len(s) \in 1 .. Len(s) /\ Len(s) + 1 # 1 /\ Len(s) + 1 - 1 = Len(s)
    BY <1>5
  <2>3. \A i \in 1 .. Len(s) : f[i] = g[i] /\ f[i] \in Seq(S)
    <3>1. Len(s) <= Len(s) /\ Len(s) <= Len(t) /\ Len(s) \in Nat /\ \A i \in 1 .. Len(s) : s[i] = t[i]
      BY <1>1
    <3>2. Flattens(f, s) /\ Flattens(g, t) /\ t \in Seq(Seq(S))
      BY <1>1, <1>2, <2>1
    <3> QED
      BY <3>1, <3>2, FlattenUnique, Zenon
  <2>4. f[Len(s)] \in Seq(S) /\ FlattenSeq(t) = FlattenSeq(s) \o x
    BY <1>2, <1>3, <2>1, <2>2, <2>3, Zenon
  <2> QED
    BY <2>1, <2>4 DEF t
<1> QED
  BY <1>4, <1>5

-----------------------------------------------------------------------------
(* Beginnings of a body *)

\* What to show for one sequence to be a beginning of another.
LEMMA PrefixIf ==
  ASSUME NEW s \in Seq(Int), NEW t \in Seq(Int), Len(s) <= Len(t),
         \A i \in 1 .. Len(s) : s[i] = t[i]
  PROVE  IsPrefix(s, t)
<1>1. /\ SubSeq(s, 1, Len(s)) \in Seq(Int) /\ Len(SubSeq(s, 1, Len(s))) = Len(s)
      /\ \A i \in 1 .. Len(s) : SubSeq(s, 1, Len(s))[i] = s[i]
  OBVIOUS
<1>2. /\ SubSeq(t, 1, Len(s)) \in Seq(Int) /\ Len(SubSeq(t, 1, Len(s))) = Len(s)
      /\ \A i \in 1 .. Len(s) : SubSeq(t, 1, Len(s))[i] = t[i]
  OBVIOUS
<1>3. SubSeq(s, 1, Len(s)) = SubSeq(t, 1, Len(s))
  BY <1>1, <1>2
<1> QED
  BY <1>3 DEF IsPrefix

\* A beginning of the full length is all of it.
LEMMA FullPrefix ==
  ASSUME NEW s \in Bytes, NEW t \in Bytes, IsPrefix(s, t), Len(s) = Len(t)
  PROVE  s = t
BY SMTT(20) DEF Bytes, IsPrefix

\* What two sequences one after the other are.
LEMMA Joined ==
  ASSUME NEW s \in Seq(Int), NEW c \in Seq(Int)
  PROVE  /\ s \o c \in Seq(Int) /\ Len(s \o c) = Len(s) + Len(c)
         /\ \A i \in 1 .. Len(s) : (s \o c)[i] = s[i]
         /\ \A i \in Len(s) + 1 .. Len(s) + Len(c) : (s \o c)[i] = c[i - Len(s)]
OBVIOUS

\* What comes first is a beginning, and the whole only if nothing is left out.
LEMMA PartIsPrefix ==
  ASSUME NEW s \in Bytes, NEW c \in Bytes, NEW k \in 0 .. Len(c)
  PROVE  /\ IsPrefix(s \o SubSeq(c, 1, k), s \o c)
         /\ Len(s \o SubSeq(c, 1, k)) = Len(s) + k
         /\ s \o SubSeq(c, 1, k) = s \o c <=> k = Len(c)
<1> DEFINE p == SubSeq(c, 1, k)
           a == s \o p
           d == s \o c
<1>0. s \in Seq(Int) /\ c \in Seq(Int) /\ Len(s) \in Nat /\ Len(c) \in Nat /\ k \in Nat /\ k <= Len(c)
  BY DEF Bytes
<1>1. p \in Seq(Int) /\ Len(p) = k /\ \A i \in 1 .. k : p[i] = c[i]
  BY <1>0
<1>2. k = Len(c) => p = c
  BY <1>0
<1> HIDE DEF p
<1>3. /\ a \in Seq(Int) /\ Len(a) = Len(s) + k /\ \A i \in 1 .. Len(s) : a[i] = s[i]
      /\ \A i \in Len(s) + 1 .. Len(s) + k : a[i] = p[i - Len(s)]
  BY <1>0, <1>1, Joined, Zenon
<1>4. /\ d \in Seq(Int) /\ Len(d) = Len(s) + Len(c) /\ \A i \in 1 .. Len(s) : d[i] = s[i]
      /\ \A i \in Len(s) + 1 .. Len(s) + Len(c) : d[i] = c[i - Len(s)]
  BY <1>0, Joined
<1>5. k = Len(c) => a = d
  BY <1>2
<1> HIDE DEF a, d
<1>6. Len(a) <= Len(d) /\ \A i \in 1 .. Len(a) : a[i] = d[i]
  <2> SUFFICES ASSUME NEW i \in 1 .. Len(s) + k PROVE a[i] = d[i]
    BY <1>0, <1>3, <1>4
  <2>1. CASE i <= Len(s)
    BY <1>0, <1>3, <1>4, <2>1
  <2>2. CASE ~(i <= Len(s))
    <3>1. i - Len(s) \in 1 .. k /\ i \in Len(s) + 1 .. Len(s) + k /\ i \in Len(s) + 1 .. Len(s) + Len(c)
      BY <1>0, <2>2
    <3> QED
      BY <1>1, <1>3, <1>4, <3>1, Zenon
  <2> QED
    BY <2>1, <2>2
<1>7. IsPrefix(a, d)
  BY <1>3, <1>4, <1>6, PrefixIf, Zenon
<1>8. a = d <=> k = Len(c)
  BY <1>0, <1>3, <1>4, <1>5
<1> QED
  BY <1>3, <1>7, <1>8 DEF a, d, p

\* A beginning stays one when the body goes on.
LEMMA PrefixGrows ==
  ASSUME NEW s \in Bytes, NEW t \in Bytes, NEW c \in Bytes, IsPrefix(s, t)
  PROVE  IsPrefix(s, t \o c) /\ (s # t => s # t \o c)
<1> DEFINE d == t \o c
<1>0. s \in Seq(Int) /\ t \in Seq(Int) /\ c \in Seq(Int)
      /\ Len(s) \in Nat /\ Len(t) \in Nat /\ Len(c) \in Nat
  BY DEF Bytes
<1>1. Len(s) <= Len(t) /\ \A i \in 1 .. Len(s) : s[i] = t[i]
  BY <1>0 DEF IsPrefix
<1>2. d \in Seq(Int) /\ Len(d) = Len(t) + Len(c) /\ \A i \in 1 .. Len(t) : d[i] = t[i]
  BY <1>0, Joined
<1> HIDE DEF d
<1>3. Len(s) <= Len(d) /\ \A i \in 1 .. Len(s) : s[i] = d[i]
  BY <1>0, <1>1, <1>2
<1>4. IsPrefix(s, d)
  BY <1>0, <1>2, <1>3, PrefixIf, Zenon
<1>5. Len(s) = Len(t) => s = t
  BY FullPrefix
<1>6. s = d => Len(s) = Len(t)
  BY <1>0, <1>1, <1>2
<1> QED
  BY <1>4, <1>5, <1>6 DEF d

-----------------------------------------------------------------------------
(* The preview *)

\* While nothing is forwarded the plugins' preview is all that was pulled, or as
\* much of it as the limit allows.
Shown ==
  /\ preview \in Bytes
  /\ IsPrefix(preview, FlattenSeq(pulled))
  /\ Len(preview) <= PreviewLimit
  /\ pc \in {"preview", "select"} \/ (pc = "dispatch" /\ forwarded = <<>>) =>
       Len(preview) = Len(FlattenSeq(pulled)) \/ Len(preview) = PreviewLimit

\* The client's next frame, and the body with it.
LEMMA PulledGrows ==
  ASSUME Order, NEW frame \in Frames, pulled' = Append(pulled, frame)
  PROVE  /\ frame \in Bytes /\ FlattenSeq(pulled) \in Bytes
         /\ FlattenSeq(pulled)' = FlattenSeq(pulled) \o frame
<1>1. frame \in Seq(Int) /\ pulled \in Seq(Seq(Int))
  BY FramesAreBytes DEF Order, Bytes
<1>2. FlattenSeq(pulled) \in Seq(Int) /\ FlattenSeq(Append(pulled, frame)) = FlattenSeq(pulled) \o frame
  BY <1>1, FlattenAppend
<1> QED
  BY <1>1, <1>2 DEF Bytes

\* Every step keeps what the plugins are shown a beginning of the body.
LEMMA ShownStep ==
  ASSUME Order, Shown, [Next]_vars
  PROVE  Shown'
<1>0. PreviewLimit \in Nat /\ preview \in Bytes /\ Len(preview) \in Nat
  BY BodyAssumption DEF Shown, Bytes
<1>1. CASE ReadPreview
  <2>1. PICK frame \in Frames :
          pulled' = Append(pulled, frame) /\ preview' = PreviewAfter(frame)
    BY <1>1 DEF ReadPreview, Pull
  <2>2. pc = "preview" /\ Len(preview) < PreviewLimit
    BY <1>1 DEF ReadPreview
  <2>3. /\ frame \in Bytes /\ FlattenSeq(pulled) \in Bytes
        /\ FlattenSeq(pulled)' = FlattenSeq(pulled) \o frame
    BY <2>1, PulledGrows, SMTT(20)
  <2>4. preview = FlattenSeq(pulled)
    BY <1>0, <2>2, <2>3, FullPrefix DEF Shown
  <2> DEFINE room == PreviewLimit - Len(preview)
             k == IF room < Len(frame) THEN room ELSE Len(frame)
  <2>5. preview' = preview \o SubSeq(frame, 1, k)
    BY <2>1 DEF PreviewAfter
  <2>6. Len(frame) \in Nat
    BY <2>3 DEF Bytes
  <2>7. k \in 0 .. Len(frame) /\ Len(preview) + k <= PreviewLimit
        /\ (k = Len(frame) \/ Len(preview) + k = PreviewLimit)
    BY <1>0, <2>2, <2>6
  <2> HIDE DEF k
  <2>8. /\ IsPrefix(preview', FlattenSeq(pulled)') /\ Len(preview') = Len(preview) + k
    BY <1>0, <2>3, <2>4, <2>5, <2>7, PartIsPrefix
  <2>9. Len(FlattenSeq(pulled)') = Len(preview) + Len(frame)
    BY <2>3, <2>4 DEF Bytes
  <2>10. preview' \in Bytes
    BY <1>0, <2>3, <2>5, <2>7 DEF Bytes
  <2> QED
    BY <2>7, <2>8, <2>9, <2>10 DEF Shown
<1>2. CASE Forward
  <2>1. PICK frame \in Frames : /\ pulled' = pulled \/ pulled' = Append(pulled, frame)
                                /\ forwarded' = Append(forwarded, frame)
    BY <1>2 DEF Forward, Pull
  <2>2. pc \in {"dispatch", "respond"} /\ pc' = pc /\ preview' = preview
    BY <1>2 DEF Forward
  <2>3. IsPrefix(preview, FlattenSeq(pulled)')
    <3>1. CASE pulled' = pulled
      BY <3>1 DEF Shown
    <3>2. CASE pulled' = Append(pulled, frame)
      <4>1. /\ frame \in Bytes /\ FlattenSeq(pulled) \in Bytes
            /\ FlattenSeq(pulled)' = FlattenSeq(pulled) \o frame
        BY <3>2, PulledGrows
      <4> QED
        BY <1>0, <4>1, PrefixGrows DEF Shown
    <3> QED
      BY <2>1, <3>1, <3>2
  <2>4. forwarded' # <<>>
    BY <2>1, FramesAreBytes DEF Order, Bytes
  <2> QED
    BY <2>2, <2>3, <2>4 DEF Shown
<1>3. CASE \/ PreviewDone \/ PreviewFailed \/ Dispatch \/ UploadEnds \/ Respond \/ Download
           \/ Finalize \/ UNCHANGED vars
  <2>1. /\ UNCHANGED <<preview, pulled, forwarded>>
        /\ pc' \in {"preview", "select"} => pc \in {"preview", "select"}
        /\ pc' = "dispatch" => pc \in {"preview", "select", "dispatch"}
    BY <1>3, Zenon DEF PreviewDone, PreviewFailed, Dispatch, UploadEnds, Respond, Download, Finalize,
                incoming, vars
  <2> QED
    BY <2>1 DEF Shown
<1> QED
  BY <1>1, <1>2, <1>3 DEF Next

\* Nothing of the request body is lost by the preview, and the plugins see the
\* beginning of it, up to the limit, for frames of any number and size
\* (NothingLost).
THEOREM NothingIsLost == Spec => []NothingLost
<1>1. Init => Order /\ Shown
  <2> SUFFICES ASSUME Init PROVE Order /\ Shown
    OBVIOUS
  <2>1. Order
    BY DEF Init, Order, FramesKept
  <2>2. FlattenSeq(pulled) = <<>>
    <3>1. pulled = <<>> /\ <<>> \in Seq(Seq(Int))
      BY DEF Init
    <3> QED
      BY <3>1, FlattenIsLast, Zenon
  <2>3. preview = <<>> /\ pc = "preview"
    BY DEF Init
  <2>4. <<>> \in Bytes /\ Len(<<>>) = 0 /\ PreviewLimit \in Nat /\ IsPrefix(<<>>, <<>>)
    BY BodyAssumption DEF Bytes, IsPrefix
  <2> QED
    BY <2>1, <2>2, <2>3, <2>4 DEF Shown
<1>2. Order /\ Shown => NothingLost
  BY DEF Order, Shown, NothingLost
<1> QED
  BY <1>1, <1>2, OrderStep, ShownStep, PTL DEF Spec
-----------------------------------------------------------------------------
(* The snapshots *)

\* A buffer that tells the truth about the bytes that passed: it has hashed all
\* of them and keeps a beginning; it is marked truncated exactly when some are
\* missing, and that only where its limit is reached.
Faithful(b, passed) ==
  b.enabled =>
    /\ b.hashed = passed
    /\ IsPrefix(b.body, passed)
    /\ b.truncated <=> b.body # passed
    /\ b.body # passed => Len(b.body) = b.limit

\* A snapshot that tells the truth.
Truthful(kept, passed) ==
  kept.some =>
    /\ kept.hashed = passed
    /\ IsPrefix(kept.body, passed)
    /\ kept.truncated <=> kept.body # passed

\* The invariant of both buffers and of what is stored at the end.
Captured ==
  /\ Faithful(request, FlattenSeq(forwarded))
  /\ Faithful(response, download)
  /\ pc \in {"preview", "select", "dispatch"} => download = <<>>
  /\ pc # "end" => ~stored.request.some /\ ~stored.response.some
  /\ Truthful(stored.request, FlattenSeq(forwarded))
  /\ Truthful(stored.response, download)
\* A new buffer has seen nothing.
LEMMA NewIsFaithful ==
  ASSUME NEW enabled, NEW limit
  PROVE  Faithful(Buffer(enabled, limit), <<>>)
<1>1. /\ Buffer(enabled, limit).hashed = <<>> /\ Buffer(enabled, limit).body = <<>>
      /\ Buffer(enabled, limit).truncated = FALSE
  BY DEF Buffer
<1>2. IsPrefix(<<>>, <<>>)
  BY DEF IsPrefix
<1> QED
  BY <1>1, <1>2 DEF Faithful

\* CaptureBuffer::record keeps a buffer truthful, wherever in the chunk its
\* limit is reached.
LEMMA RecordedIsFaithful ==
  ASSUME NEW b, Fits(b), NEW passed \in Bytes, Faithful(b, passed), NEW chunk \in Bytes
  PROVE  Faithful(Recorded(b, chunk), passed \o chunk)
<1>0. CASE ~b.enabled
  BY <1>0 DEF Recorded, Faithful
<1>1. CASE b.enabled
  <2> DEFINE room == b.limit - Len(b.body)
             n == IF room < Len(chunk) THEN room ELSE Len(chunk)
             full == b.truncated \/ room < Len(chunk)
             new == Recorded(b, chunk)
  <2>1. /\ b \in Buffers /\ b.body \in Bytes /\ b.limit \in Nat /\ Len(b.body) \in Nat
        /\ Len(b.body) <= b.limit /\ Len(chunk) \in Nat /\ b.truncated \in BOOLEAN
    BY DEF Fits, Buffers, Bytes
  <2>2. /\ b.hashed = passed /\ IsPrefix(b.body, passed) /\ (b.truncated <=> b.body # passed)
        /\ b.body # passed => Len(b.body) = b.limit
    BY <1>1 DEF Faithful
  <2>3. new = [b EXCEPT !.sawBody = TRUE, !.hashed = b.hashed \o chunk,
                        !.body = b.body \o SubSeq(chunk, 1, n), !.truncated = full]
    BY <1>1 DEF Recorded
  <2>4. /\ n \in 0 .. Len(chunk) /\ (n = Len(chunk) \/ (room < Len(chunk) /\ n = room))
        /\ room < Len(chunk) => n # Len(chunk)
        /\ room = 0 => n = 0
        /\ Len(b.body) + room = b.limit
    BY <2>1
  <2> HIDE DEF n, room, full, new
  <2>5. /\ new.hashed = passed \o chunk /\ new.body = b.body \o SubSeq(chunk, 1, n)
        /\ new.truncated = full /\ new.limit = b.limit
    BY <2>1, <2>2, <2>3, Zenon DEF Buffers
  <2>6. CASE b.body = passed
    <3>1. /\ IsPrefix(new.body, passed \o chunk) /\ Len(new.body) = Len(b.body) + n
          /\ new.body = passed \o chunk <=> n = Len(chunk)
      <4>1. new.body = passed \o SubSeq(chunk, 1, n) /\ n \in 0 .. Len(chunk)
        BY <2>4, <2>5, <2>6
      <4>2. /\ IsPrefix(passed \o SubSeq(chunk, 1, n), passed \o chunk)
            /\ Len(passed \o SubSeq(chunk, 1, n)) = Len(passed) + n
            /\ passed \o SubSeq(chunk, 1, n) = passed \o chunk <=> n = Len(chunk)
        BY <4>1, PartIsPrefix
      <4> QED
        BY <2>6, <4>1, <4>2
    <3>2. full <=> room < Len(chunk)
      BY <2>2, <2>6 DEF full
    <3>3. new.truncated <=> new.body # passed \o chunk
      <4>1. room < Len(chunk) <=> n # Len(chunk)
        BY <2>4
      <4> QED
        BY <2>5, <3>1, <3>2, <4>1, Zenon
    <3>4. new.body # passed \o chunk => Len(new.body) = new.limit
      BY <2>4, <2>5, <3>1, Zenon
    <3> QED
      BY <2>5, <3>1, <3>3, <3>4, Zenon DEF Faithful, new
  <2>7. CASE b.body # passed
    <3>1. room = 0 /\ n = 0
      BY <2>1, <2>2, <2>4, <2>7 DEF room
    <3>2. SubSeq(chunk, 1, 0) = <<>> /\ b.body \o <<>> = b.body
      BY <2>1 DEF Bytes
    <3>3. new.body = b.body
      BY <2>5, <3>1, <3>2, Zenon
    <3>4. IsPrefix(b.body, passed \o chunk) /\ b.body # passed \o chunk
      BY <2>1, <2>2, <2>7, PrefixGrows
    <3>5. full
      BY <2>2, <2>7 DEF full
    <3> QED
      BY <2>2, <2>5, <2>7, <3>3, <3>4, <3>5, Zenon DEF Faithful, new
  <2> QED
    BY <2>6, <2>7
<1> QED
  BY <1>0, <1>1

\* What a truthful buffer gives out is truthful.
LEMMA SnapshotIsTruthful ==
  ASSUME NEW b, NEW passed, Faithful(b, passed)
  PROVE  Truthful(Snapshot(b), passed)
<1>1. CASE b.enabled /\ b.sawBody
  <2>1. /\ Snapshot(b).hashed = b.hashed /\ Snapshot(b).body = b.body
        /\ Snapshot(b).truncated = b.truncated
    BY <1>1 DEF Snapshot
  <2> QED
    BY <1>1, <2>1 DEF Faithful, Truthful
<1>2. CASE ~(b.enabled /\ b.sawBody)
  <2>1. Snapshot(b).some = FALSE
    BY <1>2 DEF Snapshot, NoBody
  <2> QED
    BY <2>1 DEF Truthful
<1> QED
  BY <1>1, <1>2

\* Every step keeps the buffers and the snapshots truthful.
LEMMA CapturedStep ==
  ASSUME Budget, Order, Captured, [Next]_vars
  PROVE  Captured'
<1>0. /\ Fits(request) /\ Fits(response) /\ download \in Bytes
      /\ Faithful(request, FlattenSeq(forwarded)) /\ Faithful(response, download)
  BY DEF Budget, Captured
<1>1. CASE ReadPreview \/ PreviewDone \/ PreviewFailed \/ UploadEnds \/ UNCHANGED vars
  <2>1. /\ UNCHANGED <<forwarded, request, response, download, stored>>
        /\ pc' \in {"preview", "select", "dispatch"} => pc \in {"preview", "select", "dispatch"}
        /\ pc' # "end" => pc # "end"
    BY <1>1, SMTT(20) DEF ReadPreview, PreviewDone, PreviewFailed, UploadEnds, outgoing, vars
  <2> QED
    BY <2>1 DEF Captured, Faithful, Truthful
<1>2. CASE Dispatch
  <2>1. PICK enabled \in BOOLEAN : request' = Buffer(enabled, RequestLimit)
    BY <1>2 DEF Dispatch
  <2>2. pc = "select" /\ pc' = "dispatch" /\ UNCHANGED <<forwarded, response, download, stored>>
    BY <1>2 DEF Dispatch, outgoing
  <2>3. FlattenSeq(forwarded) = <<>>
    <3>1. forwarded = <<>> /\ <<>> \in Seq(Seq(Int))
      BY <2>2 DEF Order
    <3> QED
      BY <3>1, FlattenIsLast, Zenon
  <2>4. Faithful(request', FlattenSeq(forwarded'))
    BY <2>1, <2>2, <2>3, NewIsFaithful
  <2> QED
    BY <2>2, <2>4 DEF Captured, Faithful, Truthful
<1>3. CASE Forward
  <2>1. PICK frame \in Frames : /\ forwarded' = Append(forwarded, frame)
                                /\ request' = Recorded(request, frame)
    BY <1>3 DEF Forward
  <2>2. pc \in {"dispatch", "respond"} /\ UNCHANGED <<pc, response, download, stored>>
    BY <1>3 DEF Forward, outgoing
  <2>3. frame \in Seq(Int) /\ forwarded \in Seq(Seq(Int))
    BY FramesAreBytes DEF Order, Bytes
  <2>4. FlattenSeq(forwarded) \in Seq(Int) /\ FlattenSeq(forwarded') = FlattenSeq(forwarded) \o frame
    BY <2>1, <2>3, FlattenAppend
  <2>5. Faithful(request', FlattenSeq(forwarded'))
    BY <1>0, <2>1, <2>3, <2>4, RecordedIsFaithful DEF Bytes
  <2>6. ~stored.request.some /\ ~stored.response.some
    BY <2>2 DEF Captured
  <2> QED
    BY <2>2, <2>5, <2>6 DEF Captured, Faithful, Truthful
<1>4. CASE Respond
  <2>1. \E enabled, limit : response' = Buffer(enabled, limit)
    BY <1>4, Zenon DEF Respond
  <2>2. pc = "dispatch" /\ pc' = "respond" /\ UNCHANGED <<forwarded, request, download, stored>>
    BY <1>4 DEF Respond
  <2>3. download = <<>> /\ ~stored.request.some /\ ~stored.response.some
    BY <2>2 DEF Captured
  <2>4. Faithful(response', download')
    BY <2>1, <2>2, <2>3, NewIsFaithful
  <2> QED
    BY <2>2, <2>3, <2>4 DEF Captured, Faithful, Truthful
<1>5. CASE Download
  <2>1. PICK n \in Sizes : /\ download' = download \o Chunk(Len(download), n)
                           /\ response' = Recorded(response, Chunk(Len(download), n))
    BY <1>5 DEF Download
  <2>2. pc = "respond" /\ UNCHANGED <<pc, forwarded, request, stored>>
    BY <1>5 DEF Download
  <2>3. Chunk(Len(download), n) \in Bytes
    BY <1>0, BodyAssumption, FrameIsBytes DEF Bytes
  <2>4. Faithful(response', download')
    BY <1>0, <2>1, <2>3, RecordedIsFaithful
  <2>5. ~stored.request.some /\ ~stored.response.some
    BY <2>2, SMTT(20) DEF Captured
  <2> QED
    BY <2>2, <2>4, <2>5 DEF Captured, Faithful, Truthful
<1>6. CASE Finalize
  <2>1. /\ pc' = "end" /\ UNCHANGED <<forwarded, request, download, response>>
        /\ \/ stored' = [request |-> Snapshot(request), response |-> Snapshot(response)]
           \/ stored' = stored
    BY <1>6 DEF Finalize
  <2>2. Truthful(stored'.request, FlattenSeq(forwarded)) /\ Truthful(stored'.response, download)
    BY <1>0, <2>1, SnapshotIsTruthful DEF Captured
  <2> QED
    BY <2>1, <2>2 DEF Captured, Faithful, Truthful
<1> QED
  BY <1>1, <1>2, <1>3, <1>4, <1>5, <1>6 DEF Next

\* A stored body says what it is, for bodies and limits of any size and however
\* the two bodies and the end of the response interleave (SnapshotTruthful).
THEOREM SnapshotsAreTruthful == Spec => []SnapshotTruthful
<1>1. Init => Order /\ Captured
  <2> SUFFICES ASSUME Init PROVE Order /\ Captured
    OBVIOUS
  <2>1. Order
    BY DEF Init, Order, FramesKept
  <2>2. /\ forwarded = <<>> /\ <<>> \in Seq(Seq(Int)) /\ download = <<>>
        /\ request = Buffer(FALSE, 0) /\ response = Buffer(FALSE, 0)
        /\ stored.request.some = FALSE /\ stored.response.some = FALSE
    BY DEF Init, NoBody
  <2>3. FlattenSeq(forwarded) = <<>>
    BY <2>2, FlattenIsLast, Zenon
  <2> QED
    BY <2>1, <2>2, <2>3, NewIsFaithful, Zenon DEF Captured, Truthful
<1>2. Captured => SnapshotTruthful
  <2> SUFFICES ASSUME Captured,
                      NEW s \in {[kept |-> stored.request, passed |-> FlattenSeq(forwarded)],
                                 [kept |-> stored.response, passed |-> download]}
               PROVE  Truthful(s.kept, s.passed)
    BY DEF SnapshotTruthful, Truthful
  <2> QED
    BY DEF Captured
<1> QED
  BY <1>1, <1>2, BudgetInit, BudgetStep, OrderStep, CapturedStep, PTL DEF Spec
=============================================================================
