------------------------------- MODULE Transfer -------------------------------
(***************************************************************************)
(* The inside of one curl_easy_perform: the body is pulled out of           *)
(* read_callback (or fread) piece by piece and pushed into a socket that    *)
(* takes what it likes, while the response is handed to curl_swrite or      *)
(* curl_fwrite in chunks nobody can predict.  On a connection taken from    *)
(* the shared cache the server may already be gone, and libcurl then        *)
(* repeats the request on another connection.                               *)
(*                                                                         *)
(* EasyPerform treats this as one step; here it is taken apart.  A byte is  *)
(* opaque except for NUL, which the C strings of curl_swrite stop at.       *)
(***************************************************************************)
EXTENDS Integers, Sequences, FiniteSetsExt

CONSTANTS
  Byte,        \* the bytes a body may hold
  Body,        \* the bytes of the variable or the file that is sent
  Responses,   \* the response bodies a server may give
  Nul,         \* the byte 0
  BufSize,     \* upload_buffer_size
  Watermark,   \* upload_buffer_size >> 5: a fuller buffer is not topped up
  OldSizes,    \* the sizes of files that earlier requests sent
  MaxRetries   \* CONN_MAX_RETRIES

ASSUME SizesAreNatural ==
  /\ BufSize \in Nat \ {0} /\ Watermark \in 0 .. BufSize /\ MaxRetries \in Nat
  /\ OldSizes \subseteq Nat
ASSUME BodiesAreBytes == Body \in Seq(Byte) /\ Responses \subseteq Seq(Byte)

VARIABLES
  proto,       \* "HTTP" or "SMTP"
  source, dest,\* "variable" or "file"
  infilesize,  \* state.infilesize, from CURLOPT_INFILESIZE_LARGE; -1: not known
  chunky,      \* upload_chunky: HTTP/1.1 with no size known, or by a header
  postfields,  \* an earlier call left CURLOPT_POSTFIELDS in the handle
  reuse,       \* bits.reuse of the connection in use
  wt,          \* struct WriteThis, or the position in the file
  ulbuf,       \* upload_fromhere .. + upload_present: read and not yet sent
  wire,        \* body bytes written to the connection in use (writebytecount)
  uploadDone,  \* upload_done: as many bytes as infilesize are written
  sending,     \* KEEP_SEND: "more", or "done" at the end of the body, or
               \* "stopped" by an answer
  retrycount,
  answered,    \* something of the response has arrived
  rest,        \* the part of the response body still to arrive
  taken,       \* the part the write callback has said it took care of
  stored,      \* the string or the file the callback writes to
  res          \* what curl_easy_perform returns

request == <<proto, source, dest, infilesize, chunky, postfields>>
upload == <<reuse, wt, ulbuf, wire, uploadDone, sending, retrycount>>
download == <<answered, rest, taken, stored>>
vars == <<request, upload, download, res>>

FullSource == [readptr |-> 0, sizeleft |-> Len(Body)]

\* easy_perform sets CURLOPT_INFILESIZE_LARGE for a file and resets it for
\* nothing: a message runs with the size of the last file, if there was one.
SizesInHandle == IF source = "file" THEN {Len(Body)} ELSE {-1} \cup OldSizes

\* Curl_setup_transfer gets no socket to write to when the size is 0 in HTTP.
StartSending == IF proto = "HTTP" /\ infilesize = 0 THEN "done" ELSE "more"

Least(a, b) == IF a < b THEN a ELSE b

-----------------------------------------------------------------------------
(* The callbacks.  Each gives the bytes it delivers or keeps. *)

\* Mutant: the room in the buffer is not looked at.
CopyAllThatIsLeft(w, room) == w.sizeleft

\* read_callback(dest, 1, room, &wt): how many bytes it copies.
CopyThisMuch(w, room) == Least(w.sizeleft, room)

\* Mutant: sizeleft is decreased and readptr is not advanced.
AdvanceSizeOnly(w, n) == [w EXCEPT !.sizeleft = @ - n]

Advance(w, n) == [readptr |-> w.readptr + n, sizeleft |-> w.sizeleft - n]

Copied(w, n) == SubSeq(Body, w.readptr + 1, w.readptr + n)

\* append((char*)ptr, 0, n): the C string at ptr, cut to n bytes.
BeforeNul(chunk) ==
  LET nuls == {i \in 1 .. Len(chunk) : chunk[i] = Nul} IN
  IF nuls = {} THEN chunk ELSE SubSeq(chunk, 1, Min(nuls) - 1)

\* Mutant: the string is replaced by every chunk.
AssignChunk(old, chunk) == BeforeNul(chunk)

curl_swrite(old, chunk) == old \o BeforeNul(chunk)

curl_fwrite(old, chunk) == old \o chunk

-----------------------------------------------------------------------------
Init ==
  /\ proto \in {"HTTP", "SMTP"}
  /\ source \in {"variable", "file"}
  /\ dest \in {"variable", "file"}
  /\ infilesize \in SizesInHandle
  /\ chunky \in (IF proto = "HTTP" THEN BOOLEAN ELSE {FALSE})
  /\ postfields \in BOOLEAN
  /\ reuse \in BOOLEAN
  /\ wt = FullSource
  /\ ulbuf = <<>> /\ wire = <<>>
  /\ uploadDone = FALSE /\ sending = StartSending
  /\ retrycount = 0
  /\ answered = FALSE
  /\ rest \in (IF proto = "HTTP" THEN Responses ELSE {<<>>})
  /\ taken = <<>> /\ stored = <<>>
  /\ res = "none"

\* More is read when the buffer is empty, or nearly empty and not chunked
\* (unless what is left in it completes the announced size).
WantsMore ==
  /\ ~uploadDone
  /\ \/ ulbuf = <<>>
     \/ /\ Len(ulbuf) < Watermark /\ ~chunky
        /\ Len(wire) + Len(ulbuf) # infilesize

\* Mutant: what is still in the buffer is overwritten by what is read.
RefillOverwrites(n) == Copied(wt, n)

\* Curl_fillreadbuffer behind what the buffer still holds
Refilled(n) == ulbuf \o Copied(wt, n)

\* Mutant: the upload ends one byte before the size.
SizeAlmostReached(w) == ~chunky /\ Len(wire) + w + 1 = infilesize

\* "we have sent all data we were supposed to"
SizeReached(w) == ~chunky /\ Len(wire) + w = infilesize

\* Nothing was read, or the buffer is sent and the size was reached.
UploadEnds(buf, w) ==
  \/ buf = <<>>
  \/ w = Len(buf) /\ (uploadDone \/ SizeReached(w))

\* readwrite_upload: read what fits, then write w bytes of the buffer, or
\* none when the socket is full.  Reading nothing ends the upload.
readwrite_upload(w) ==
  /\ res = "none" /\ sending = "more"
  /\ LET n == IF WantsMore THEN CopyThisMuch(wt, BufSize - Len(ulbuf)) ELSE 0
         buf == Refilled(n) IN
     /\ w \in 0 .. Len(buf)
     /\ wt' = Advance(wt, n)
     /\ wire' = wire \o SubSeq(buf, 1, w)
     /\ ulbuf' = SubSeq(buf, w + 1, Len(buf))
     /\ uploadDone' = (uploadDone \/ (buf # <<>> /\ SizeReached(w)))
     /\ sending' = IF UploadEnds(buf, w) THEN "done" ELSE "more"
  /\ UNCHANGED <<request, reuse, retrycount, download, res>>

-----------------------------------------------------------------------------
(* The server closes the connection, or the socket reports an error. *)

\* Curl_retry_request: an HTTP request on a reused connection that died
\* before anything came back is repeated.
MayRetry == res = "none" /\ proto = "HTTP" /\ reuse /\ ~answered

RetryGivesUp ==
  /\ MayRetry /\ retrycount >= MaxRetries
  /\ res' = "failed"
  /\ UNCHANGED <<request, upload, download>>

\* rewindbeforesend
MustRewind == wire # <<>>

\* readrewind finds nothing to do when CURLOPT_POSTFIELDS is set.
CannotRewind == source = "variable" /\ ~postfields

\* Mutant: the retries are not counted.
RetryUncounted(reused) ==
  /\ MayRetry /\ retrycount < MaxRetries
  /\ ~(MustRewind /\ CannotRewind)
  /\ wt' = IF MustRewind /\ ~postfields THEN FullSource ELSE wt
  /\ ulbuf' = <<>> /\ wire' = <<>>
  /\ uploadDone' = FALSE /\ sending' = StartSending
  /\ reuse' = reused
  /\ UNCHANGED <<request, retrycount, download, res>>

RetryRequest(reused) ==
  /\ MayRetry /\ retrycount < MaxRetries
  /\ ~(MustRewind /\ CannotRewind)
  /\ retrycount' = retrycount + 1
  /\ wt' = IF MustRewind /\ ~postfields THEN FullSource ELSE wt
  /\ ulbuf' = <<>> /\ wire' = <<>>
  /\ uploadDone' = FALSE /\ sending' = StartSending
  /\ reuse' = reused
  /\ UNCHANGED <<request, download, res>>

\* CURLE_SEND_FAIL_REWIND
RewindFails ==
  /\ MayRetry /\ retrycount < MaxRetries
  /\ MustRewind /\ CannotRewind
  /\ res' = "failed"
  /\ UNCHANGED <<request, upload, download>>

\* Any other failure: no connection, a timeout, a broken connection.
Fails ==
  /\ res = "none"
  /\ res' = "failed"
  /\ UNCHANGED <<request, upload, download>>

-----------------------------------------------------------------------------
(* The response. *)

\* The first bytes arrive.  An error answered while the body is still being
\* sent stops the sending.
Answer(error) ==
  /\ res = "none" /\ ~answered
  /\ proto = "SMTP" => sending = "done"
  /\ answered' = TRUE
  /\ sending' = IF sending = "more" /\ error THEN "stopped" ELSE sending
  /\ UNCHANGED <<request, reuse, wt, ulbuf, wire, uploadDone, retrycount, rest,
                 taken, stored, res>>

\* A chunk of n bytes is given to the write callback, which says that it
\* took all of it.
WriteResponse(n) ==
  /\ res = "none" /\ answered
  /\ n \in 1 .. Len(rest)
  /\ LET chunk == SubSeq(rest, 1, n) IN
     /\ stored' = IF dest = "variable" THEN curl_swrite(stored, chunk)
                                       ELSE curl_fwrite(stored, chunk)
     /\ taken' = taken \o chunk
  /\ rest' = SubSeq(rest, n + 1, Len(rest))
  /\ UNCHANGED <<request, upload, answered, res>>

\* Everything is sent and received.
Done ==
  /\ res = "none" /\ answered /\ sending # "more" /\ rest = <<>>
  /\ res' = "ok"
  /\ UNCHANGED <<request, upload, download>>

Returned == res # "none" /\ UNCHANGED vars

\* What happens to a request on a pooled connection
AnsweredOrDead ==
  \/ \E error \in BOOLEAN : Answer(error)
  \/ RetryGivesUp \/ RewindFails \/ Fails
  \/ \E reused \in BOOLEAN : RetryRequest(reused)

Next ==
  \/ \E w \in 0 .. BufSize : readwrite_upload(w)
  \/ RetryGivesUp
  \/ \E reused \in BOOLEAN : RetryRequest(reused)
  \/ RewindFails
  \/ Fails
  \/ \E error \in BOOLEAN : Answer(error)
  \/ \E n \in 1 .. Len(rest) : WriteResponse(n)
  \/ Done
  \/ Returned

Spec == Init /\ [][Next]_vars

\* The socket takes bytes, a new connection is answered, a pooled one is
\* answered or found dead, and what arrives is processed.  Nothing is assumed
\* of the cache: every retry may be handed a dead connection again.
PeerMakesProgress ==
  /\ WF_vars(\E w \in 1 .. BufSize : readwrite_upload(w))
  /\ WF_vars(readwrite_upload(0) /\ sending' = "done")
  /\ WF_vars(~reuse /\ \E error \in BOOLEAN : Answer(error))
  /\ WF_vars(reuse /\ ~answered /\ AnsweredOrDead)
  /\ WF_vars(\E n \in 1 .. Len(rest) : WriteResponse(n))
  /\ WF_vars(Done)

LiveSpec == Spec /\ PeerMakesProgress

-----------------------------------------------------------------------------
(* Properties *)

TypeOK ==
  /\ proto \in {"HTTP", "SMTP"}
  /\ source \in {"variable", "file"} /\ dest \in {"variable", "file"}
  /\ infilesize \in Nat \cup {-1}
  /\ chunky \in BOOLEAN /\ postfields \in BOOLEAN /\ reuse \in BOOLEAN
  /\ uploadDone \in BOOLEAN
  /\ wt \in [readptr : 0 .. Len(Body), sizeleft : 0 .. Len(Body)]
  /\ ulbuf \in Seq(Byte) /\ Len(ulbuf) <= BufSize
  /\ wire \in Seq(Byte)
  /\ rest \in Seq(Byte) /\ taken \in Seq(Byte) /\ stored \in Seq(Byte)
  /\ sending \in {"more", "done", "stopped"} /\ answered \in BOOLEAN
  /\ retrycount \in 0 .. MaxRetries
  /\ res \in {"none", "ok", "failed"}

\* What is on the wire followed by what waits in the buffer is an unbroken
\* run of the body that ends where read_callback will go on: whatever the
\* sizes of reads and writes and however often the request is repeated, no
\* byte is sent twice, out of order or left out in the middle.
UploadUnbroken ==
  LET run == wire \o ulbuf IN
  /\ Len(run) <= wt.readptr
  /\ run = SubSeq(Body, wt.readptr - Len(run) + 1, wt.readptr)

\* The size an earlier file left in the handle ends the upload of a message:
\* that many bytes, and what was buffered with them, are on the wire.
CutAtOldSize == source = "variable" /\ infilesize \in 0 .. Len(wire)

\* A request that was not repeated sends its body from the beginning, and all
\* of it before it stops.  The one exception is a message that is as long as
\* a file sent before it on this handle or longer; a file is never cut.
FirstAttemptSendsAll ==
  sending = "done" /\ retrycount = 0 =>
    /\ wire = SubSeq(Body, 1, Len(wire))
    /\ wire # Body => CutAtOldSize

\* A response without NUL bytes reaches the variable complete and in order,
\* however it is cut into chunks, and a file receives every response so.
ResponseExact ==
  dest = "file" \/ (\A i \in 1 .. Len(taken) : taken[i] # Nul) => stored = taken

\* The body is accounted for: what read_callback has not given out is the
\* rest of the body, an upload never repeated has lost nothing, and one that
\* ends has nothing in the buffer and nothing left to read, unless the size of
\* an earlier file ended it.
BodyAccounted ==
  /\ wt.readptr + wt.sizeleft = Len(Body)
  /\ retrycount = 0 => Len(wire) + Len(ulbuf) = wt.readptr
  /\ sending = "done" => ulbuf = <<>> /\ (wt.sizeleft = 0 \/ CutAtOldSize)

\* The size is the file's own, and upload_done was set by writing that much.
SizeInHandle ==
  /\ source = "file" => infilesize = Len(Body)
  /\ uploadDone => infilesize \in 0 .. Len(wire)

\* The inductive invariant: what the theorems of TransferProofs rest on.
IInv == TypeOK /\ BodyAccounted /\ SizeInHandle /\ UploadUnbroken /\ ResponseExact

\* A repeated request is the same request: it sends the same body.
RetrySendsSameBody == sending = "done" => wire = Body

\* The callback has kept the bytes it says it took care of.
TakenBytesAreKept == stored = taken

\* The transfer comes to an end, however many dead connections the cache
\* hands out.
TransferEnds == <>(res # "none")

=============================================================================
