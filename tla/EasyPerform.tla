----------------------------- MODULE EasyPerform -----------------------------
(***************************************************************************)
(* One CcURL object: the script fills the source and the destination, sets  *)
(* options, resets the handle and calls easy_perform again and again.       *)
(*                                                                         *)
(* libcurl never resets the options of a handle between transfers, and      *)
(* easy_perform stores in them pointers to its own locals and to buffers    *)
(* of the object.  The model keeps those options and, for every pointer in  *)
(* them, what it points to; a pointer becomes "dead" when the call that     *)
(* owns the object returns or the buffer is replaced.  The requests         *)
(* themselves are opaque: a transfer is described by the body it sends      *)
(* and by the place its response is written to.                             *)
(***************************************************************************)
EXTENDS Naturals

CONSTANTS
  Text,      \* the nonempty texts the script sends or names a file with
  Response,  \* the nonempty texts a server answers
  Empty,     \* the empty string
  MaxParts   \* the most parts of a multipart body (bound)

ASSUME EmptyIsNoText == Empty \notin Text \cup Response
ASSUME MaxPartsIsNatural == MaxParts \in Nat

VARIABLES
  opt,          \* the options of the current easy handle
  src, dst,     \* *pSrc and *pDest
  PostFildsData,
  isPosting, isMultipart, m_StatusLine,
  mimeOn,       \* the handle m_mime is attached to: none, current or old
  mimeParts,    \* the number of parts of m_mime
  pc,           \* where easy_perform is
  fd, fp,       \* the FILE* locals of easy_perform
  sent,         \* what the transfer of the current call sent as its body
  received,     \* the response of the transfer and where it was written
  result,       \* how that transfer ended
  used,         \* history: what requests on the current handle have set in it
  fault         \* what went wrong with the files of the last call

object == <<src, dst, PostFildsData, isPosting, isMultipart, m_StatusLine, mimeOn,
            mimeParts>>
vars == <<opt, object, pc, fd, fp, sent, received, result, fault, used>>

Type == {"ttVariable", "ttFile", "ttMsg"}
Source == [Type : Type, Data : Text \cup {Empty}]
Dest == [Type : Type, Data : Response \cup {Empty}]

(* ANSItoUTF8 and UTF8toANSI change the encoding and keep the text. *)
Encoded(enc, text) == [enc |-> enc, text |-> text]
ANSItoUTF8(text) == Encoded("utf8", text)
UTF8toANSI(bytes) == bytes.text

\* Bodies that are not text of the script.
NoBody == Encoded("none", Empty)
FileBytes == Encoded("file", Empty)
Garbage == Encoded("garbage", Empty)
\* A text announced with the size of another file, and cut there (Transfer).
SizedAsFile(body) == Encoded("sized as file", body.text)
MimeBody(parts) == Encoded("mime", parts)
Body ==
  [enc : {"none", "file", "garbage", "utf8", "ansi", "sized as file"},
   text : Text \cup Response \cup {Empty}]
  \cup {MimeBody(parts) : parts \in 0 .. MaxParts}

NoResponse == [body |-> NoBody, target |-> "none"]

Options == [method     : {"GET", "POST", "PUT", "MIME"},
            postfields : {"null", "PostFildsData", "pSrc->Data", "dead"},
            readfunc   : {"fread", "read_callback"},
            readdata   : {"stdin", "&wt", "fd", "dead"},
            infilesize : {"unset", "file"},
            writefunc  : {"fwrite", "curl_swrite", "curl_fwrite"},
            writedata  : {"stdout", "&data", "fp", "dead"},
            xferinfo   : {"null", "&prog", "dead"},
            noprogress : BOOLEAN]

\* The options of a handle that curl_easy_init has just returned.
FreshOptions == [method |-> "GET", postfields |-> "null", readfunc |-> "fread",
                 readdata |-> "stdin", infilesize |-> "unset",
                 writefunc |-> "fwrite", writedata |-> "stdout",
                 xferinfo |-> "null", noprogress |-> TRUE]

-----------------------------------------------------------------------------
(* What a transfer does with the options it finds. *)

ReadBody(o) ==
  CASE o.readfunc = "read_callback" /\ o.readdata = "&wt" -> PostFildsData
    [] o.readfunc = "fread" /\ o.readdata = "fd"          -> FileBytes
    [] o.readfunc = "fread" /\ o.readdata = "stdin"       -> NoBody
    [] OTHER                                              -> Garbage

\* An upload takes its size from CURLOPT_INFILESIZE_LARGE, also when that is
\* the size of a file which an earlier request sent.
UploadBody(o) ==
  IF o.readfunc = "read_callback" /\ o.readdata = "&wt" /\ o.infilesize = "file"
  THEN SizedAsFile(PostFildsData)
  ELSE ReadBody(o)

PostBody(o) ==
  CASE o.postfields = "PostFildsData" -> PostFildsData
    [] o.postfields = "pSrc->Data"    -> Encoded("ansi", src.Data)
    [] o.postfields = "dead"          -> Garbage
    [] o.postfields = "null"          -> ReadBody(o)

BodySent(o) ==
  CASE o.method = "GET"  -> NoBody
    [] o.method = "POST" -> PostBody(o)
    [] o.method = "PUT"  -> UploadBody(o)
    [] o.method = "MIME" -> MimeBody(mimeParts)

WriteTarget(o) ==
  CASE o.writefunc = "curl_swrite" /\ o.writedata = "&data" -> "data"
    [] o.writefunc = "curl_fwrite" /\ o.writedata = "fp"    -> "file"
    [] o.writefunc = "fwrite" /\ o.writedata = "stdout"     -> "stdout"
    [] OTHER                                                -> "garbage"

\* The call that owned wt, data, prog, fd and fp is over.
LocalsGone(o) ==
  [o EXCEPT !.readdata  = IF @ \in {"&wt", "fd"} THEN "dead" ELSE @,
            !.writedata = IF @ \in {"&data", "fp"} THEN "dead" ELSE @,
            !.xferinfo  = IF @ = "&prog" THEN "dead" ELSE @]

\* A buffer that CURLOPT_POSTFIELDS may point into is replaced.
BufferGone(o, buffer) ==
  [o EXCEPT !.postfields = IF @ = buffer THEN "dead" ELSE @]

-----------------------------------------------------------------------------
(* The constructor leaves isPosting and m_StatusLine uninitialised. *)
Init ==
  /\ opt = FreshOptions
  /\ src = [Type |-> "ttVariable", Data |-> Empty]
  /\ dst = [Type |-> "ttVariable", Data |-> Empty]
  /\ PostFildsData = Encoded("utf8", Empty)
  /\ isPosting \in BOOLEAN
  /\ isMultipart = FALSE
  /\ m_StatusLine \in BOOLEAN
  /\ mimeOn = "none" /\ mimeParts = 0
  /\ pc = "idle"
  /\ fd = "null" /\ fp = "null"
  /\ sent = NoBody
  /\ received = NoResponse
  /\ result = "none"
  /\ fault = {}
  /\ used = {}

call == <<fd, fp, sent, received, result, fault>>
history == <<call, used>>

\* CCurlValue: the properties Type and Data of the source and the destination.
SetSource(v) ==
  /\ pc = "idle" /\ src # v
  /\ src' = v
  /\ opt' = IF v.Data = src.Data THEN opt ELSE BufferGone(opt, "pSrc->Data")
  /\ UNCHANGED <<dst, PostFildsData, isPosting, isMultipart, m_StatusLine,
                 mimeOn, mimeParts, pc, history>>

SetDest(v) ==
  /\ pc = "idle" /\ dst # v
  /\ dst' = v
  /\ UNCHANGED <<opt, src, PostFildsData, isPosting, isMultipart, m_StatusLine,
                 mimeOn, mimeParts, pc, history>>

StatusLine(on) ==
  /\ pc = "idle" /\ m_StatusLine # on
  /\ m_StatusLine' = on
  /\ UNCHANGED <<opt, src, dst, PostFildsData, isPosting, isMultipart, mimeOn,
                 mimeParts, pc, history>>

\* easy_setopt with CURLOPT_POSTFIELDS: the value becomes the source data and
\* libcurl keeps a pointer into the very same string buffer.
SetoptPostfields(text) ==
  /\ pc = "idle"
  /\ src' = [src EXCEPT !.Data = text]
  /\ opt' = [opt EXCEPT !.postfields = "pSrc->Data", !.method = "POST"]
  /\ UNCHANGED <<dst, PostFildsData, isPosting, isMultipart, m_StatusLine,
                 mimeOn, mimeParts, pc, history>>

\* easy_setopt with CURLOPT_MAIL_RCPT
SetoptMailRcpt ==
  /\ pc = "idle"
  /\ isPosting' = TRUE
  /\ UNCHANGED <<opt, src, dst, PostFildsData, isMultipart, m_StatusLine,
                 mimeOn, mimeParts, pc, history>>

\* easy_setopt with a numeric option that selects the request: CURLOPT_HTTPGET,
\* CURLOPT_POST or CURLOPT_UPLOAD.
SetoptMethod(m) ==
  /\ pc = "idle"
  /\ opt' = [opt EXCEPT !.method = m]
  /\ UNCHANGED <<object, pc, history>>

\* mime_init hands out the multipart body; nothing ever clears isMultipart.
mime_init ==
  /\ pc = "idle"
  /\ isMultipart' = TRUE
  /\ UNCHANGED <<opt, src, dst, PostFildsData, isPosting, m_StatusLine, mimeOn,
                 mimeParts, pc, history>>

\* AddPart of the object that mime_init handed out; nothing removes a part.
AddPart ==
  /\ pc = "idle" /\ isMultipart /\ mimeParts < MaxParts
  /\ mimeParts' = mimeParts + 1
  /\ UNCHANGED <<opt, src, dst, PostFildsData, isPosting, isMultipart,
                 m_StatusLine, mimeOn, pc, history>>

\* Mutant: the handle is cleaned up and no new one is made.
CleanupWithoutInit ==
  /\ pc = "idle"
  /\ opt' = [FreshOptions EXCEPT !.method = "freed handle"]
  /\ UNCHANGED <<object, pc, history>>

\* easy_cleanup: a new handle with default options; everything else is kept.
easy_cleanup ==
  /\ pc = "idle"
  /\ opt' = FreshOptions
  /\ mimeOn' = IF mimeOn = "current" THEN "old" ELSE mimeOn
  /\ used' = {}
  /\ UNCHANGED <<src, dst, PostFildsData, isPosting, isMultipart, m_StatusLine,
                 mimeParts, pc, call>>

-----------------------------------------------------------------------------
(* easy_perform *)

\* RuntimeError raises: the call is left at once, its locals with it.
RaiseRuntimeError(left) ==
  /\ pc' = "idle"
  /\ fault' = IF left = "open" THEN {"left open"} ELSE {}
  /\ fd' = "null" /\ fp' = "null"

PerformStart ==
  /\ pc = "idle"
  /\ pc' = "source"
  /\ fault' = {}
  /\ UNCHANGED <<opt, object, fd, fp, sent, received, result, used>>

\* Mutant: CURLOPT_POSTFIELDS is set after CURLOPT_MIMEPOST.
SourceMultipartThenPost ==
  /\ pc = "source" /\ isMultipart
  /\ opt' = [opt EXCEPT !.postfields = "PostFildsData", !.method = "POST",
                        !.writedata = "&data", !.writefunc = "curl_swrite"]
  /\ mimeOn' = IF mimeOn = "old" THEN "old" ELSE "current"
  /\ used' = used \cup {"response"}
  /\ pc' = "dest"
  /\ UNCHANGED <<src, dst, PostFildsData, isPosting, isMultipart, m_StatusLine,
                 mimeParts, call>>

\* CURLOPT_MIMEPOST is refused when m_mime still belongs to another handle.
SourceMultipart ==
  /\ pc = "source" /\ isMultipart
  /\ opt' = [opt EXCEPT !.postfields = "PostFildsData",
                        !.method = IF mimeOn = "old" THEN "POST" ELSE "MIME",
                        !.writedata = "&data", !.writefunc = "curl_swrite"]
  /\ mimeOn' = IF mimeOn = "old" THEN "old" ELSE "current"
  /\ used' = used \cup {"response"}
  /\ pc' = "dest"
  /\ UNCHANGED <<src, dst, PostFildsData, isPosting, isMultipart, m_StatusLine,
                 mimeParts, call>>

\* Mutant: a message is read through the callback but CURLOPT_UPLOAD is not set.
SourceVariableNoUpload ==
  /\ pc = "source" /\ ~isMultipart
  /\ src.Type = "ttVariable" /\ src.Data # Empty
  /\ PostFildsData' = ANSItoUTF8(src.Data)
  /\ opt' = LET o == BufferGone(opt, "PostFildsData") IN
            IF isPosting
            THEN [o EXCEPT !.readfunc = "read_callback", !.readdata = "&wt"]
            ELSE [o EXCEPT !.postfields = "PostFildsData", !.method = "POST"]
  /\ used' = IF isPosting THEN used \cup {"message"} ELSE used
  /\ pc' = "dest"
  /\ UNCHANGED <<src, dst, isPosting, isMultipart, m_StatusLine, mimeOn,
                 mimeParts, call>>

SourceVariable ==
  /\ pc = "source" /\ ~isMultipart
  /\ src.Type = "ttVariable" /\ src.Data # Empty
  /\ PostFildsData' = ANSItoUTF8(src.Data)
  /\ opt' = LET o == BufferGone(opt, "PostFildsData") IN
            IF isPosting
            THEN [o EXCEPT !.readfunc = "read_callback", !.readdata = "&wt",
                           !.method = "PUT"]
            ELSE [o EXCEPT !.postfields = "PostFildsData", !.method = "POST"]
  /\ used' = IF isPosting THEN used \cup {"message"} ELSE used
  /\ pc' = "dest"
  /\ UNCHANGED <<src, dst, isPosting, isMultipart, m_StatusLine, mimeOn,
                 mimeParts, call>>

\* An empty variable, or the type ttMsg: no option is touched.
SourceNothing ==
  /\ pc = "source" /\ ~isMultipart
  /\ \/ src.Type = "ttVariable" /\ src.Data = Empty
     \/ src.Type = "ttMsg"
  /\ pc' = "dest"
  /\ UNCHANGED <<opt, object, history>>

\* Mutant: the file is opened and CURLOPT_READDATA is not set to it.
SourceFileNotRead ==
  /\ pc = "source" /\ ~isMultipart /\ src.Type = "ttFile"
  /\ fd' = "open"
  /\ opt' = [opt EXCEPT !.method = "PUT", !.infilesize = "file"]
  /\ used' = used \cup {"file"}
  /\ pc' = "dest"
  /\ UNCHANGED <<object, fp, sent, received, result, fault>>

SourceFile ==
  /\ pc = "source" /\ ~isMultipart /\ src.Type = "ttFile"
  /\ fd' = "open"
  /\ opt' = [opt EXCEPT !.method = "PUT", !.readdata = "fd",
                        !.infilesize = "file"]
  /\ used' = used \cup {"file"}
  /\ pc' = "dest"
  /\ UNCHANGED <<object, fp, sent, received, result, fault>>

\* fopen fails, or fstat fails on the file just opened.
SourceFileFails ==
  /\ pc = "source" /\ ~isMultipart /\ src.Type = "ttFile"
  /\ \E left \in {"null", "open"} : RaiseRuntimeError(left)
  /\ opt' = LocalsGone(opt)
  /\ UNCHANGED <<object, sent, received, result, used>>

\* Mutant: the progress callback is never switched off again.
StatusLineSticks(o) ==
  IF m_StatusLine
  THEN [o EXCEPT !.xferinfo = "&prog", !.noprogress = FALSE]
  ELSE o

\* The rest of the set-up: the progress callback.
WithStatusLine(o) ==
  IF m_StatusLine
  THEN [o EXCEPT !.xferinfo = "&prog", !.noprogress = FALSE]
  ELSE [o EXCEPT !.noprogress = TRUE]

DestVariable ==
  /\ pc = "dest" /\ dst.Type = "ttVariable"
  /\ opt' = WithStatusLine([opt EXCEPT !.writedata = "&data",
                                       !.writefunc = "curl_swrite"])
  /\ used' = used \cup {"response"}
  /\ pc' = "transfer"
  /\ UNCHANGED <<object, call>>

\* Mutant: the file branch forgets CURLOPT_WRITEFUNCTION.
DestFileKeepsCallback ==
  /\ pc = "dest" /\ dst.Type = "ttFile"
  /\ fp' = "open"
  /\ opt' = WithStatusLine([opt EXCEPT !.writedata = "fp"])
  /\ used' = used \cup {"response"}
  /\ pc' = "transfer"
  /\ UNCHANGED <<object, fd, sent, received, result, fault>>

DestFile ==
  /\ pc = "dest" /\ dst.Type = "ttFile"
  /\ fp' = "open"
  /\ opt' = WithStatusLine([opt EXCEPT !.writedata = "fp",
                                       !.writefunc = "curl_fwrite"])
  /\ used' = used \cup {"response"}
  /\ pc' = "transfer"
  /\ UNCHANGED <<object, fd, sent, received, result, fault>>

DestFileFails ==
  /\ pc = "dest" /\ dst.Type = "ttFile"
  /\ RaiseRuntimeError(fd)
  /\ opt' = LocalsGone(opt)
  /\ UNCHANGED <<object, sent, received, result, used>>

DestMsg ==
  /\ pc = "dest" /\ dst.Type = "ttMsg"
  /\ opt' = WithStatusLine(opt)
  /\ pc' = "transfer"
  /\ UNCHANGED <<object, history>>

\* curl_easy_perform: the body goes out, a response comes in; or it fails
\* after any part of that.
Transfer(text, ok) ==
  /\ pc = "transfer"
  /\ sent' = BodySent(opt)
  /\ received' = [body |-> Encoded("utf8", text), target |-> WriteTarget(opt)]
  /\ result' = IF ok THEN "ok" ELSE "failed"
  /\ pc' = "close"
  /\ UNCHANGED <<opt, object, fd, fp, fault, used>>

\* fclose of the files that are open.
CloseFiles ==
  /\ pc = "close"
  /\ fd' = IF fd = "open" THEN "closed" ELSE fd
  /\ fp' = IF fp = "open" THEN "closed" ELSE fp
  /\ pc' = "finish"
  /\ UNCHANGED <<opt, object, sent, received, result, fault, used>>

\* A failed transfer raises; otherwise the response goes to the destination,
\* and a destination file is closed once more.
Finish ==
  /\ pc = "finish"
  /\ pc' = "idle"
  /\ opt' = LocalsGone(opt)
  /\ dst' = IF result = "ok" /\ dst.Type = "ttVariable"
            THEN [dst EXCEPT !.Data = IF received.target = "data"
                                      THEN UTF8toANSI(received.body)
                                      ELSE Empty]
            ELSE dst
  /\ fault' = IF result = "ok" /\ dst.Type = "ttFile" /\ fp = "closed"
              THEN {"closed twice"} ELSE {}
  /\ fd' = "null" /\ fp' = "null"
  /\ sent' = NoBody /\ received' = NoResponse /\ result' = "none"
  /\ UNCHANGED <<src, PostFildsData, isPosting, isMultipart, m_StatusLine,
                 mimeOn, mimeParts, used>>

Next ==
  \/ \E v \in Source : SetSource(v)
  \/ \E v \in Dest : SetDest(v)
  \/ \E on \in BOOLEAN : StatusLine(on)
  \/ \E text \in Text \cup {Empty} : SetoptPostfields(text)
  \/ SetoptMailRcpt
  \/ \E m \in {"GET", "POST", "PUT"} : SetoptMethod(m)
  \/ mime_init \/ AddPart
  \/ easy_cleanup
  \/ PerformStart
  \/ SourceMultipart \/ SourceVariable \/ SourceNothing
  \/ SourceFile \/ SourceFileFails
  \/ DestVariable \/ DestFile \/ DestFileFails \/ DestMsg
  \/ \E text \in Response \cup {Empty}, ok \in BOOLEAN : Transfer(text, ok)
  \/ CloseFiles
  \/ Finish

Spec == Init /\ [][Next]_vars
-----------------------------------------------------------------------------
(* Properties *)

TypeOK ==
  /\ opt \in Options
  /\ src \in Source /\ dst \in Dest
  /\ PostFildsData \in [enc : {"utf8"}, text : Text \cup {Empty}]
  /\ isPosting \in BOOLEAN /\ isMultipart \in BOOLEAN /\ m_StatusLine \in BOOLEAN
  /\ mimeOn \in {"none", "current", "old"}
  /\ mimeParts \in 0 .. MaxParts
  /\ pc \in {"idle", "source", "dest", "transfer", "close", "finish"}
  /\ fd \in {"null", "open", "closed"} /\ fp \in {"null", "open", "closed"}
  /\ sent \in Body
  /\ received \in [body : Body,
                   target : {"none", "data", "file", "stdout", "garbage"}]
  /\ result \in {"none", "ok", "failed"}
  /\ fault \subseteq {"left open", "closed twice"}
  /\ used \subseteq {"message", "file", "response"}

Transferred == pc \in {"close", "finish"}

\* A request whose source is a nonempty variable sends exactly that text, as
\* UTF-8, whatever requests, options and resets came before it.  What earlier
\* requests left in the handle matters in one case only: a message after a
\* file goes out with the size of the file.
VariableSourceIsSent ==
  Transferred /\ ~isMultipart /\ src.Type = "ttVariable" /\ src.Data # Empty
    => LET text == ANSItoUTF8(src.Data) IN
       sent = IF isPosting /\ "file" \in used THEN SizedAsFile(text) ELSE text

\* A request whose source is a file sends the bytes of that file, unless a
\* message was sent on this handle: it left its read callback there, and
\* easy_perform sets only the file to read from.
FileSourceIsSent ==
  Transferred /\ ~isMultipart /\ src.Type = "ttFile"
    => sent = IF "message" \in used THEN Garbage ELSE FileBytes

\* Once mime_init was called every request sends the multipart body with all
\* parts ever added, until easy_cleanup takes a new handle after a request:
\* the body belongs to the old handle, libcurl refuses it, and the request
\* posts the last variable that was sent.
MultipartIsSent ==
  Transferred /\ isMultipart
    => sent = IF mimeOn = "old" THEN PostFildsData ELSE MimeBody(mimeParts)

\* A request sends its own source, whichever of the three kinds it has.  The
\* requests that were made on the same handle before it disturb it in exactly
\* the ways the three parts name, options and resets in none.
SourceIsSent == VariableSourceIsSent /\ FileSourceIsSent /\ MultipartIsSent

\* A response is written to the destination of this call, variable or file,
\* with the callback that fits it, and never to what an earlier call left in
\* the handle.  A destination of type ttMsg sets nothing: the response goes
\* to the local string with a multipart body, to stdout on a handle that was
\* given no destination yet, and else to one that is gone.
ResponseReachesDestination ==
  Transferred =>
    received.target =
      CASE dst.Type = "ttVariable" -> "data"
        [] dst.Type = "ttFile" -> "file"
        [] dst.Type = "ttMsg" -> IF isMultipart THEN "data"
                                 ELSE IF "response" \in used THEN "garbage"
                                 ELSE "stdout"

\* The progress callback runs only with the progress record of this call.
ProgressRecordLive ==
  pc = "transfer" /\ ~opt.noprogress => opt.xferinfo = "&prog"

\* A transfer uses no pointer that an earlier call left in the handle: neither
\* the buffer of a POST, nor the source of an upload, nor the place the
\* response is written to (libcurl resets no option between transfers).
PointersLive ==
  pc = "transfer" =>
    /\ opt.writedata # "dead"
    /\ opt.method = "POST" => opt.postfields # "dead"
    /\ opt.method = "PUT" => opt.readdata # "dead"

=============================================================================
