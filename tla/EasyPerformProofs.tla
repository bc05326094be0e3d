-------------------------- MODULE EasyPerformProofs --------------------------
(***************************************************************************)
(* Proofs about EasyPerform for every set of texts and of responses and     *)
(* every number of parts.                                                   *)
(*                                                                         *)
(* What a request sends is observed after the transfer and depends on       *)
(* options that were set before it, by this call or by earlier ones.  The   *)
(* inductive invariant says, for every place easy_perform can be at, which  *)
(* of the options it finds are its own.                                     *)
(***************************************************************************)
EXTENDS EasyPerform, TLAPS

-----------------------------------------------------------------------------
(* The inductive invariant *)

\* The options that requests set and nothing but a new handle takes back are
\* the ones of the requests that were made on this handle.
HandleRemembers ==
  /\ "message" \in used <=> opt.readfunc = "read_callback"
  /\ "file" \in used <=> opt.infilesize = "file"
  /\ "response" \in used <=> opt.writefunc # "fwrite"
  /\ "response" \in used <=> opt.writedata # "stdout"

\* Between calls, and until a destination is set, nothing in the handle is a
\* place that a response can be written to.
NoDestinationYet ==
  pc \in {"idle", "source"} \/ (pc = "dest" /\ ~isMultipart)
    => opt.writedata \in {"stdout", "dead"}

SourceIsReady == pc \in {"dest", "transfer"}

\* What the source branches of easy_perform leave in the handle, for each
\* kind of source.
MultipartReady ==
  SourceIsReady /\ isMultipart =>
    /\ mimeOn \in {"current", "old"}
    /\ opt.method = IF mimeOn = "old" THEN "POST" ELSE "MIME"
    /\ opt.postfields = "PostFildsData"
    /\ pc = "dest" =>
         opt.writefunc = "curl_swrite" /\ opt.writedata = "&data"

VariableReady ==
  SourceIsReady /\ ~isMultipart /\ src.Type = "ttVariable" /\ src.Data # Empty =>
    /\ PostFildsData = ANSItoUTF8(src.Data)
    /\ isPosting => /\ opt.method = "PUT" /\ opt.readfunc = "read_callback"
                    /\ opt.readdata = "&wt"
    /\ ~isPosting => opt.method = "POST" /\ opt.postfields = "PostFildsData"

FileReady ==
  SourceIsReady /\ ~isMultipart /\ src.Type = "ttFile" =>
    opt.method = "PUT" /\ opt.readdata = "fd"

\* What the destination branches leave in the handle.
DestinationReady ==
  pc = "transfer" =>
    /\ dst.Type = "ttVariable" =>
         opt.writefunc = "curl_swrite" /\ opt.writedata = "&data"
    /\ dst.Type = "ttFile" =>
         opt.writefunc = "curl_fwrite" /\ opt.writedata = "fp"
    /\ dst.Type = "ttMsg" /\ isMultipart =>
         opt.writefunc = "curl_swrite" /\ opt.writedata = "&data"
    /\ dst.Type = "ttMsg" /\ ~isMultipart =>
         opt.writedata \in {"stdout", "dead"}

\* What was received is text of the server, so it may become the data of the
\* destination.
ReceivedIsResponse == received.body.text \in Response \cup {Empty}

\* The options are the ones this call has set, for each part of the request.
OptionsReady ==
  /\ HandleRemembers /\ NoDestinationYet
  /\ MultipartReady /\ VariableReady /\ FileReady
  /\ DestinationReady

Inv ==
  /\ TypeOK
  /\ ReceivedIsResponse
  /\ OptionsReady
  /\ ProgressRecordLive
  /\ SourceIsSent
  /\ ResponseReachesDestination

-----------------------------------------------------------------------------
(* Lemmas about the operators *)

\* The bodies that a step can put into a variable are bodies.
LEMMA BodyTypes ==
  /\ NoBody \in Body /\ FileBytes \in Body /\ Garbage \in Body
  /\ \A text \in Text \cup Response \cup {Empty} :
       /\ ANSItoUTF8(text) \in Body /\ Encoded("ansi", text) \in Body
       /\ Encoded("sized as file", text) \in Body
  /\ \A parts \in 0 .. MaxParts : MimeBody(parts) \in Body
BY DEF NoBody, FileBytes, Garbage, ANSItoUTF8, MimeBody, Encoded, Body

\* A transfer sends a body, whatever options it finds.
LEMMA BodySentType ==
  ASSUME TypeOK
  PROVE  BodySent(opt) \in Body
<1> DEFINE ansi == Encoded("ansi", src.Data)
           parts == MimeBody(mimeParts)
<1>0. PostFildsData \in Body
  BY DEF TypeOK, Body
<1>1. /\ PostFildsData \in Body /\ NoBody \in Body /\ FileBytes \in Body
      /\ Garbage \in Body /\ ansi \in Body /\ parts \in Body
  BY <1>0, BodyTypes DEF TypeOK, Source
<1>2. /\ opt.method \in {"GET", "POST", "PUT", "MIME"}
      /\ opt.postfields \in {"null", "PostFildsData", "pSrc->Data", "dead"}
  BY DEF TypeOK, Options
<1> HIDE DEF ansi, parts
<1>3. ReadBody(opt) \in Body
  BY <1>1 DEF ReadBody
<1>3a. UploadBody(opt) \in Body
  <2>1. PostFildsData.text \in Text \cup Response \cup {Empty}
    BY DEF TypeOK
  <2> QED
    BY <1>3, <2>1, BodyTypes DEF UploadBody, SizedAsFile
<1>4. PostBody(opt) \in Body
  BY <1>1, <1>2, <1>3 DEF PostBody, ansi
<1> QED
  BY <1>1, <1>2, <1>3a, <1>4 DEF BodySent, parts

\* A response is written to one of the four places a transfer can write to.
LEMMA WriteTargetType ==
  WriteTarget(opt) \in {"data", "file", "stdout", "garbage"}
BY DEF WriteTarget

\* The operators on the options give options.
LEMMA LocalsGoneType ==
  ASSUME NEW o \in Options
  PROVE  LocalsGone(o) \in Options
<1> DEFINE rd == IF o.readdata \in {"&wt", "fd"} THEN "dead" ELSE o.readdata
           wd == IF o.writedata \in {"&data", "fp"} THEN "dead" ELSE o.writedata
           xi == IF o.xferinfo = "&prog" THEN "dead" ELSE o.xferinfo
<1>1. LocalsGone(o) = [o EXCEPT !.readdata = rd, !.writedata = wd, !.xferinfo = xi]
  BY DEF LocalsGone
<1>2. /\ rd \in {"stdin", "&wt", "fd", "dead"}
      /\ wd \in {"stdout", "&data", "fp", "dead"}
      /\ xi \in {"null", "&prog", "dead"}
  BY DEF Options
<1> HIDE DEF rd, wd, xi
<1> QED
  BY <1>1, <1>2 DEF Options

\* A buffer that is replaced only makes a pointer dead.
LEMMA BufferGoneType ==
  ASSUME NEW o \in Options, NEW buffer
  PROVE  BufferGone(o, buffer) \in Options
BY DEF Options, BufferGone

\* The progress settings are options.
LEMMA WithStatusLineType ==
  ASSUME NEW o \in Options, m_StatusLine \in BOOLEAN
  PROVE  WithStatusLine(o) \in Options
BY DEF Options, WithStatusLine

\* A new handle has options.
LEMMA FreshOptionsType == FreshOptions \in Options
BY DEF Options, FreshOptions

\* The end of a call takes no callback and no size out of the handle, and
\* leaves no place to write to.
LEMMA LocalsGoneKeeps ==
  ASSUME NEW o \in Options
  PROVE  LET p == LocalsGone(o) IN
         /\ p.readfunc = o.readfunc /\ p.infilesize = o.infilesize
         /\ p.writefunc = o.writefunc
         /\ p.writedata \in {"stdout", "dead"}
         /\ p.writedata # "stdout" <=> o.writedata # "stdout"
BY DEF Options, LocalsGone

\* A buffer that is replaced changes nothing but the pointer to it.
LEMMA BufferGoneKeeps ==
  ASSUME NEW o \in Options, NEW buffer
  PROVE  LET p == BufferGone(o, buffer) IN
         /\ p.readfunc = o.readfunc /\ p.infilesize = o.infilesize
         /\ p.writefunc = o.writefunc /\ p.writedata = o.writedata
BY DEF Options, BufferGone

\* The progress settings touch nothing else, and switch the callback on only
\* together with the record of this call.
LEMMA WithStatusLineKeeps ==
  ASSUME NEW o \in Options, m_StatusLine \in BOOLEAN
  PROVE  LET p == WithStatusLine(o) IN
         /\ p.method = o.method /\ p.postfields = o.postfields
         /\ p.readfunc = o.readfunc /\ p.readdata = o.readdata
         /\ p.infilesize = o.infilesize
         /\ p.writefunc = o.writefunc /\ p.writedata = o.writedata
         /\ ~p.noprogress => p.xferinfo = "&prog"
<1>1. CASE m_StatusLine
  BY <1>1 DEF Options, WithStatusLine
<1>2. CASE ~m_StatusLine
  BY <1>2 DEF Options, WithStatusLine
<1> QED
  BY <1>1, <1>2

-----------------------------------------------------------------------------
(* Type correctness *)

\* A CcURL object that was just constructed, with a handle that
\* curl_easy_init has just returned, satisfies the invariant.
THEOREM InitInv == Init => Inv
<1> SUFFICES ASSUME Init PROVE Inv
  OBVIOUS
<1>1. TypeOK
  <2>1. src \in Source /\ dst \in Dest
    BY DEF Init, Source, Dest, Type
  <2>2. mimeParts \in 0 .. MaxParts
    BY MaxPartsIsNatural DEF Init
  <2>3. /\ PostFildsData \in [enc : {"utf8"}, text : Text \cup {Empty}]
        /\ sent \in Body /\ received.body \in Body
    BY BodyTypes DEF Init, Encoded, NoResponse
  <2> QED
    BY <2>1, <2>2, <2>3, FreshOptionsType DEF Init, TypeOK, NoResponse
<1>2. ReceivedIsResponse
  BY DEF Init, ReceivedIsResponse, NoResponse, NoBody, Encoded
<1>3. OptionsReady /\ ProgressRecordLive
  BY DEF Init, FreshOptions, OptionsReady, HandleRemembers, NoDestinationYet,
         MultipartReady, VariableReady, FileReady, DestinationReady,
         SourceIsReady, ProgressRecordLive
<1>4. SourceIsSent /\ ResponseReachesDestination
  BY DEF Init, SourceIsSent, VariableSourceIsSent, FileSourceIsSent,
         MultipartIsSent, ResponseReachesDestination, Transferred
<1> QED
  BY <1>1, <1>2, <1>3, <1>4 DEF Inv

\* Every step keeps the types.  Finish needs that what was received is a
\* response, because it becomes the data of the destination.
LEMMA TypeStep ==
  ASSUME TypeOK, ReceivedIsResponse, [Next]_vars
  PROVE  TypeOK'
<1> USE DEF TypeOK
<1>1. ASSUME NEW v \in Source, SetSource(v) PROVE TypeOK'
  BY <1>1, BufferGoneType, ZenonT(120) DEF SetSource, history, call
<1>2. ASSUME NEW v \in Dest, SetDest(v) PROVE TypeOK'
  BY <1>2, ZenonT(120) DEF SetDest, history, call
<1>3. ASSUME NEW on \in BOOLEAN, StatusLine(on) PROVE TypeOK'
  BY <1>3, ZenonT(120) DEF StatusLine, history, call
<1>4. ASSUME NEW text \in Text \cup {Empty}, SetoptPostfields(text)
      PROVE  TypeOK'
  <2>1. opt' \in Options
    BY <1>4 DEF SetoptPostfields, Options
  <2>2. src' \in Source
    BY <1>4 DEF SetoptPostfields, Source
  <2> QED
    BY <1>4, <2>1, <2>2, ZenonT(120) DEF SetoptPostfields, history, call
<1>5. CASE SetoptMailRcpt
  BY <1>5, ZenonT(120) DEF SetoptMailRcpt, history, call
<1>6. ASSUME NEW m \in {"GET", "POST", "PUT"}, SetoptMethod(m) PROVE TypeOK'
  <2>1. opt' \in Options
    BY <1>6 DEF SetoptMethod, Options
  <2> QED
    BY <1>6, <2>1, ZenonT(120) DEF SetoptMethod, history, call, object
<1>7. CASE mime_init
  BY <1>7, ZenonT(120) DEF mime_init, history, call
<1>8. CASE AddPart
  <2>1. mimeParts \in 0 .. MaxParts
    BY DEF TypeOK
  <2>2. mimeParts < MaxParts /\ mimeParts' = mimeParts + 1
    BY <1>8 DEF AddPart
  <2>3. mimeParts' \in 0 .. MaxParts
    <3> HIDE DEF TypeOK
    <3> QED
      BY <2>1, <2>2, MaxPartsIsNatural
  <2> QED
    BY <1>8, <2>3, ZenonT(120) DEF AddPart, history, call
<1>9. CASE easy_cleanup
  BY <1>9, FreshOptionsType, ZenonT(120) DEF easy_cleanup, history, call
<1>10. CASE PerformStart
  BY <1>10, ZenonT(120) DEF PerformStart, object
<1>11. CASE SourceMultipart
  <2>1. opt' \in Options
    BY <1>11, ZenonT(120) DEF SourceMultipart, Options
  <2> QED
    BY <1>11, <2>1, ZenonT(120) DEF SourceMultipart, history, call
<1>12. CASE SourceVariable
  <2> DEFINE o == BufferGone(opt, "PostFildsData")
  <2>1. o \in Options
    BY BufferGoneType
  <2> HIDE DEF o
  <2>2. opt' \in Options
    <3>1. CASE isPosting
      BY <1>12, <2>1, <3>1, ZenonT(120) DEF SourceVariable, Options, o
    <3>2. CASE ~isPosting
      BY <1>12, <2>1, <3>2 DEF SourceVariable, Options, o
    <3> QED
      BY <3>1, <3>2
  <2>3. PostFildsData' \in [enc : {"utf8"}, text : Text \cup {Empty}]
    BY <1>12 DEF SourceVariable, Source, ANSItoUTF8, Encoded
  <2> QED
    BY <1>12, <2>2, <2>3, ZenonT(120) DEF SourceVariable, history, call
<1>13. CASE SourceNothing
  BY <1>13, ZenonT(120) DEF SourceNothing, history, call, object
<1>14. CASE SourceFile
  <2>1. opt' \in Options
    BY <1>14 DEF SourceFile, Options
  <2> QED
    BY <1>14, <2>1, ZenonT(120) DEF SourceFile, object
<1>15. CASE SourceFileFails
  BY <1>15, LocalsGoneType DEF SourceFileFails, RaiseRuntimeError, object
<1>16. CASE DestVariable
  <2> DEFINE o == [opt EXCEPT !.writedata = "&data", !.writefunc = "curl_swrite"]
  <2>1. o \in Options
    BY DEF Options
  <2>2. opt' = WithStatusLine(o)
    BY <1>16 DEF DestVariable
  <2> HIDE DEF o
  <2> QED
    BY <1>16, <2>1, <2>2, WithStatusLineType, ZenonT(120) DEF DestVariable, call, object
<1>17. CASE DestFile
  <2> DEFINE o == [opt EXCEPT !.writedata = "fp", !.writefunc = "curl_fwrite"]
  <2>1. o \in Options
    BY DEF Options
  <2>2. opt' = WithStatusLine(o)
    BY <1>17 DEF DestFile
  <2> HIDE DEF o
  <2> QED
    BY <1>17, <2>1, <2>2, WithStatusLineType, ZenonT(120) DEF DestFile, object
<1>18. CASE DestFileFails
  BY <1>18, LocalsGoneType, ZenonT(120) DEF DestFileFails, RaiseRuntimeError, object
<1>19. CASE DestMsg
  BY <1>19, WithStatusLineType, ZenonT(120) DEF DestMsg, history, call, object
<1>20. ASSUME NEW text \in Response \cup {Empty}, NEW ok \in BOOLEAN,
              Transfer(text, ok)
       PROVE  TypeOK'
  <2>1. Encoded("utf8", text) \in Body
    BY BodyTypes DEF ANSItoUTF8
  <2>2. received' \in [body : Body, target : {"none", "data", "file", "stdout", "garbage"}]
    BY <1>20, <2>1, WriteTargetType DEF Transfer
  <2>3. sent' \in Body /\ result' \in {"none", "ok", "failed"}
    BY <1>20, BodySentType DEF Transfer
  <2> QED
    BY <1>20, <2>2, <2>3, ZenonT(120) DEF Transfer, object
<1>21. CASE CloseFiles
  BY <1>21, ZenonT(120) DEF CloseFiles, object
<1>22. CASE Finish
  BY <1>22, LocalsGoneType, BodyTypes
  DEF Finish, Dest, NoResponse, UTF8toANSI, ReceivedIsResponse
<1>23. CASE UNCHANGED vars
  <2>1. /\ isPosting' = isPosting /\ isMultipart' = isMultipart
        /\ m_StatusLine' = m_StatusLine
    BY <1>23, Zenon DEF vars, object
  <2>2. /\ opt' = opt /\ src' = src /\ dst' = dst
        /\ PostFildsData' = PostFildsData
        /\ mimeOn' = mimeOn /\ mimeParts' = mimeParts /\ pc' = pc
        /\ fd' = fd /\ fp' = fp /\ sent' = sent /\ received' = received
        /\ result' = result /\ fault' = fault /\ used' = used
    BY <1>23, Zenon DEF vars, object
  <2>3. isPosting' \in BOOLEAN /\ isMultipart' \in BOOLEAN /\ m_StatusLine' \in BOOLEAN
    BY <2>1, Zenon
  <2> QED
    BY <2>2, <2>3, ZenonT(120)
<1> QED
  BY <1>1, <1>2, <1>3, <1>4, <1>5, <1>6, <1>7, <1>8, <1>9, <1>10, <1>11, <1>12,
     <1>13, <1>14, <1>15, <1>16, <1>17, <1>18, <1>19, <1>20, <1>21, <1>22, <1>23
  DEF Next

-----------------------------------------------------------------------------
(* The order of the steps of easy_perform *)

\* easy_perform is a straight line: every place of it is reached by the steps
\* of the place before it and by no other operation.
LEMMA ControlFlow ==
  ASSUME Next
  PROVE  /\ pc' = "dest" => \/ SourceMultipart \/ SourceVariable
                            \/ SourceNothing \/ SourceFile
         /\ pc' = "transfer" => DestVariable \/ DestFile \/ DestMsg
         /\ pc' = "close" =>
              \E text \in Response \cup {Empty}, ok \in BOOLEAN : Transfer(text, ok)
         /\ pc' = "finish" => CloseFiles
<1> DEFINE Places == {"dest", "transfer", "close", "finish"}
<1>1. ASSUME \/ \E v \in Source : SetSource(v)
             \/ \E v \in Dest : SetDest(v)
             \/ \E on \in BOOLEAN : StatusLine(on)
             \/ \E text \in Text \cup {Empty} : SetoptPostfields(text)
             \/ SetoptMailRcpt
             \/ \E m \in {"GET", "POST", "PUT"} : SetoptMethod(m)
             \/ mime_init \/ AddPart \/ easy_cleanup \/ PerformStart
      PROVE  pc' \notin Places
  BY <1>1 DEF SetSource, SetDest, StatusLine, SetoptPostfields, SetoptMailRcpt,
              SetoptMethod, mime_init, AddPart, easy_cleanup, PerformStart
<1>2. ASSUME SourceFileFails \/ DestFileFails \/ Finish
      PROVE  pc' \notin Places
  BY <1>2 DEF SourceFileFails, DestFileFails, RaiseRuntimeError, Finish
<1>3. SourceMultipart \/ SourceVariable \/ SourceNothing \/ SourceFile
      => pc' = "dest"
  BY DEF SourceMultipart, SourceVariable, SourceNothing, SourceFile
<1>4. DestVariable \/ DestFile \/ DestMsg => pc' = "transfer"
  BY DEF DestVariable, DestFile, DestMsg
<1>5. ASSUME NEW text \in Response \cup {Empty}, NEW ok \in BOOLEAN,
             Transfer(text, ok)
      PROVE  pc' = "close"
  BY <1>5 DEF Transfer
<1>6. CloseFiles => pc' = "finish"
  BY DEF CloseFiles
<1> QED
  BY <1>1, <1>2, <1>3, <1>4, <1>5, <1>6 DEF Next

\* Once easy_perform has started, the object stays as it was until it has
\* finished, but for the buffer and the multipart body it fills itself.
LEMMA CallKeepsObject ==
  ASSUME Next, pc' \in {"dest", "transfer", "close", "finish"}
  PROVE  /\ src' = src /\ dst' = dst /\ mimeParts' = mimeParts
         /\ isPosting' = isPosting /\ isMultipart' = isMultipart
         /\ pc' # "dest" => PostFildsData' = PostFildsData /\ mimeOn' = mimeOn
         /\ pc' \in {"close", "finish"} => used' = used
<1>1. CASE SourceMultipart \/ SourceVariable \/ SourceNothing \/ SourceFile
  BY <1>1, Zenon DEF SourceMultipart, SourceVariable, SourceNothing, SourceFile, object
<1>2. CASE DestVariable \/ DestFile \/ DestMsg
  BY <1>2, Zenon DEF DestVariable, DestFile, DestMsg, object
<1>3. CASE \E text \in Response \cup {Empty}, ok \in BOOLEAN : Transfer(text, ok)
  BY <1>3, Zenon DEF Transfer, object
<1>4. CASE CloseFiles
  BY <1>4, Zenon DEF CloseFiles, object
<1> QED
  BY <1>1, <1>2, <1>3, <1>4, ControlFlow

\* A step that changes nothing keeps the invariant.
LEMMA StutterKeepsInv ==
  ASSUME Inv, UNCHANGED vars
  PROVE  Inv'
<1>1. /\ opt' = opt /\ src' = src /\ dst' = dst
      /\ PostFildsData' = PostFildsData
      /\ mimeOn' = mimeOn /\ mimeParts' = mimeParts /\ pc' = pc
      /\ fd' = fd /\ fp' = fp /\ sent' = sent /\ received' = received
      /\ isPosting' = isPosting /\ isMultipart' = isMultipart /\ used' = used
    BY Zenon DEF vars, object
<1>2. TypeOK'
  BY TypeStep DEF Inv
<1>3. ReceivedIsResponse' /\ OptionsReady'
  BY <1>1 DEF Inv, ReceivedIsResponse, OptionsReady, HandleRemembers,
         NoDestinationYet, MultipartReady, VariableReady, FileReady, DestinationReady,
         SourceIsReady
<1>4. ProgressRecordLive' /\ ResponseReachesDestination'
  BY <1>1 DEF Inv, ProgressRecordLive, ResponseReachesDestination, Transferred
<1>5. SourceIsSent'
  BY <1>1 DEF Inv, SourceIsSent, VariableSourceIsSent, FileSourceIsSent,
              MultipartIsSent, Transferred
<1> QED
  BY <1>2, <1>3, <1>4, <1>5 DEF Inv

-----------------------------------------------------------------------------
(* The step of each conjunct *)

\* Only a transfer receives, and what it receives is an answer of the server.
LEMMA ReceivedStep ==
  ASSUME Inv, Next
  PROVE  ReceivedIsResponse'
<1>1. CASE \E text \in Response \cup {Empty}, ok \in BOOLEAN : Transfer(text, ok)
  <2>1. PICK text \in Response \cup {Empty}, ok \in BOOLEAN : Transfer(text, ok)
    BY <1>1
  <2>2. received'.body.text = text
    BY <2>1 DEF Transfer, Encoded
  <2> QED
    BY <2>2 DEF ReceivedIsResponse
<1>2. CASE Finish
  BY <1>2 DEF Finish, ReceivedIsResponse, NoResponse, NoBody, Encoded
<1>3. CASE UNCHANGED received
  BY <1>3 DEF Inv, ReceivedIsResponse
<1> QED
  BY <1>1, <1>2, <1>3, Zenon
  DEF Next, SetSource, SetDest, StatusLine, SetoptPostfields, SetoptMailRcpt,
      SetoptMethod, mime_init, AddPart, easy_cleanup, PerformStart,
      SourceMultipart, SourceVariable, SourceNothing, SourceFile,
      SourceFileFails, DestVariable, DestFile, DestFileFails, DestMsg,
      CloseFiles, history, call

\* What each operation leaves in the handle: the callbacks, the size and the
\* place to write to change together with the history, or not at all.
LEMMA HandleStep ==
  ASSUME Inv, Next
  PROVE  HandleRemembers'
<1>0. /\ opt \in Options /\ isPosting \in BOOLEAN /\ m_StatusLine \in BOOLEAN
      /\ HandleRemembers
  BY DEF Inv, TypeOK, OptionsReady
<1> DEFINE Same(o) == /\ o.readfunc = opt.readfunc /\ o.infilesize = opt.infilesize
                      /\ o.writefunc = opt.writefunc
                      /\ o.writedata # "stdout" <=> opt.writedata # "stdout"
<1>1. ASSUME Same(opt'), used' = used PROVE HandleRemembers'
  BY <1>0, <1>1 DEF HandleRemembers
<1>2. CASE \E v \in Source : SetSource(v)
  BY <1>0, <1>1, <1>2, BufferGoneKeeps DEF SetSource, history
<1>3. CASE \E text \in Text \cup {Empty} : SetoptPostfields(text)
  BY <1>0, <1>1, <1>3 DEF SetoptPostfields, Options, history
<1>4. CASE \E m \in {"GET", "POST", "PUT"} : SetoptMethod(m)
  BY <1>0, <1>1, <1>4 DEF SetoptMethod, Options, history
<1>5. CASE easy_cleanup
  BY <1>5 DEF easy_cleanup, FreshOptions, HandleRemembers
<1>6. CASE SourceMultipart
  BY <1>0, <1>6 DEF SourceMultipart, Options, HandleRemembers
<1>7. CASE SourceVariable
  <2> DEFINE o == BufferGone(opt, "PostFildsData")
  <2>1. o \in Options /\ Same(o)
    BY <1>0, BufferGoneType, BufferGoneKeeps
  <2>2. CASE isPosting
    <3>1. /\ opt' = [o EXCEPT !.readfunc = "read_callback", !.readdata = "&wt",
                              !.method = "PUT"]
          /\ used' = used \cup {"message"}
      BY <1>7, <2>2 DEF SourceVariable
    <3> HIDE DEF o
    <3> QED
      BY <1>0, <2>1, <3>1 DEF Options, HandleRemembers
  <2>3. CASE ~isPosting
    <3>1. /\ opt' = [o EXCEPT !.postfields = "PostFildsData", !.method = "POST"]
          /\ used' = used
      BY <1>7, <2>3 DEF SourceVariable
    <3> HIDE DEF o
    <3> QED
      BY <1>1, <2>1, <3>1 DEF Options
  <2> QED
    BY <2>2, <2>3
<1>8. CASE SourceFile
  BY <1>0, <1>8 DEF SourceFile, Options, HandleRemembers
<1>9. CASE SourceFileFails \/ DestFileFails \/ Finish
  BY <1>0, <1>1, <1>9, LocalsGoneKeeps DEF SourceFileFails, DestFileFails, Finish
<1>10. CASE DestVariable
  <2> DEFINE o == [opt EXCEPT !.writedata = "&data", !.writefunc = "curl_swrite"]
  <2>1. /\ o \in Options /\ o.readfunc = opt.readfunc
        /\ o.infilesize = opt.infilesize
        /\ o.writefunc = "curl_swrite" /\ o.writedata = "&data"
    BY <1>0 DEF Options
  <2>2. opt' = WithStatusLine(o) /\ used' = used \cup {"response"}
    BY <1>10 DEF DestVariable
  <2> HIDE DEF o
  <2>3. /\ opt'.readfunc = opt.readfunc /\ opt'.infilesize = opt.infilesize
        /\ opt'.writefunc = "curl_swrite" /\ opt'.writedata = "&data"
    BY <1>0, <2>1, <2>2, WithStatusLineKeeps
  <2> QED
    BY <1>0, <2>2, <2>3 DEF HandleRemembers
<1>11. CASE DestFile
  <2> DEFINE o == [opt EXCEPT !.writedata = "fp", !.writefunc = "curl_fwrite"]
  <2>1. /\ o \in Options /\ o.readfunc = opt.readfunc
        /\ o.infilesize = opt.infilesize
        /\ o.writefunc = "curl_fwrite" /\ o.writedata = "fp"
    BY <1>0 DEF Options
  <2>2. opt' = WithStatusLine(o) /\ used' = used \cup {"response"}
    BY <1>11 DEF DestFile
  <2> HIDE DEF o
  <2>3. /\ opt'.readfunc = opt.readfunc /\ opt'.infilesize = opt.infilesize
        /\ opt'.writefunc = "curl_fwrite" /\ opt'.writedata = "fp"
    BY <1>0, <2>1, <2>2, WithStatusLineKeeps
  <2> QED
    BY <1>0, <2>2, <2>3 DEF HandleRemembers
<1>12. CASE DestMsg
  BY <1>0, <1>1, <1>12, WithStatusLineKeeps DEF DestMsg, history
<1>13. CASE UNCHANGED <<opt, used>>
  BY <1>1, <1>13
<1> QED
  BY <1>2, <1>3, <1>4, <1>5, <1>6, <1>7, <1>8, <1>9, <1>10, <1>11, <1>12,
     <1>13, Zenon
  DEF Next, SetDest, StatusLine, SetoptMailRcpt, mime_init, AddPart,
      PerformStart, SourceNothing, Transfer, CloseFiles, history

\* What the destination branches do with the options: they set the place the
\* response goes to and the progress record, and leave the source alone.
LEMMA DestinationOptions ==
  ASSUME TypeOK, DestVariable \/ DestFile \/ DestMsg
  PROVE  /\ opt'.method = opt.method /\ opt'.postfields = opt.postfields
         /\ opt'.readfunc = opt.readfunc /\ opt'.readdata = opt.readdata
         /\ ~opt'.noprogress => opt'.xferinfo = "&prog"
         /\ dst.Type = "ttMsg" =>
              opt'.writefunc = opt.writefunc /\ opt'.writedata = opt.writedata
         /\ dst.Type = "ttVariable" =>
              opt'.writefunc = "curl_swrite" /\ opt'.writedata = "&data"
         /\ dst.Type = "ttFile" =>
              opt'.writefunc = "curl_fwrite" /\ opt'.writedata = "fp"
<1>0. opt \in Options /\ m_StatusLine \in BOOLEAN
  BY DEF TypeOK
<1>1. CASE DestVariable
  <2> DEFINE o == [opt EXCEPT !.writedata = "&data", !.writefunc = "curl_swrite"]
  <2>1. /\ o \in Options
        /\ o.method = opt.method /\ o.postfields = opt.postfields
        /\ o.readfunc = opt.readfunc /\ o.readdata = opt.readdata
        /\ o.writefunc = "curl_swrite" /\ o.writedata = "&data"
    BY <1>0 DEF Options
  <2>2. opt' = WithStatusLine(o) /\ dst.Type = "ttVariable"
    BY <1>1 DEF DestVariable
  <2> HIDE DEF o
  <2> QED
    BY <1>0, <2>1, <2>2, WithStatusLineKeeps
<1>2. CASE DestFile
  <2> DEFINE o == [opt EXCEPT !.writedata = "fp", !.writefunc = "curl_fwrite"]
  <2>1. /\ o \in Options
        /\ o.method = opt.method /\ o.postfields = opt.postfields
        /\ o.readfunc = opt.readfunc /\ o.readdata = opt.readdata
        /\ o.writefunc = "curl_fwrite" /\ o.writedata = "fp"
    BY <1>0 DEF Options
  <2>2. opt' = WithStatusLine(o) /\ dst.Type = "ttFile"
    BY <1>2 DEF DestFile
  <2> HIDE DEF o
  <2> QED
    BY <1>0, <2>1, <2>2, WithStatusLineKeeps
<1>3. CASE DestMsg
  BY <1>0, <1>3, WithStatusLineKeeps DEF DestMsg
<1> QED
  BY <1>1, <1>2, <1>3

\* The multipart branch is the only one taken once mime_init was called, and
\* the destination branches leave its options alone.
LEMMA MultipartStep ==
  ASSUME Inv, Next
  PROVE  MultipartReady'
<1> SUFFICES ASSUME pc' \in {"dest", "transfer"}, isMultipart'
             PROVE  /\ mimeOn' \in {"current", "old"}
                    /\ opt'.method = IF mimeOn' = "old" THEN "POST" ELSE "MIME"
                    /\ opt'.postfields = "PostFildsData"
                    /\ pc' = "dest" => /\ opt'.writefunc = "curl_swrite"
                                       /\ opt'.writedata = "&data"
  BY DEF MultipartReady, SourceIsReady
<1>0. isMultipart /\ TypeOK
  BY CallKeepsObject DEF Inv
<1>1. CASE pc' = "dest"
  <2>1. SourceMultipart
    BY <1>0, <1>1, ControlFlow
    DEF SourceVariable, SourceNothing, SourceFile
  <2> QED
    BY <1>0, <2>1 DEF SourceMultipart, TypeOK, Options
<1>2. CASE pc' = "transfer"
  <2>1. DestVariable \/ DestFile \/ DestMsg
    BY <1>2, ControlFlow
  <2>2. pc = "dest" /\ mimeOn' = mimeOn
    BY <1>2, <2>1, CallKeepsObject DEF DestVariable, DestFile, DestMsg
  <2> QED
    BY <1>0, <1>2, <2>1, <2>2, DestinationOptions
    DEF Inv, OptionsReady, MultipartReady, SourceIsReady
<1> QED
  BY <1>1, <1>2

\* The same for a variable: either the callback reads the buffer that was
\* just filled, or CURLOPT_POSTFIELDS points to it.
LEMMA VariableStep ==
  ASSUME Inv, Next
  PROVE  VariableReady'
<1> SUFFICES ASSUME pc' \in {"dest", "transfer"}, ~isMultipart',
                    src'.Type = "ttVariable", src'.Data # Empty
             PROVE  /\ PostFildsData' = ANSItoUTF8(src'.Data)
                    /\ isPosting' => /\ opt'.method = "PUT"
                                     /\ opt'.readfunc = "read_callback"
                                     /\ opt'.readdata = "&wt"
                    /\ ~isPosting' => /\ opt'.method = "POST"
                                      /\ opt'.postfields = "PostFildsData"
  BY DEF VariableReady, SourceIsReady
<1>0. ~isMultipart /\ src' = src /\ isPosting' = isPosting /\ TypeOK
  BY CallKeepsObject DEF Inv
<1>1. CASE pc' = "dest"
  <2>1. SourceVariable
    BY <1>0, <1>1, ControlFlow
    DEF SourceMultipart, SourceNothing, SourceFile
  <2> DEFINE o == BufferGone(opt, "PostFildsData")
  <2>2. o \in Options
    BY <1>0, BufferGoneType DEF TypeOK
  <2>3. CASE isPosting
    <3>1. opt' = [o EXCEPT !.readfunc = "read_callback", !.readdata = "&wt",
                           !.method = "PUT"]
      BY <2>1, <2>3 DEF SourceVariable
    <3> HIDE DEF o
    <3>2. /\ opt'.method = "PUT" /\ opt'.readfunc = "read_callback"
          /\ opt'.readdata = "&wt"
      BY <2>2, <3>1 DEF Options
    <3> QED
      BY <1>0, <2>1, <3>2 DEF SourceVariable
  <2>4. CASE ~isPosting
    <3>1. opt' = [o EXCEPT !.postfields = "PostFildsData", !.method = "POST"]
      BY <2>1, <2>4 DEF SourceVariable
    <3> HIDE DEF o
    <3>2. opt'.method = "POST" /\ opt'.postfields = "PostFildsData"
      BY <2>2, <3>1 DEF Options
    <3> QED
      BY <1>0, <2>1, <3>2 DEF SourceVariable
  <2> QED
    BY <2>3, <2>4
<1>2. CASE pc' = "transfer"
  <2>1. DestVariable \/ DestFile \/ DestMsg
    BY <1>2, ControlFlow
  <2>2. pc = "dest" /\ PostFildsData' = PostFildsData
    BY <1>2, <2>1, CallKeepsObject DEF DestVariable, DestFile, DestMsg
  <2>3. /\ PostFildsData = ANSItoUTF8(src.Data)
        /\ isPosting => /\ opt.method = "PUT" /\ opt.readfunc = "read_callback"
                        /\ opt.readdata = "&wt"
        /\ ~isPosting => opt.method = "POST" /\ opt.postfields = "PostFildsData"
    BY <1>0, <2>2 DEF Inv, OptionsReady, VariableReady, SourceIsReady
  <2>4. /\ opt'.method = opt.method /\ opt'.postfields = opt.postfields
        /\ opt'.readfunc = opt.readfunc /\ opt'.readdata = opt.readdata
    BY <1>0, <2>1, DestinationOptions
  <2> QED
    BY <1>0, <2>2, <2>3, <2>4
<1> QED
  BY <1>1, <1>2

\* The same for a file.
LEMMA FileStep ==
  ASSUME Inv, Next
  PROVE  FileReady'
<1> SUFFICES ASSUME pc' \in {"dest", "transfer"}, ~isMultipart',
                    src'.Type = "ttFile"
             PROVE  opt'.method = "PUT" /\ opt'.readdata = "fd"
  BY DEF FileReady, SourceIsReady
<1>0. ~isMultipart /\ src' = src /\ TypeOK
  BY CallKeepsObject DEF Inv
<1>1. CASE pc' = "dest"
  <2>1. SourceFile
    BY <1>0, <1>1, ControlFlow
    DEF SourceMultipart, SourceVariable, SourceNothing
  <2> QED
    BY <1>0, <2>1 DEF SourceFile, TypeOK, Options
<1>2. CASE pc' = "transfer"
  <2>1. DestVariable \/ DestFile \/ DestMsg
    BY <1>2, ControlFlow
  <2>2. pc = "dest"
    BY <2>1 DEF DestVariable, DestFile, DestMsg
  <2> QED
    BY <1>0, <2>1, <2>2, DestinationOptions
    DEF Inv, OptionsReady, FileReady, SourceIsReady
<1> QED
  BY <1>1, <1>2

\* A transfer starts with the write callback, its data and the progress
\* record of this call.
LEMMA DestinationStep ==
  ASSUME Inv, Next
  PROVE  DestinationReady' /\ ProgressRecordLive'
<1> SUFFICES ASSUME pc' = "transfer"
             PROVE  DestinationReady' /\ ProgressRecordLive'
  BY DEF DestinationReady, ProgressRecordLive
<1>1. DestVariable \/ DestFile \/ DestMsg
  BY ControlFlow
<1>2. dst' = dst /\ isMultipart' = isMultipart /\ TypeOK
  BY CallKeepsObject DEF Inv
<1>3. pc = "dest"
  BY <1>1 DEF DestVariable, DestFile, DestMsg
<1>4. /\ isMultipart => opt.writefunc = "curl_swrite" /\ opt.writedata = "&data"
      /\ ~isMultipart => opt.writedata \in {"stdout", "dead"}
  BY <1>3 DEF Inv, OptionsReady, MultipartReady, NoDestinationYet, SourceIsReady
<1> QED
  BY <1>1, <1>2, <1>4, DestinationOptions DEF DestinationReady, ProgressRecordLive

\* No operation between two calls, and no source but a multipart body, gives
\* the handle a place to write to.
LEMMA NoDestinationStep ==
  ASSUME Inv, Next
  PROVE  NoDestinationYet'
<1> SUFFICES ASSUME pc' \in {"idle", "source"} \/ (pc' = "dest" /\ ~isMultipart')
             PROVE  opt'.writedata \in {"stdout", "dead"}
  BY DEF NoDestinationYet
<1>0. opt \in Options /\ TypeOK
  BY DEF Inv, TypeOK
<1>1. pc \in {"idle", "source"} => opt.writedata \in {"stdout", "dead"}
  BY DEF Inv, OptionsReady, NoDestinationYet
<1>2. CASE \E v \in Source : SetSource(v)
  BY <1>0, <1>1, <1>2, BufferGoneKeeps DEF SetSource
<1>3. CASE \E text \in Text \cup {Empty} : SetoptPostfields(text)
  BY <1>0, <1>1, <1>3 DEF SetoptPostfields, Options
<1>4. CASE \E m \in {"GET", "POST", "PUT"} : SetoptMethod(m)
  BY <1>0, <1>1, <1>4 DEF SetoptMethod, Options
<1>5. CASE easy_cleanup
  BY <1>5 DEF easy_cleanup, FreshOptions
<1>6. CASE SourceFileFails \/ DestFileFails \/ Finish
  BY <1>0, <1>6, LocalsGoneKeeps DEF SourceFileFails, DestFileFails, Finish
<1>7. CASE SourceVariable
  <2> DEFINE o == BufferGone(opt, "PostFildsData")
  <2>1. o \in Options /\ o.writedata \in {"stdout", "dead"}
    BY <1>0, <1>1, <1>7, BufferGoneType, BufferGoneKeeps DEF SourceVariable
  <2>2. \/ opt' = [o EXCEPT !.readfunc = "read_callback", !.readdata = "&wt",
                            !.method = "PUT"]
        \/ opt' = [o EXCEPT !.postfields = "PostFildsData", !.method = "POST"]
    BY <1>7 DEF SourceVariable
  <2> HIDE DEF o
  <2> QED
    BY <2>1, <2>2 DEF Options
<1>8. CASE SourceFile
  BY <1>0, <1>1, <1>8 DEF SourceFile, Options
<1>9. CASE SourceMultipart
  BY <1>9 DEF SourceMultipart
<1>10. CASE DestVariable \/ DestFile \/ DestMsg
  BY <1>10 DEF DestVariable, DestFile, DestMsg
<1>11. CASE \/ CloseFiles
            \/ \E text \in Response \cup {Empty}, ok \in BOOLEAN : Transfer(text, ok)
  BY <1>11 DEF CloseFiles, Transfer
<1>12. CASE UNCHANGED opt /\ pc \in {"idle", "source"}
  BY <1>1, <1>12
<1> QED
  BY <1>2, <1>3, <1>4, <1>5, <1>6, <1>7, <1>8, <1>9, <1>10, <1>11, <1>12
  DEF Next, SetDest, StatusLine, SetoptMailRcpt, mime_init, AddPart,
      PerformStart, SourceNothing

-----------------------------------------------------------------------------
(* What a transfer sends and where the response goes *)

\* The body that follows from the options, one lemma per way to send it.
LEMMA PutSendsTheBuffer ==
  ASSUME opt.method = "PUT", opt.readfunc = "read_callback", opt.readdata = "&wt"
  PROVE  BodySent(opt) = IF opt.infilesize = "file" THEN SizedAsFile(PostFildsData)
                         ELSE PostFildsData
<1>1. BodySent(opt) = UploadBody(opt)
  BY Zenon DEF BodySent
<1>2. ReadBody(opt) = PostFildsData
  BY Zenon DEF ReadBody
<1> QED
  BY <1>1, <1>2 DEF UploadBody

\* A POST with CURLOPT_POSTFIELDS sends the buffer it points to.
LEMMA PostSendsTheBuffer ==
  ASSUME opt.method = "POST", opt.postfields = "PostFildsData"
  PROVE  BodySent(opt) = PostFildsData
BY Zenon DEF BodySent, PostBody

\* An upload with libcurl's own reader sends the file it was given.
LEMMA PutSendsTheFile ==
  ASSUME opt.method = "PUT", opt.readfunc = "fread", opt.readdata = "fd"
  PROVE  BodySent(opt) = FileBytes
BY Zenon DEF BodySent, UploadBody, ReadBody

\* A message's callback that is given a file reads no file.
LEMMA CallbackMisreadsTheFile ==
  ASSUME opt.method = "PUT", opt.readfunc = "read_callback", opt.readdata = "fd"
  PROVE  BodySent(opt) = Garbage
<1>1. BodySent(opt) = UploadBody(opt)
  BY Zenon DEF BodySent
<1>2. ReadBody(opt) = Garbage
  BY DEF ReadBody
<1> QED
  BY <1>1, <1>2 DEF UploadBody

\* A multipart request sends the parts.
LEMMA MimeSendsTheParts ==
  ASSUME opt.method = "MIME"
  PROVE  BodySent(opt) = MimeBody(mimeParts)
BY Zenon DEF BodySent

\* The callback and its data decide where the response goes.
LEMMA TargetOfOptions ==
  /\ opt.writefunc = "curl_swrite" /\ opt.writedata = "&data"
       => WriteTarget(opt) = "data"
  /\ opt.writefunc = "curl_fwrite" /\ opt.writedata = "fp"
       => WriteTarget(opt) = "file"
  /\ opt.writefunc = "fwrite" /\ opt.writedata = "stdout"
       => WriteTarget(opt) = "stdout"
  /\ opt.writedata = "dead" => WriteTarget(opt) = "garbage"
<1>1. ASSUME opt.writefunc = "curl_swrite", opt.writedata = "&data"
      PROVE  WriteTarget(opt) = "data"
  BY <1>1, Zenon DEF WriteTarget
<1>2. ASSUME opt.writefunc = "curl_fwrite", opt.writedata = "fp"
      PROVE  WriteTarget(opt) = "file"
  BY <1>2, Zenon DEF WriteTarget
<1>3. ASSUME opt.writefunc = "fwrite", opt.writedata = "stdout"
      PROVE  WriteTarget(opt) = "stdout"
  BY <1>3, Zenon DEF WriteTarget
<1>4. ASSUME opt.writedata = "dead"
      PROVE  WriteTarget(opt) = "garbage"
  BY <1>4 DEF WriteTarget
<1> QED
  BY <1>1, <1>2, <1>3, <1>4

\* The transfer itself: with the options this call has set, the body is the
\* one of this call's source, but for what the handle remembers.
LEMMA TransferSendsSource ==
  ASSUME Inv, pc = "transfer"
  PROVE  /\ ~isMultipart /\ src.Type = "ttVariable" /\ src.Data # Empty
              => BodySent(opt) = IF isPosting /\ "file" \in used
                                 THEN SizedAsFile(ANSItoUTF8(src.Data))
                                 ELSE ANSItoUTF8(src.Data)
         /\ ~isMultipart /\ src.Type = "ttFile"
              => BodySent(opt) = IF "message" \in used THEN Garbage ELSE FileBytes
         /\ isMultipart
              => BodySent(opt) = IF mimeOn = "old" THEN PostFildsData
                                 ELSE MimeBody(mimeParts)
<1>0. /\ "file" \in used <=> opt.infilesize = "file"
      /\ "message" \in used <=> opt.readfunc = "read_callback"
      /\ opt.readfunc \in {"fread", "read_callback"}
      /\ isPosting \in BOOLEAN
  BY DEF Inv, TypeOK, Options, OptionsReady, HandleRemembers
<1>1. ASSUME ~isMultipart, src.Type = "ttVariable", src.Data # Empty
      PROVE  BodySent(opt) = IF isPosting /\ "file" \in used
                             THEN SizedAsFile(ANSItoUTF8(src.Data))
                             ELSE ANSItoUTF8(src.Data)
  <2>0. PostFildsData = ANSItoUTF8(src.Data)
    BY <1>1 DEF Inv, OptionsReady, VariableReady, SourceIsReady
  <2>1. CASE isPosting
    <3>1. /\ opt.method = "PUT" /\ opt.readfunc = "read_callback"
          /\ opt.readdata = "&wt"
      BY <1>1, <2>1 DEF Inv, OptionsReady, VariableReady, SourceIsReady
    <3> QED
      BY <1>0, <2>0, <2>1, <3>1, PutSendsTheBuffer
  <2>2. CASE ~isPosting
    <3>1. opt.method = "POST" /\ opt.postfields = "PostFildsData"
      BY <1>1, <2>2 DEF Inv, OptionsReady, VariableReady, SourceIsReady
    <3> QED
      BY <2>0, <2>2, <3>1, PostSendsTheBuffer
  <2> QED
    BY <2>1, <2>2
<1>2. ASSUME ~isMultipart, src.Type = "ttFile"
      PROVE  BodySent(opt) = IF "message" \in used THEN Garbage ELSE FileBytes
  <2>1. opt.method = "PUT" /\ opt.readdata = "fd"
    BY <1>2 DEF Inv, OptionsReady, FileReady, SourceIsReady
  <2> QED
    BY <1>0, <2>1, PutSendsTheFile, CallbackMisreadsTheFile
<1>3. ASSUME isMultipart
      PROVE  BodySent(opt) = IF mimeOn = "old" THEN PostFildsData
                             ELSE MimeBody(mimeParts)
  BY <1>3, PostSendsTheBuffer, MimeSendsTheParts
  DEF Inv, OptionsReady, MultipartReady, SourceIsReady
<1> QED
  BY <1>1, <1>2, <1>3

\* The same for the response.
LEMMA TransferWritesDestination ==
  ASSUME Inv, pc = "transfer"
  PROVE  /\ dst.Type = "ttVariable" => WriteTarget(opt) = "data"
         /\ dst.Type = "ttFile" => WriteTarget(opt) = "file"
         /\ dst.Type = "ttMsg" /\ isMultipart => WriteTarget(opt) = "data"
         /\ dst.Type = "ttMsg" /\ ~isMultipart =>
              WriteTarget(opt) = IF "response" \in used THEN "garbage" ELSE "stdout"
<1>1. DestinationReady /\ HandleRemembers
  BY DEF Inv, OptionsReady
<1>2. ASSUME dst.Type = "ttMsg", ~isMultipart
      PROVE  WriteTarget(opt) = IF "response" \in used THEN "garbage" ELSE "stdout"
  <2>1. opt.writedata \in {"stdout", "dead"}
    BY <1>1, <1>2 DEF DestinationReady
  <2>2. CASE "response" \in used
    BY <1>1, <2>1, <2>2, TargetOfOptions DEF HandleRemembers
  <2>3. CASE "response" \notin used
    BY <1>1, <2>1, <2>3, TargetOfOptions DEF HandleRemembers
  <2> QED
    BY <2>2, <2>3
<1> QED
  BY <1>1, <1>2, TargetOfOptions DEF DestinationReady

\* After the transfer, closing the files changes neither what was sent nor
\* what was received.
LEMMA SentStep ==
  ASSUME Inv, Next
  PROVE  SourceIsSent' /\ ResponseReachesDestination'
<1> SUFFICES ASSUME pc' \in {"close", "finish"}
             PROVE  SourceIsSent' /\ ResponseReachesDestination'
  BY DEF SourceIsSent, VariableSourceIsSent, FileSourceIsSent, MultipartIsSent,
         ResponseReachesDestination, Transferred
<1>0. /\ src' = src /\ dst' = dst /\ mimeParts' = mimeParts /\ mimeOn' = mimeOn
      /\ isPosting' = isPosting /\ isMultipart' = isMultipart
      /\ PostFildsData' = PostFildsData /\ used' = used
  BY CallKeepsObject
<1>1. CASE pc' = "close"
  <2>1. PICK text \in Response \cup {Empty}, ok \in BOOLEAN : Transfer(text, ok)
    BY <1>1, ControlFlow
  <2>2. /\ pc = "transfer" /\ sent' = BodySent(opt)
        /\ received'.target = WriteTarget(opt)
    BY <2>1 DEF Transfer
  <2>3. SourceIsSent'
    BY <1>0, <2>2, TransferSendsSource
    DEF SourceIsSent, VariableSourceIsSent, FileSourceIsSent, MultipartIsSent
  <2>4. ResponseReachesDestination'
    <3>1. dst.Type \in {"ttVariable", "ttFile", "ttMsg"}
      BY DEF Inv, TypeOK, Dest, Type
    <3> QED
      BY <1>0, <2>2, <3>1, TransferWritesDestination DEF ResponseReachesDestination
  <2> QED
    BY <2>3, <2>4
<1>2. CASE pc' = "finish"
  <2>1. pc = "close" /\ sent' = sent /\ received' = received
    BY <1>2, ControlFlow, Zenon DEF CloseFiles
  <2> QED
    BY <1>0, <2>1
    DEF Inv, SourceIsSent, VariableSourceIsSent, FileSourceIsSent,
        MultipartIsSent, ResponseReachesDestination, Transferred
<1> QED
  BY <1>1, <1>2

-----------------------------------------------------------------------------
(* The theorems *)

\* The invariant is inductive: every operation of the script and every step
\* of easy_perform keeps it.
THEOREM NextInv == Inv /\ [Next]_vars => Inv'
<1> SUFFICES ASSUME Inv, [Next]_vars PROVE Inv'
  OBVIOUS
<1>1. CASE UNCHANGED vars
  BY <1>1, StutterKeepsInv
<1>2. CASE Next
  <2>1. TypeOK'
    BY TypeStep DEF Inv
  <2>2. OptionsReady'
    BY <1>2, HandleStep, NoDestinationStep, MultipartStep, VariableStep, FileStep,
       DestinationStep DEF OptionsReady
  <2> QED
    BY <1>2, <2>1, <2>2, ReceivedStep, DestinationStep, SentStep DEF Inv
<1> QED
  BY <1>1, <1>2

\* The invariant holds in every reachable state.
THEOREM Invariance == Spec => []Inv
BY InitInv, NextInv, PTL DEF Spec

\* Every variable keeps its type; in particular the data of the destination
\* is a response of a server or empty, whatever was in the handle.
THEOREM TypeCorrect == Spec => []TypeOK
<1>1. Inv => TypeOK
  BY DEF Inv
<1> QED
  BY <1>1, Invariance, PTL

\* Whatever requests, options and resets came before it, a request sends its
\* own source: the text of a variable, the bytes of a file, the multipart
\* body.  What other requests left in the same handle changes that in the
\* stated cases and in no other: a message after a file has the file's size,
\* a file after a message is misread.
THEOREM SendsItsSource == Spec => []SourceIsSent
<1>1. Inv => SourceIsSent
  BY DEF Inv
<1> QED
  BY <1>1, Invariance, PTL

\* A response is written to the destination of its own call, with the
\* callback that fits it; a destination that sets none gets the stated one.
THEOREM WritesItsDestination == Spec => []ResponseReachesDestination
<1>1. Inv => ResponseReachesDestination
  BY DEF Inv
<1> QED
  BY <1>1, Invariance, PTL

\* The progress callback never runs with the record of an earlier call.
THEOREM ProgressIsLive == Spec => []ProgressRecordLive
<1>1. Inv => ProgressRecordLive
  BY DEF Inv
<1> QED
  BY <1>1, Invariance, PTL

=============================================================================
