---------------------------- MODULE TransferProofs ----------------------------
(***************************************************************************)
(* Proofs about Transfer for every body, every response, every buffer size, *)
(* every watermark and every number of retries.                             *)
(***************************************************************************)
EXTENDS Transfer, SequenceTheorems, WellFoundedInduction, TLAPS

-----------------------------------------------------------------------------
(* Lemmas about the operators. *)

\* read_callback copies no more than is left and no more than there is room.
LEMMA CopyBounds ==
  ASSUME NEW left \in Nat, NEW room \in Nat
  PROVE  /\ Least(left, room) \in 0 .. left
         /\ Least(left, room) <= room
         /\ room > 0 /\ Least(left, room) = 0 => left = 0
BY DEF Least

\* A piece of a sequence is a sequence of its length.
LEMMA PieceOfSeq ==
  ASSUME NEW s \in Seq(Byte), NEW a \in 0 .. Len(s), NEW b \in a .. Len(s)
  PROVE  /\ SubSeq(s, a + 1, b) \in Seq(Byte)
         /\ Len(SubSeq(s, a + 1, b)) = b - a
<1>1. \A i \in a + 1 .. b : s[i] \in Byte
  BY ElementOfSeq
<1>2. a + 1 \in Int /\ b \in Int
  BY LenProperties
<1> QED
  BY <1>1, <1>2, SubSeqProperties

\* Joining sequences of bytes.
LEMMA Joined ==
  \A s, t \in Seq(Byte) : s \o t \in Seq(Byte) /\ Len(s \o t) = Len(s) + Len(t)
BY ConcatProperties

LEMMA JoinedAssociates ==
  \A s, t, u \in Seq(Byte) : (s \o t) \o u = s \o (t \o u)
BY ConcatAssociative

\* Cutting a sequence anywhere and joining the parts gives it back.
LEMMA CutAndJoin ==
  ASSUME NEW s \in Seq(Byte), NEW w \in 0 .. Len(s)
  PROVE  /\ SubSeq(s, 1, w) \in Seq(Byte)
         /\ Len(SubSeq(s, 1, w)) = w
         /\ SubSeq(s, w + 1, Len(s)) \in Seq(Byte)
         /\ Len(SubSeq(s, w + 1, Len(s))) = Len(s) - w
         /\ SubSeq(s, 1, w) \o SubSeq(s, w + 1, Len(s)) = s
<1>1. Len(s) \in Nat
  BY LenProperties
<1>2. SubSeq(s, 1, w) \in Seq(Byte) /\ Len(SubSeq(s, 1, w)) = w
  <2>1. 0 \in 0 .. Len(s) /\ w \in 0 .. Len(s)
    BY <1>1
  <2> QED
    BY <2>1, PieceOfSeq, 0 + 1 = 1
<1>3. /\ SubSeq(s, w + 1, Len(s)) \in Seq(Byte)
      /\ Len(SubSeq(s, w + 1, Len(s))) = Len(s) - w
  BY <1>1, PieceOfSeq
<1>4. SubSeq(s, 1, w) \o SubSeq(s, w + 1, Len(s)) = SubSeq(s, 1, Len(s))
  <2>1. /\ 1 \in 1 .. Len(s) + 1
        /\ w \in 1 - 1 .. Len(s)
        /\ Len(s) \in w .. Len(s)
    BY <1>1
  <2> QED
    BY <2>1, ConcatAdjacentSubSeq
<1> QED
  BY <1>2, <1>3, <1>4, SubSeqFull

\* A set of positions that is not empty has a first one.
LEMMA LeastPosition ==
  ASSUME NEW P, P \subseteq Nat, P # {}
  PROVE  \E m \in P : \A k \in P : m <= k
<1> DEFINE R == {ss \in Nat \X Nat : ss[1] < ss[2]}
<1>0. IsWellFoundedOn(R, Nat)
  BY NatLessThanWellFounded, Zenon DEF OpToRel
<1>1. PICK m \in P : \A k \in P : ~(<<k, m>> \in R)
  <2> HIDE DEF R
  <2> QED
    BY <1>0, WFMin
<1>2. ASSUME NEW k \in P PROVE m <= k
  <2>1. <<k, m>> \in Nat \X Nat /\ <<k, m>>[1] = k /\ <<k, m>>[2] = m
    OBVIOUS
  <2>2. k < m => <<k, m>> \in R
    BY <2>1, Zenon
  <2>3. ~(k < m)
    <3> HIDE DEF R
    <3> QED
      BY <1>1, <2>2
  <2> QED
    BY <2>3
<1> QED
  BY <1>2

\* A chunk without NUL bytes is kept whole by curl_swrite.
LEMMA NoNulKept ==
  ASSUME NEW chunk \in Seq(Byte), \A i \in 1 .. Len(chunk) : chunk[i] # Nul
  PROVE  BeforeNul(chunk) = chunk
BY DEF BeforeNul

\* What curl_swrite appends is a piece of the chunk.
LEMMA BeforeNulIsBytes ==
  ASSUME NEW chunk \in Seq(Byte)
  PROVE  BeforeNul(chunk) \in Seq(Byte)
<1> DEFINE nuls == {i \in 1 .. Len(chunk) : chunk[i] = Nul}
<1>1. CASE nuls = {}
  BY <1>1 DEF BeforeNul
<1>2. CASE nuls # {}
  <2>1. Min(nuls) \in nuls
    <3>1. nuls \subseteq Nat
      BY LenProperties
    <3>2. \E m \in nuls : \A k \in nuls : m <= k
      BY <1>2, <3>1, LeastPosition
    <3> QED
      BY <3>2 DEF Min
  <2>2. Min(nuls) - 1 \in 0 .. Len(chunk)
    BY <2>1, LenProperties
  <2>3. SubSeq(chunk, 1, Min(nuls) - 1) \in Seq(Byte)
    BY <2>2, CutAndJoin
  <2> QED
    BY <1>2, <2>3 DEF BeforeNul
<1> QED
  BY <1>1, <1>2

-----------------------------------------------------------------------------
(* The invariant. *)

LEMMA InitEstablishes == Init => IInv
<1> SUFFICES ASSUME Init PROVE IInv
  OBVIOUS
<1> USE SizesAreNatural, BodiesAreBytes
<1>1. Len(Body) \in Nat /\ <<>> \in Seq(Byte) /\ Len(<<>>) = 0
  BY LenProperties, EmptySeq
<1>2. rest \in Seq(Byte)
  BY <1>1 DEF Init
<1>3. TypeOK
  <2>1. wt \in [readptr : 0 .. Len(Body), sizeleft : 0 .. Len(Body)]
    BY <1>1 DEF Init, FullSource
  <2>2. /\ chunky \in BOOLEAN /\ postfields \in BOOLEAN /\ reuse \in BOOLEAN
        /\ uploadDone \in BOOLEAN
    BY Zenon DEF Init
  <2>3. /\ ulbuf \in Seq(Byte) /\ Len(ulbuf) <= BufSize /\ wire \in Seq(Byte)
        /\ taken \in Seq(Byte) /\ stored \in Seq(Byte)
    BY <1>1 DEF Init
  <2>4. /\ proto \in {"HTTP", "SMTP"}
        /\ source \in {"variable", "file"} /\ dest \in {"variable", "file"}
        /\ sending \in {"more", "done", "stopped"} /\ answered \in BOOLEAN
        /\ res \in {"none", "ok", "failed"}
    BY Zenon DEF Init, StartSending
  <2>5. retrycount \in 0 .. MaxRetries
    BY DEF Init
  <2>6. infilesize \in Nat \cup {-1}
    BY <1>1 DEF Init, SizesInHandle
  <2> QED
    BY <1>2, <2>1, <2>2, <2>3, <2>4, <2>5, <2>6 DEF TypeOK
<1>3a. SizeInHandle
  BY DEF Init, SizeInHandle, SizesInHandle
<1>4. BodyAccounted
  BY <1>1, <1>3, <1>3a DEF Init, BodyAccounted, FullSource, StartSending,
     SizeInHandle, CutAtOldSize, TypeOK
<1>5. UploadUnbroken
  <2>1. wire \o ulbuf = <<>>
    BY <1>1, ConcatEmptySeq DEF Init
  <2>2. SubSeq(Body, 1, 0) = <<>>
    BY SubSeqEmpty
  <2>3. wt.readptr = 0
    BY DEF Init, FullSource
  <2>4. 0 - 0 + 1 = 1
    OBVIOUS
  <2> QED
    BY <1>1, <2>1, <2>2, <2>3, <2>4 DEF UploadUnbroken
<1>6. ResponseExact
  BY DEF Init, ResponseExact
<1> QED
  BY <1>3, <1>3a, <1>4, <1>5, <1>6 DEF IInv

LEMMA UploadKeeps ==
  ASSUME IInv, NEW w \in 0 .. BufSize, readwrite_upload(w)
  PROVE  IInv'
<1> USE SizesAreNatural, BodiesAreBytes
<1> DEFINE n == IF WantsMore THEN CopyThisMuch(wt, BufSize - Len(ulbuf)) ELSE 0
           buf == Refilled(n)
           r == wt.readptr
           k == Len(wire) + Len(ulbuf)
<1>1. /\ wt \in [readptr : 0 .. Len(Body), sizeleft : 0 .. Len(Body)]
      /\ ulbuf \in Seq(Byte) /\ Len(ulbuf) <= BufSize /\ wire \in Seq(Byte)
      /\ r + wt.sizeleft = Len(Body)
      /\ retrycount \in 0 .. MaxRetries
      /\ retrycount = 0 => k = r
  BY DEF IInv, TypeOK, BodyAccounted
<1>2. /\ Len(Body) \in Nat /\ Len(ulbuf) \in Nat /\ Len(wire) \in Nat
      /\ r \in 0 .. Len(Body) /\ wt.sizeleft \in 0 .. Len(Body)
  BY <1>1, LenProperties
<1>3. /\ w \in 0 .. Len(buf)
      /\ wt' = Advance(wt, n)
      /\ wire' = wire \o SubSeq(buf, 1, w)
      /\ ulbuf' = SubSeq(buf, w + 1, Len(buf))
      /\ uploadDone' = (uploadDone \/ (buf # <<>> /\ SizeReached(w)))
      /\ sending' = IF UploadEnds(buf, w) THEN "done" ELSE "more"
      /\ UNCHANGED <<request, reuse, retrycount, download, res>>
      /\ sending = "more"
  BY DEF readwrite_upload
\* what is read
<1>4. /\ n \in 0 .. wt.sizeleft
      /\ n <= BufSize - Len(ulbuf)
      /\ ulbuf = <<>> /\ n = 0 => wt.sizeleft = 0 \/ uploadDone
  <2>1. BufSize - Len(ulbuf) \in Nat
    BY <1>1, <1>2
  <2>2. CASE WantsMore
    <3>1. n = Least(wt.sizeleft, BufSize - Len(ulbuf))
      BY <2>2 DEF CopyThisMuch
    <3>2. wt.sizeleft \in Nat
      BY <1>2
    <3>3. ulbuf = <<>> => BufSize - Len(ulbuf) > 0
      BY EmptySeq
    <3> HIDE DEF n
    <3> QED
      BY <2>1, <3>1, <3>2, <3>3, CopyBounds
  <2>3. CASE ~WantsMore
    BY <2>1, <2>3, <1>2 DEF WantsMore
  <2> QED
    BY <2>2, <2>3
<1> HIDE DEF n
<1>5. /\ Copied(wt, n) \in Seq(Byte) /\ Len(Copied(wt, n)) = n
  <2>1. r + n \in r .. Len(Body)
    BY <1>1, <1>2, <1>4
  <2> QED
    BY <1>2, <1>4, <2>1, PieceOfSeq, SMTT(60) DEF Copied
<1>6. buf \in Seq(Byte) /\ Len(buf) = Len(ulbuf) + n
  BY <1>1, <1>5, Joined, ZenonT(60) DEF Refilled
<1>6a. wire \o buf = (wire \o ulbuf) \o Copied(wt, n)
  BY <1>1, <1>5, JoinedAssociates, ZenonT(60) DEF Refilled
<1> HIDE DEF buf
<1>6b. /\ n \in Nat /\ w \in Nat /\ Len(ulbuf) \in Nat /\ Len(wire) \in Nat
       /\ w <= Len(ulbuf) + n
  BY <1>2, <1>3, <1>4, <1>6
\* what is written
<1>7. /\ SubSeq(buf, 1, w) \in Seq(Byte) /\ Len(SubSeq(buf, 1, w)) = w
      /\ ulbuf' \in Seq(Byte) /\ Len(ulbuf') = Len(buf) - w
      /\ SubSeq(buf, 1, w) \o ulbuf' = buf
  BY <1>3, <1>6, CutAndJoin
<1>8. wire' \in Seq(Byte) /\ Len(wire') = Len(wire) + w
  BY <1>1, <1>3, <1>7, Joined, ZenonT(60)
<1>9. wt' = [readptr |-> r + n, sizeleft |-> wt.sizeleft - n]
  BY <1>3 DEF Advance
\* the run is extended by what is read
<1>10. wire \o ulbuf \in Seq(Byte) /\ Len(wire \o ulbuf) = k /\ k <= r
  BY <1>1, <1>2, ConcatProperties DEF IInv, UploadUnbroken
<1>11. wire' \o ulbuf' = SubSeq(Body, r - k + 1, r + n)
  <2>1. wire' \o ulbuf' = wire \o buf
    <3>1. wire' \o ulbuf' = (wire \o SubSeq(buf, 1, w)) \o ulbuf'
      BY <1>3
    <3>2. (wire \o SubSeq(buf, 1, w)) \o ulbuf'
            = wire \o (SubSeq(buf, 1, w) \o ulbuf')
      BY <1>1, <1>7, JoinedAssociates, ZenonT(60)
    <3> QED
      BY <3>1, <3>2, <1>7
  <2>3. wire \o ulbuf = SubSeq(Body, r - k + 1, r)
    BY <1>10 DEF IInv, UploadUnbroken
  <2>4. /\ r - k + 1 \in 1 .. Len(Body) + 1
        /\ r \in (r - k + 1) - 1 .. Len(Body)
        /\ r + n \in r .. Len(Body)
    BY <1>1, <1>2, <1>4, <1>10, SMTT(60)
  <2>5. SubSeq(Body, r - k + 1, r) \o SubSeq(Body, r + 1, r + n)
          = SubSeq(Body, r - k + 1, r + n)
    BY <2>4, ConcatAdjacentSubSeq
  <2> QED
    BY <2>1, <1>6a, <2>3, <2>5 DEF Copied
<1>12. Len(wire' \o ulbuf') = k + n
  <2>1. Len(wire' \o ulbuf') = Len(wire') + Len(ulbuf')
    BY <1>7, <1>8, Joined
  <2> QED
    BY <2>1, <1>6, <1>6b, <1>7, <1>8
<1>13. UploadUnbroken'
  <2>1. (r + n) - (k + n) = r - k
    BY <1>2, <1>4
  <2>2. k + n <= r + n
    BY <1>2, <1>4, <1>10
  <2> QED
    BY <1>9, <1>11, <1>12, <2>1, <2>2 DEF UploadUnbroken
<1>13a. SizeInHandle'
  <2>1. /\ source = "file" => infilesize = Len(Body)
        /\ uploadDone => infilesize \in 0 .. Len(wire)
        /\ infilesize \in Nat \cup {-1}
    BY DEF IInv, SizeInHandle, TypeOK
  <2>2. uploadDone' => uploadDone \/ Len(wire) + w = infilesize
    BY <1>3 DEF SizeReached
  <2>3. uploadDone' => infilesize \in 0 .. Len(wire')
    BY <2>1, <2>2, <1>6b, <1>8
  <2> QED
    BY <2>1, <2>3, <1>3 DEF SizeInHandle, request
\* a file that has reached its size is read to its end
<1>13b. /\ source \in {"variable", "file"} /\ infilesize' = infilesize
        /\ source' = source
        /\ infilesize \in 0 .. Len(wire') => wt.sizeleft - n = 0 \/ CutAtOldSize'
  <2>1. source \in {"variable", "file"} /\ infilesize' = infilesize /\ source' = source
    BY <1>3 DEF IInv, TypeOK, request
  <2>2. CASE source = "variable"
    BY <2>1, <2>2 DEF CutAtOldSize
  <2>3. CASE source = "file" /\ infilesize \in 0 .. Len(wire')
    <3>1. infilesize = Len(Body)
      BY <2>3 DEF IInv, SizeInHandle
    <3>2. Len(wire') <= k + n
      BY <1>6, <1>6b, <1>7, <1>8
    <3>3. Len(wire') \in Nat /\ Len(Body) <= Len(wire')
      BY <3>1, <2>3, <1>2, <1>6b, <1>8
    <3>4. k \in Nat /\ k <= r /\ n <= wt.sizeleft /\ r + wt.sizeleft = Len(Body)
      BY <1>1, <1>2, <1>4, <1>6b, <1>10
    <3>5. wt.sizeleft - n = 0
      <4> HIDE DEF k, r
      <4> QED
        BY <3>2, <3>3, <3>4, <1>2, <1>6b
    <3> QED
      BY <3>5, <2>1
  <2> QED
    BY <2>1, <2>2, <2>3
<1>14. UploadEnds(buf, w) => ulbuf' = <<>> /\ (wt.sizeleft - n = 0 \/ CutAtOldSize')
  <2>1. CASE buf = <<>>
    <3>1. Len(buf) = 0
      BY <2>1, EmptySeq
    <3>2. Len(ulbuf) = 0 /\ n = 0 /\ w = 0
      <4>1. Len(ulbuf) + n = 0
        BY <3>1, <1>6
      <4> QED
        BY <4>1, <1>6b
    <3>3. ulbuf = <<>>
      BY <3>2, <1>1, EmptySeq
    <3>4. ulbuf' = <<>>
      BY <1>7, <3>1, <3>2, EmptySeq
    <3>5. wt.sizeleft - n = 0 \/ uploadDone
      BY <3>2, <3>3, <1>4, <1>2
    <3>6. uploadDone => infilesize \in 0 .. Len(wire')
      BY <1>3, <1>13a, <1>13b DEF SizeInHandle
    <3> QED
      BY <3>4, <3>5, <3>6, <1>13b
  <2>2. CASE buf # <<>> /\ w = Len(buf) /\ (uploadDone \/ SizeReached(w))
    <3>1. Len(ulbuf') = 0
      BY <2>2, <1>7, <1>6, <1>2, <1>4
    <3>2. ulbuf' = <<>>
      BY <3>1, <1>7, EmptySeq
    <3>3. infilesize \in 0 .. Len(wire')
      BY <2>2, <1>3, <1>13a, <1>13b DEF SizeInHandle
    <3> QED
      BY <3>2, <3>3, <1>13b
  <2> QED
    BY <2>1, <2>2 DEF UploadEnds
<1>15. BodyAccounted'
  <2>1. (r + n) + (wt.sizeleft - n) = Len(Body)
    BY <1>1, <1>2, <1>4
  <2>2. retrycount' = 0 => Len(wire') + Len(ulbuf') = r + n
    <3>1. retrycount' = retrycount
      BY <1>3
    <3>2. Len(wire') + Len(ulbuf') = k + n
      BY <1>6, <1>6b, <1>7, <1>8
    <3> QED
      BY <3>1, <3>2, <1>1
  <2>3. sending' = "done" => UploadEnds(buf, w)
    BY <1>3
  <2> QED
    BY <2>1, <2>2, <2>3, <1>9, <1>14 DEF BodyAccounted
<1>16. TypeOK'
  <2>1. wt' \in [readptr : 0 .. Len(Body), sizeleft : 0 .. Len(Body)]
    BY <1>1, <1>2, <1>4, <1>9
  <2>2. Len(ulbuf') <= BufSize
    BY <1>2, <1>3, <1>4, <1>6, <1>7
  <2> QED
    BY <2>1, <2>2, <1>3, <1>7, <1>8 DEF IInv, TypeOK, request, download, SizeReached
<1>17. ResponseExact'
  BY <1>3 DEF IInv, ResponseExact, request, download
<1> QED
  BY <1>13, <1>13a, <1>15, <1>16, <1>17 DEF IInv

\* A new connection starts with nothing sent and nothing buffered.
LEMMA RetryKeeps ==
  ASSUME IInv, NEW reused \in BOOLEAN, RetryRequest(reused)
  PROVE  IInv'
<1> USE SizesAreNatural, BodiesAreBytes
<1>1. Len(Body) \in Nat /\ <<>> \in Seq(Byte) /\ Len(<<>>) = 0
  BY LenProperties, EmptySeq
<1>2. /\ wt' \in [readptr : 0 .. Len(Body), sizeleft : 0 .. Len(Body)]
      /\ wt'.readptr + wt'.sizeleft = Len(Body)
  BY <1>1 DEF IInv, TypeOK, BodyAccounted, RetryRequest, FullSource
<1>3. TypeOK'
  <2>1. sending' \in {"more", "done", "stopped"}
    BY DEF RetryRequest, StartSending
  <2>2. retrycount' \in 0 .. MaxRetries /\ Len(ulbuf') <= BufSize
    BY <1>1 DEF IInv, TypeOK, RetryRequest
  <2>3. reuse' \in BOOLEAN /\ uploadDone' \in BOOLEAN
    BY Zenon DEF RetryRequest
  <2>4. ulbuf' \in Seq(Byte) /\ wire' \in Seq(Byte)
    BY <1>1 DEF RetryRequest
  <2>5. UNCHANGED <<request, download, res>>
    BY DEF RetryRequest
  <2> QED
    BY <1>2, <2>1, <2>2, <2>3, <2>4, <2>5 DEF IInv, TypeOK, request, download
<1>3a. SizeInHandle'
  BY DEF IInv, SizeInHandle, RetryRequest, request
<1>4. BodyAccounted'
  <2>1. ulbuf' = <<>> /\ wire' = <<>> /\ retrycount' # 0
    BY DEF IInv, TypeOK, RetryRequest
  <2>2. sending' = "done" => infilesize' = 0
    BY DEF RetryRequest, StartSending, request
  <2>3. source' \in {"variable", "file"}
    BY <1>3 DEF TypeOK
  <2>4. sending' = "done" => wt'.sizeleft = 0 \/ CutAtOldSize'
    BY <1>1, <1>2, <1>3a, <2>1, <2>2, <2>3 DEF SizeInHandle, CutAtOldSize
  <2> QED
    BY <1>2, <2>1, <2>4 DEF BodyAccounted
<1>5. UploadUnbroken'
  <2>1. wire' \o ulbuf' = <<>>
    BY <1>1, ConcatEmptySeq DEF RetryRequest
  <2>2. SubSeq(Body, wt'.readptr - 0 + 1, wt'.readptr) = <<>>
    <3>1. wt'.readptr \in Int /\ wt'.readptr - 0 + 1 \in Int
      BY <1>1, <1>2
    <3>2. wt'.readptr < wt'.readptr - 0 + 1
      BY <3>1
    <3> QED
      BY <3>1, <3>2, SubSeqEmpty
  <2>3. 0 <= wt'.readptr
    BY <1>1, <1>2
  <2> QED
    BY <1>1, <2>1, <2>2, <2>3 DEF UploadUnbroken
<1>6. ResponseExact'
  BY DEF IInv, ResponseExact, RetryRequest, request, download
<1> QED
  BY <1>3, <1>3a, <1>4, <1>5, <1>6 DEF IInv

\* Nothing but the result or the answer changes.
LEMMA QuietKeeps ==
  ASSUME IInv,
         \/ RetryGivesUp \/ RewindFails \/ Fails \/ Done \/ UNCHANGED vars
         \/ \E error \in BOOLEAN : Answer(error)
  PROVE  IInv'
<1>1. /\ UNCHANGED <<request, reuse, wt, ulbuf, wire, uploadDone, retrycount,
                     rest, taken, stored>>
      /\ answered' \in BOOLEAN
      /\ res' \in {"none", "ok", "failed"}
      /\ sending' \in {"more", "done", "stopped"}
      /\ sending' = "done" => sending = "done"
  BY DEF IInv, TypeOK, RetryGivesUp, RewindFails, Fails, Done, Answer, MayRetry,
         vars, upload, download
<1>2. TypeOK'
  BY <1>1 DEF IInv, TypeOK, request
<1>3. BodyAccounted' /\ SizeInHandle'
  BY <1>1 DEF IInv, BodyAccounted, SizeInHandle, CutAtOldSize, request
<1>4. UploadUnbroken'
  BY <1>1 DEF IInv, UploadUnbroken
<1>5. ResponseExact'
  BY <1>1 DEF IInv, ResponseExact, request
<1> QED
  BY <1>2, <1>3, <1>4, <1>5 DEF IInv

LEMMA WriteResponseKeeps ==
  ASSUME IInv, NEW n \in 1 .. Len(rest), WriteResponse(n)
  PROVE  IInv'
<1> DEFINE chunk == SubSeq(rest, 1, n)
<1>1. /\ rest \in Seq(Byte) /\ taken \in Seq(Byte) /\ stored \in Seq(Byte)
      /\ dest \in {"variable", "file"}
  BY DEF IInv, TypeOK
<1>2. /\ stored' = IF dest = "variable" THEN stored \o BeforeNul(chunk)
                                        ELSE stored \o chunk
      /\ taken' = taken \o chunk
      /\ rest' = SubSeq(rest, n + 1, Len(rest))
      /\ UNCHANGED <<request, upload, answered, res>>
  BY DEF WriteResponse, curl_swrite, curl_fwrite
<1>3. chunk \in Seq(Byte) /\ Len(chunk) = n /\ rest' \in Seq(Byte)
  <2>1. n \in 0 .. Len(rest)
    BY <1>1, LenProperties
  <2> QED
    BY <1>1, <1>2, <2>1, CutAndJoin
<1> HIDE DEF chunk
<1>4. /\ taken' \in Seq(Byte)
      /\ Len(taken') = Len(taken) + Len(chunk)
      /\ \A i \in 1 .. Len(taken) + Len(chunk) :
            taken'[i] = IF i <= Len(taken) THEN taken[i] ELSE chunk[i - Len(taken)]
  BY <1>1, <1>2, <1>3, ConcatProperties, ZenonT(60)
<1>5. stored' \in Seq(Byte)
  <2>1. BeforeNul(chunk) \in Seq(Byte)
    BY <1>3, BeforeNulIsBytes
  <2> QED
    BY <1>1, <1>2, <1>3, <2>1, ConcatProperties
<1>6. TypeOK'
  BY <1>2, <1>3, <1>4, <1>5 DEF IInv, TypeOK, request, upload
<1>7. BodyAccounted' /\ SizeInHandle' /\ UploadUnbroken'
  BY <1>2 DEF IInv, BodyAccounted, SizeInHandle, CutAtOldSize, UploadUnbroken,
     upload, request
<1>8. ResponseExact'
  <2>1. CASE dest = "file"
    BY <2>1, <1>2 DEF IInv, ResponseExact, request
  <2>2. CASE dest = "variable" /\ \A i \in 1 .. Len(taken') : taken'[i] # Nul
    <3>1. Len(taken) \in Nat /\ Len(chunk) \in Nat
      BY <1>1, <1>3, LenProperties
    <3>2. \A i \in 1 .. Len(taken) : taken[i] # Nul
      BY <2>2, <1>4, <3>1
    <3>3. \A i \in 1 .. Len(chunk) : chunk[i] # Nul
      <4> SUFFICES ASSUME NEW i \in 1 .. Len(chunk) PROVE chunk[i] # Nul
        OBVIOUS
      <4>1. i + Len(taken) \in 1 .. Len(taken')
        BY <1>4, <3>1
      <4>2. taken'[i + Len(taken)] = chunk[i]
        BY <1>4, <3>1
      <4> QED
        BY <2>2, <4>1, <4>2
    <3>4. BeforeNul(chunk) = chunk
      BY <1>3, <3>3, NoNulKept
    <3> QED
      BY <2>2, <3>2, <3>4, <1>2 DEF IInv, ResponseExact
  <2> QED
    BY <2>1, <2>2, <1>1, <1>2 DEF ResponseExact, request
<1> QED
  BY <1>6, <1>7, <1>8 DEF IInv

LEMMA NextKeeps == IInv /\ [Next]_vars => IInv'
<1> SUFFICES ASSUME IInv, [Next]_vars PROVE IInv'
  OBVIOUS
<1>1. ASSUME NEW w \in 0 .. BufSize, readwrite_upload(w) PROVE IInv'
  BY <1>1, UploadKeeps
<1>2. ASSUME NEW reused \in BOOLEAN, RetryRequest(reused) PROVE IInv'
  BY <1>2, RetryKeeps
<1>3. ASSUME NEW n \in 1 .. Len(rest), WriteResponse(n) PROVE IInv'
  BY <1>3, WriteResponseKeeps
<1>4. CASE \/ RetryGivesUp \/ RewindFails \/ Fails \/ Done \/ UNCHANGED vars
           \/ \E error \in BOOLEAN : Answer(error)
  BY <1>4, QuietKeeps
<1>5. CASE Returned
  BY <1>5, QuietKeeps DEF Returned
<1> QED
  BY <1>1, <1>2, <1>3, <1>4, <1>5 DEF Next

-----------------------------------------------------------------------------
(* The theorems. *)

\* Every state of a transfer satisfies the inductive invariant.
THEOREM Invariance == Spec => []IInv
BY InitEstablishes, NextKeeps, PTL DEF Spec

\* Every variable of a transfer keeps its type; in particular read_callback
\* never puts more into the upload buffer than fits.
THEOREM TypeCorrect == Spec => []TypeOK
<1>1. IInv => TypeOK
  BY DEF IInv
<1> QED
  BY <1>1, Invariance, PTL

\* No byte of the body is lost or counted twice between read_callback, the
\* upload buffer and the wire, in every attempt, and only the size of an
\* earlier file ends an upload before its body.
THEOREM BodyIsAccounted == Spec => []BodyAccounted
<1>1. IInv => BodyAccounted
  BY DEF IInv
<1> QED
  BY <1>1, Invariance, PTL

\* read_callback and readwrite_upload together send an unbroken run of the
\* body, for every body and however reads, writes and retries fall.
THEOREM UploadInOrder == Spec => []UploadUnbroken
<1>1. IInv => UploadUnbroken
  BY DEF IInv
<1> QED
  BY <1>1, Invariance, PTL

\* A request that libcurl did not have to repeat sends its body from the
\* beginning and whole before it stops, unless it is a message that reaches
\* the size an earlier file left in the handle.
THEOREM UploadComplete == Spec => []FirstAttemptSendsAll
<1>1. IInv => FirstAttemptSendsAll
  <2> SUFFICES ASSUME IInv, sending = "done", retrycount = 0
               PROVE  /\ wire = SubSeq(Body, 1, Len(wire))
                      /\ wire # Body => CutAtOldSize
    BY DEF FirstAttemptSendsAll
  <2>1. /\ ulbuf = <<>> /\ (wt.sizeleft = 0 \/ CutAtOldSize)
        /\ wt.readptr + wt.sizeleft = Len(Body)
        /\ Len(wire) + Len(ulbuf) = wt.readptr
        /\ wire \in Seq(Byte) /\ wt.readptr \in 0 .. Len(Body)
    BY DEF IInv, TypeOK, BodyAccounted
  <2>2. Len(wire) \in Nat /\ Len(Body) \in Nat /\ Len(<<>>) = 0
    BY <2>1, BodiesAreBytes, LenProperties, EmptySeq
  <2>3. wire \o ulbuf = wire
    BY <2>1, ConcatEmptySeq
  <2>4. wt.readptr = Len(wire)
    BY <2>1, <2>2
  <2>5. wire = SubSeq(Body, Len(wire) - Len(wire) + 1, Len(wire))
    BY <2>3, <2>4 DEF IInv, UploadUnbroken
  <2>6. Len(wire) - Len(wire) + 1 = 1
    BY <2>2
  <2>7. wt.sizeleft = 0 => Len(wire) = Len(Body)
    BY <2>1, <2>2, <2>4
  <2> QED
    BY <2>1, <2>5, <2>6, <2>7, BodiesAreBytes, SubSeqFull
<1> QED
  BY <1>1, Invariance, PTL

\* A response without NUL bytes reaches the variable exactly, and a file
\* receives every response exactly, however libcurl cuts it into chunks.
THEOREM ResponseDelivered == Spec => []ResponseExact
<1>1. IInv => ResponseExact
  BY DEF IInv
<1> QED
  BY <1>1, Invariance, PTL

=============================================================================
