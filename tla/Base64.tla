-------------------------------- MODULE Base64 --------------------------------
(***************************************************************************)
(* ToBase64 and FromBase64 of CcURL with the loops of Base64::Encode and    *)
(* Base64::Decode behind them.  Each of the two functions writes into a     *)
(* static string of its own, which keeps the bytes of the previous call     *)
(* below its new size: they are Stale until the loop has overwritten them.  *)
(* The script encodes a text and decodes what it got, with its padding or   *)
(* without, or decodes any text at all.  Characters are their codes.        *)
(***************************************************************************)
EXTENDS Integers, SequencesExt

CONSTANTS
  Byte,      \* the bytes the texts are made of; 0 is the C string terminator
  MaxLen,    \* the longest text (bound)
  Code,      \* the characters of the texts that were not encoded here
  MaxCode    \* the longest of those (bound)

ASSUME BytesAreBytes == Byte \subseteq 0 .. 255 /\ Code \subseteq 0 .. 255
ASSUME MaxLenIsNatural == MaxLen \in Nat /\ MaxCode \in Nat

VARIABLES
  stage,     \* where the script and the two functions are
  text,      \* the std::string made from the text given to ToBase64
  coded,     \* the one made from the text given to FromBase64
  input,     \* what is left to read of the string being converted
  a,         \* the bytes read into a3 (a4) so far; i is their number
  out,       \* *out
  len,       \* enc_len (dec_len)
  reserved,  \* out->size()
  kept,      \* the sizes of the two static strings
  retVal

conversion == <<input, a, out, len, reserved>>
vars == <<stage, text, coded, conversion, kept, retVal>>

Pad == 61
Stale == -1
Failed == <<-2>>     \* no string: the function answers FALSE

\* A C string seen from its first byte: c_str() and LPCTSTR end at a NUL.
CutAtNul(s) ==
  IF \E k \in DOMAIN s : s[k] = 0
  THEN SubSeq(s, 1, SelectInSeq(s, LAMBDA b : b = 0) - 1) ELSE s

-----------------------------------------------------------------------------
(* The tables and the groups of three and of four *)

kBase64Alphabet(v) ==
  CASE v < 26 -> 65 + v
    [] v \in 26 .. 51 -> 97 + (v - 26)
    [] v \in 52 .. 61 -> 48 + (v - 52)
    [] v = 62 -> 43
    [] v = 63 -> 47

b64_lookup(c) ==
  CASE c \in 65 .. 90 -> c - 65
    [] c \in 97 .. 122 -> c - 71
    [] c \in 48 .. 57 -> c + 4
    [] c = 43 -> 62
    [] c = 47 -> 63
    [] OTHER -> 255

\* Mutant: the high half of the second byte is dropped.
LoseHighHalf(a3) ==
  <<a3[1] \div 4, (a3[1] % 4) * 16, (a3[2] % 16) * 4 + a3[3] \div 64, a3[3] % 64>>

a3_to_a4(a3) ==
  <<a3[1] \div 4,
    (a3[1] % 4) * 16 + a3[2] \div 16,
    (a3[2] % 16) * 4 + a3[3] \div 64,
    a3[3] % 64>>

\* In unsigned char; a lookup of 255 in the tail overflows.
a4_to_a3(a4) ==
  <<(a4[1] * 4 + (a4[2] % 64) \div 16) % 256,
    ((a4[2] % 16) * 16 + (a4[3] % 64) \div 4) % 256,
    ((a4[3] % 4) * 64 + a4[4]) % 256>>

\* Mutant: a tail of one or two bytes gets no room.
RoomForWholeGroups(length) == (length \div 3) * 4

EncodedLength(length) == ((length + 2 - ((length + 2) % 3)) \div 3) * 4

\* Where the padding begins
TextEnd(s) == Min({k \in 0 .. Len(s) : \A j \in k + 1 .. Len(s) : s[j] = Pad})

\* The '=' that the loop of DecodedLength counts.  Where there is nothing else
\* it runs past the beginning of the string; the byte in front of it may be one
\* more, and more than that makes no difference to the size.
EqSeen(in) ==
  IF TextEnd(in) = 0 THEN {Len(in), Len(in) + 1} ELSE {Len(in) - TextEnd(in)}

\* Mutant: the padding is counted as text.
PaddingCounted(in, numEq) == (6 * Len(in)) \div 8

\* A number below 0 stands for the size_t that no string can have.
DecodedLength(in, numEq) == (6 * Len(in)) \div 8 - numEq

StripPadding(s) == SubSeq(s, 1, TextEnd(s))

\* resize(n) of the static string that has the bytes of its last call
Resized(old, n) == [k \in 1 .. n |-> IF k <= old THEN Stale ELSE 0]

-----------------------------------------------------------------------------
Init ==
  /\ stage = "idle" /\ text = <<>> /\ coded = <<>>
  /\ input = <<>> /\ a = <<>> /\ out = <<>> /\ len = 0 /\ reserved = 0
  /\ kept = [encoded |-> 0, decoded |-> 0]
  /\ retVal = <<>>

\* The start of Encode (of Decode) for the string s.
Begin(s, old, size) ==
  /\ input' = s /\ a' = <<>>
  /\ out' = Resized(old, size) /\ reserved' = size /\ len' = 0

\* (*out)[enc_len++] for some bytes in turn; a write past size() lands behind
\* the string.
Write(bytes) ==
  /\ out' = [k \in 1 .. Max({Len(out), len + Len(bytes)}) |->
               IF k \in len + 1 .. len + Len(bytes) THEN bytes[k - len] ELSE out[k]]
  /\ len' = len + Len(bytes)
  /\ UNCHANGED reserved

\* The function returns: the string, if the length is the one foreseen.
Return(which, next) ==
  /\ stage' = next
  /\ retVal' = IF len' = reserved THEN CutAtNul(SubSeq(out', 1, reserved))
               ELSE Failed
  /\ kept' = [kept EXCEPT ![which] = reserved]
  /\ UNCHANGED <<text, coded>>

ToBase64(t) ==
  /\ stage = "idle"
  /\ text' = CutAtNul(t)
  /\ retVal' = <<>> /\ UNCHANGED <<coded, kept>>
  /\ IF t = <<>>
     THEN stage' = "encoded" /\ UNCHANGED conversion
     ELSE /\ stage' = "encoding"
          /\ Begin(CutAtNul(t), kept.encoded, EncodedLength(Len(CutAtNul(t))))

\* Mutant: a3 is not emptied after a group.
EncodeByteKeeps ==
  /\ stage = "encoding" /\ input # <<>>
  /\ UNCHANGED <<stage, text, coded, kept, retVal>>
  /\ input' = Tail(input)
  /\ a' = Append(a, Head(input))
  /\ IF Len(a) = 2
     THEN Write([k \in 1 .. 4 |-> kBase64Alphabet(a3_to_a4(a')[k])])
     ELSE UNCHANGED <<out, len, reserved>>

\* One round of the loop of Encode
EncodeByte ==
  /\ stage = "encoding" /\ input # <<>>
  /\ UNCHANGED <<stage, text, coded, kept, retVal>>
  /\ input' = Tail(input)
  /\ LET a3 == Append(a, Head(input)) IN
     IF Len(a3) = 3
     THEN /\ Write([k \in 1 .. 4 |-> kBase64Alphabet(a3_to_a4(a3)[k])])
          /\ a' = <<>>
     ELSE a' = a3 /\ UNCHANGED <<out, len, reserved>>

\* The last group and the padding, if something is left, and the return
EncodeTail ==
  /\ stage = "encoding" /\ input = <<>>
  /\ LET a3 == [k \in 1 .. 3 |-> IF k <= Len(a) THEN a[k] ELSE 0]
         digits == [k \in 1 .. Len(a) + 1 |-> kBase64Alphabet(a3_to_a4(a3)[k])] IN
     IF a # <<>> THEN Write(digits \o [k \in 1 .. 3 - Len(a) |-> Pad]) ELSE Write(<<>>)
  /\ a' = <<>>
  /\ Return("encoded", "encoded")
  /\ UNCHANGED input

\* resize throws for a length that no string can have; nothing has changed.
FromBase64(s) ==
  /\ coded' = CutAtNul(s)
  /\ UNCHANGED <<text, kept>>
  /\ IF s = <<>>
     THEN stage' = "decoded" /\ retVal' = <<>> /\ UNCHANGED conversion
     ELSE \E numEq \in EqSeen(coded') :
            LET size == DecodedLength(coded', numEq) IN
            IF size < 0
            THEN stage' = "thrown" /\ retVal' = <<>> /\ UNCHANGED conversion
            ELSE /\ stage' = "decoding" /\ UNCHANGED retVal
                 /\ Begin(coded', kept.decoded, size)

\* What the script decodes is what it has encoded, or a text of its own.
FromBase64OfEncoded ==
  stage = "encoded" /\ (FromBase64(retVal) \/ FromBase64(StripPadding(retVal)))

FromBase64OfAny(s) == stage = "idle" /\ FromBase64(s)

Decoded(a4) == a4_to_a3([k \in 1 .. 4 |-> b64_lookup(a4[k])])

\* Mutant: the loop does not stop at the padding.
OnlyAtTheEnd == input = <<>>

AtEnd == input # <<>> => Head(input) = Pad

\* One round of the loop of Decode
DecodeChar ==
  /\ stage = "decoding" /\ ~AtEnd
  /\ UNCHANGED <<stage, text, coded, kept, retVal>>
  /\ input' = Tail(input)
  /\ LET a4 == Append(a, Head(input)) IN
     IF Len(a4) = 4
     THEN Write(Decoded(a4)) /\ a' = <<>>
     ELSE a' = a4 /\ UNCHANGED <<out, len, reserved>>

\* The end of the text or the first '=': the bytes of the last group, and the
\* return
DecodeTail ==
  /\ stage = "decoding" /\ AtEnd
  /\ LET a4 == [k \in 1 .. 4 |-> IF k <= Len(a) THEN a[k] ELSE 0] IN
     IF a # <<>> THEN Write(SubSeq(Decoded(a4), 1, Len(a) - 1)) ELSE Write(<<>>)
  /\ a' = <<>>
  /\ Return("decoded", "decoded")
  /\ UNCHANGED input

\* The script is done with the strings; the static ones stay.
Forget ==
  /\ stage \in {"encoded", "decoded", "thrown"}
  /\ stage' = "idle" /\ text' = <<>> /\ coded' = <<>> /\ retVal' = <<>>
  /\ input' = <<>> /\ a' = <<>> /\ out' = <<>> /\ len' = 0 /\ reserved' = 0
  /\ UNCHANGED kept

Next ==
  \/ \E n \in 0 .. MaxLen : \E t \in [1 .. n -> Byte] : ToBase64(t)
  \/ EncodeByte \/ EncodeTail
  \/ FromBase64OfEncoded
  \/ \E n \in 0 .. MaxCode : \E s \in [1 .. n -> Code] : FromBase64OfAny(s)
  \/ DecodeChar \/ DecodeTail
  \/ Forget

Spec == Init /\ [][Next]_vars

-----------------------------------------------------------------------------
(* Properties *)

TypeOK ==
  /\ stage \in {"idle", "encoding", "encoded", "decoding", "decoded", "thrown"}
  /\ text \in Seq(1 .. 255) /\ coded \in Seq(1 .. 255)
  /\ input \in Seq(0 .. 255) /\ out \in Seq(Stale .. 255)
  /\ stage = "encoding" => a \in Seq(1 .. 255) /\ Len(a) < 3
  /\ stage = "decoding" => a \in Seq(1 .. 255) /\ Len(a) < 4
  /\ len \in Nat /\ reserved \in Nat
  /\ kept \in [encoded : Nat, decoded : Nat]
  /\ retVal = Failed \/ retVal \in Seq(1 .. 255)

\* Everything written lies inside the string
Fits == len <= reserved /\ Len(out) = reserved

\* No '=' at the end, or up to three that fill up the last group of four.  What
\* stands before them may be anything, other '=' included.
WellPadded(s) ==
  LET p == Len(s) - TextEnd(s) IN p = 0 \/ (Len(s) % 4 = 0 /\ p < 4)

Decoding == stage \in {"decoding", "decoded"}

\* The unchecked writes stay inside the string, which was sized beforehand by
\* the formulas of EncodedLength and DecodedLength: in every round of Encode,
\* and in every round of Decode for every text with proper padding or none,
\* whatever its characters are.
WritesFit == (Decoding => WellPadded(coded)) => Fits

\* The bits of a text, the highest of its first byte first
Bit(s, k) == (s[1 + k \div 8] \div (2 ^ (7 - (k % 8)))) % 2

BitOrZero(s, k) == IF k < 8 * Len(s) THEN Bit(s, k) ELSE 0

Digit(s, d) ==
  LET bit(b) == BitOrZero(s, 6 * d + b) IN
  32 * bit(0) + 16 * bit(1) + 8 * bit(2) + 4 * bit(3) + 2 * bit(4) + bit(5)

\* Base64 by its definition: the text cut into groups of six bits, missing
\* bits zero, the last group of four characters filled up with '='.
Reference(s) ==
  LET digits == (8 * Len(s) + 5) \div 6
      chars == ((Len(s) + 2) \div 3) * 4
  IN [k \in 1 .. chars |->
        IF k <= digits THEN kBase64Alphabet(Digit(s, k - 1)) ELSE Pad]

\* What ToBase64 answers is Base64 of the text, bit for bit, for every length
\* of the tail and whatever the static string held before.
EncodedAsDefined == stage = "encoded" => retVal = Reference(text)

\* FromBase64 of what ToBase64 gave is the text again, with the padding and
\* without it: neither function fails, and no byte of an earlier call shows.
RoundTrip ==
  stage = "decoded" /\ coded \in {Reference(text), StripPadding(Reference(text))}
    => retVal = text

\* A text that is not Base64 is answered with an error and nothing worse: the
\* test of the length at the end of Decode would find every byte inside.
AnyTextFits == Decoding => Fits

=============================================================================
