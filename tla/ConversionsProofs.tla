-------------------------- MODULE ConversionsProofs ---------------------------
(***************************************************************************)
(* Proofs about the conversions for all bytes, all lengths, every width of  *)
(* a line and every size_t that is larger than a message: ToBase64 writes   *)
(* Base64 as it is defined and FromBase64 takes it back, and the dump of a  *)
(* message shows its lines as they are defined.                             *)
(***************************************************************************)
EXTENDS Conversions, Induction, SequenceTheorems, FiniteSetTheorems

-----------------------------------------------------------------------------
(* Sequences *)

\* A function on 1 .. n is a sequence of length n.
LEMMA FunctionIsSeq ==
  ASSUME NEW S, NEW n \in Nat, NEW f \in [1 .. n -> S]
  PROVE  f \in Seq(S) /\ Len(f) = n
OBVIOUS

\* And the other way round
LEMMA SeqIsFunction ==
  ASSUME NEW S, NEW s \in Seq(S)
  PROVE  /\ Len(s) \in Nat /\ DOMAIN s = 1 .. Len(s) /\ s \in [1 .. Len(s) -> S]
         /\ \A k \in 1 .. Len(s) : s[k] \in S
OBVIOUS

\* A sequence whose elements are in a set is a sequence over that set.
LEMMA SeqOfElements ==
  ASSUME NEW S, NEW R, NEW s \in Seq(S), \A k \in 1 .. Len(s) : s[k] \in R
  PROVE  s \in Seq(R)
OBVIOUS

\* The first elements of a sequence
LEMMA FirstElements ==
  ASSUME NEW S, NEW s \in Seq(S), NEW m \in 0 .. Len(s), NEW R,
         \A k \in 1 .. m : s[k] \in R
  PROVE  /\ SubSeq(s, 1, m) \in Seq(R) /\ Len(SubSeq(s, 1, m)) = m
         /\ \A k \in 1 .. m : SubSeq(s, 1, m)[k] = s[k]
OBVIOUS

\* The rest of a sequence behind its first element
LEMMA RestOfSeq ==
  ASSUME NEW S, NEW s \in Seq(S), s # <<>>
  PROVE  /\ Len(s) \in Nat \ {0} /\ Head(s) = s[1] /\ Head(s) \in S
         /\ Tail(s) \in Seq(S) /\ Len(Tail(s)) = Len(s) - 1
         /\ \A k \in 1 .. Len(s) - 1 : Tail(s)[k] = s[k + 1]
OBVIOUS

\* One element more
LEMMA LongerSeq ==
  ASSUME NEW S, NEW s \in Seq(S), NEW x \in S
  PROVE  /\ Append(s, x) \in Seq(S) /\ Len(Append(s, x)) = Len(s) + 1
         /\ \A k \in 1 .. Len(s) : Append(s, x)[k] = s[k]
         /\ Append(s, x)[Len(s) + 1] = x
OBVIOUS

-----------------------------------------------------------------------------
(* Base64: the alphabet *)

\* A value of six bits has a character that is neither '=' nor a terminator.
LEMMA Alphabet ==
  ASSUME NEW v \in 0 .. 63
  PROVE  /\ kBase64Alphabet(v) \in 43 .. 122 /\ kBase64Alphabet(v) # Pad
         /\ v \in 0 .. 25 => kBase64Alphabet(v) = 65 + v
         /\ v \in 26 .. 51 => kBase64Alphabet(v) = 97 + (v - 26)
         /\ v \in 52 .. 61 => kBase64Alphabet(v) = 48 + (v - 52)
         /\ v = 62 => kBase64Alphabet(v) = 43
         /\ v = 63 => kBase64Alphabet(v) = 47
<1>1. CASE v \in 0 .. 25
  <2>1. v < 26 /\ v \notin 26 .. 51 /\ v \notin 52 .. 61 /\ v # 62 /\ v # 63
    BY <1>1
  <2>2. kBase64Alphabet(v) = 65 + v
    BY <2>1, Zenon DEF kBase64Alphabet
  <2> QED
    BY <1>1, <2>1, <2>2 DEF Pad
<1>2. CASE v \in 26 .. 51
  <2>1. ~(v < 26) /\ v \notin 0 .. 25 /\ v \notin 52 .. 61 /\ v # 62 /\ v # 63
    BY <1>2
  <2>2. kBase64Alphabet(v) = 97 + (v - 26)
    BY <1>2, <2>1, Zenon DEF kBase64Alphabet
  <2> QED
    BY <1>2, <2>1, <2>2 DEF Pad
<1>3. CASE v \in 52 .. 61
  <2>1. ~(v < 26) /\ v \notin 0 .. 25 /\ v \notin 26 .. 51 /\ v # 62 /\ v # 63
    BY <1>3
  <2>2. kBase64Alphabet(v) = 48 + (v - 52)
    BY <1>3, <2>1, Zenon DEF kBase64Alphabet
  <2> QED
    BY <1>3, <2>1, <2>2 DEF Pad
<1>4. CASE v = 62
  <2>1. ~(v < 26) /\ v \notin 0 .. 25 /\ v \notin 26 .. 51 /\ v \notin 52 .. 61 /\ v # 63
    BY <1>4
  <2>2. kBase64Alphabet(v) = 43
    BY <1>4, <2>1, Zenon DEF kBase64Alphabet
  <2> QED
    BY <1>4, <2>1, <2>2 DEF Pad
<1>5. CASE v = 63
  <2>1. ~(v < 26) /\ v \notin 0 .. 25 /\ v \notin 26 .. 51 /\ v \notin 52 .. 61 /\ v # 62
    BY <1>5
  <2>2. kBase64Alphabet(v) = 47
    BY <1>5, <2>1, Zenon DEF kBase64Alphabet
  <2> QED
    BY <1>5, <2>1, <2>2 DEF Pad
<1>6. v \in 0 .. 25 \/ v \in 26 .. 51 \/ v \in 52 .. 61 \/ v = 62 \/ v = 63
  OBVIOUS
<1> QED
  BY <1>1, <1>2, <1>3, <1>4, <1>5, <1>6

\* The lookup takes the character back to its value.
LEMMA LookupOfAlphabet ==
  ASSUME NEW v \in 0 .. 63
  PROVE  b64_lookup(kBase64Alphabet(v)) = v
<1> DEFINE ch == kBase64Alphabet(v)
<1> HIDE DEF ch
<1>1. CASE v \in 0 .. 25
  <2>1. ch = 65 + v
    BY <1>1, Alphabet DEF ch
  <2>2. ch \in 65 .. 90 /\ ch \notin 97 .. 122 /\ ch \notin 48 .. 57 /\ ch # 43 /\ ch # 47
    BY <1>1, <2>1
  <2>3. b64_lookup(ch) = ch - 65
    BY <2>2, SMTT(60) DEF b64_lookup
  <2> QED
    BY <2>1, <2>3 DEF ch
<1>2. CASE v \in 26 .. 51
  <2>1. ch = 97 + (v - 26)
    BY <1>2, Alphabet DEF ch
  <2>2. ch \notin 65 .. 90 /\ ch \in 97 .. 122 /\ ch \notin 48 .. 57 /\ ch # 43 /\ ch # 47
    BY <1>2, <2>1
  <2>3. b64_lookup(ch) = ch - 71
    BY <2>2, SMTT(60) DEF b64_lookup
  <2> QED
    BY <2>1, <2>3 DEF ch
<1>3. CASE v \in 52 .. 61
  <2>1. ch = 48 + (v - 52)
    BY <1>3, Alphabet DEF ch
  <2>2. ch \notin 65 .. 90 /\ ch \notin 97 .. 122 /\ ch \in 48 .. 57 /\ ch # 43 /\ ch # 47
    BY <1>3, <2>1
  <2>3. b64_lookup(ch) = ch + 4
    BY <2>2, Zenon DEF b64_lookup
  <2> QED
    BY <2>1, <2>3 DEF ch
<1>4. CASE v = 62
  <2>1. ch = 43
    BY <1>4, Alphabet DEF ch
  <2>2. ch \notin 65 .. 90 /\ ch \notin 97 .. 122 /\ ch \notin 48 .. 57 /\ ch # 47
    BY <2>1
  <2>3. b64_lookup(ch) = 62
    BY <2>1, <2>2, Zenon DEF b64_lookup
  <2> QED
    BY <1>4, <2>3 DEF ch
<1>5. CASE v = 63
  <2>1. ch = 47
    BY <1>5, Alphabet DEF ch
  <2>2. ch \notin 65 .. 90 /\ ch \notin 97 .. 122 /\ ch \notin 48 .. 57 /\ ch # 43
    BY <2>1
  <2>3. b64_lookup(ch) = 63
    BY <2>1, <2>2, Zenon DEF b64_lookup
  <2> QED
    BY <1>5, <2>3 DEF ch
<1>6. v \in 0 .. 25 \/ v \in 26 .. 51 \/ v \in 52 .. 61 \/ v = 62 \/ v = 63
  OBVIOUS
<1> QED
  BY <1>1, <1>2, <1>3, <1>4, <1>5, <1>6

-----------------------------------------------------------------------------
(* Base64: the bits of a group *)

\* The byte number k of a text, zero behind its end
ByteOrZero(s, k) == IF k <= Len(s) THEN s[k] ELSE 0

\* The bits of byte number k + 1
LEMMA BitsOfByte ==
  ASSUME NEW s \in Seq(0 .. 255), NEW k \in Nat
  PROVE  LET x == ByteOrZero(s, k + 1) IN
         /\ x \in 0 .. 255
         /\ BitOrZero(s, 8 * k) = (x \div 128) % 2
         /\ BitOrZero(s, 8 * k + 1) = (x \div 64) % 2
         /\ BitOrZero(s, 8 * k + 2) = (x \div 32) % 2
         /\ BitOrZero(s, 8 * k + 3) = (x \div 16) % 2
         /\ BitOrZero(s, 8 * k + 4) = (x \div 8) % 2
         /\ BitOrZero(s, 8 * k + 5) = (x \div 4) % 2
         /\ BitOrZero(s, 8 * k + 6) = (x \div 2) % 2
         /\ BitOrZero(s, 8 * k + 7) = x % 2
<1> DEFINE x == ByteOrZero(s, k + 1)
<1>1. Len(s) \in Nat /\ \A j \in 1 .. Len(s) : s[j] \in 0 .. 255
  BY LenProperties, ElementOfSeq
<1>2. x \in 0 .. 255 /\ (k < Len(s) => x = s[k + 1]) /\ (~(k < Len(s)) => x = 0)
  BY <1>1 DEF ByteOrZero
<1> HIDE DEF x
<1>3. ASSUME NEW m \in 0 .. 7
      PROVE  BitOrZero(s, 8 * k + m) = IF k < Len(s) THEN (x \div (2 ^ (7 - m))) % 2 ELSE 0
  <2>1. (8 * k + m) \div 8 = k /\ (8 * k + m) % 8 = m /\ 1 + k = k + 1
    OBVIOUS
  <2>2. 8 * k + m < 8 * Len(s) <=> k < Len(s)
    BY <1>1
  <2>3. Bit(s, 8 * k + m) = (s[k + 1] \div (2 ^ (7 - m))) % 2
    BY <2>1 DEF Bit
  <2> QED
    BY <1>2, <2>2, <2>3 DEF BitOrZero
<1>4. /\ 2 ^ (7 - 0) = 128 /\ 2 ^ (7 - 1) = 64 /\ 2 ^ (7 - 2) = 32 /\ 2 ^ (7 - 3) = 16
      /\ 2 ^ (7 - 4) = 8 /\ 2 ^ (7 - 5) = 4 /\ 2 ^ (7 - 6) = 2 /\ 2 ^ (7 - 7) = 1
  OBVIOUS
<1>5. 8 * k + 0 = 8 * k
  OBVIOUS
<1>6. /\ BitOrZero(s, 8 * k) = IF k < Len(s) THEN (x \div 128) % 2 ELSE 0
      /\ BitOrZero(s, 8 * k + 1) = IF k < Len(s) THEN (x \div 64) % 2 ELSE 0
      /\ BitOrZero(s, 8 * k + 2) = IF k < Len(s) THEN (x \div 32) % 2 ELSE 0
      /\ BitOrZero(s, 8 * k + 3) = IF k < Len(s) THEN (x \div 16) % 2 ELSE 0
  BY <1>3, <1>4, <1>5
<1>7. /\ BitOrZero(s, 8 * k + 4) = IF k < Len(s) THEN (x \div 8) % 2 ELSE 0
      /\ BitOrZero(s, 8 * k + 5) = IF k < Len(s) THEN (x \div 4) % 2 ELSE 0
      /\ BitOrZero(s, 8 * k + 6) = IF k < Len(s) THEN (x \div 2) % 2 ELSE 0
      /\ BitOrZero(s, 8 * k + 7) = IF k < Len(s) THEN (x \div 1) % 2 ELSE 0
  BY <1>3, <1>4
<1>8. CASE k < Len(s)
  <2>1. x \div 1 = x
    BY <1>2
  <2> QED
    BY <1>2, <1>6, <1>7, <1>8, <2>1 DEF x
<1>9. CASE ~(k < Len(s))
  <2>1. /\ (0 \div 128) % 2 = 0 /\ (0 \div 64) % 2 = 0 /\ (0 \div 32) % 2 = 0
        /\ (0 \div 16) % 2 = 0 /\ (0 \div 8) % 2 = 0 /\ (0 \div 4) % 2 = 0
        /\ (0 \div 2) % 2 = 0 /\ 0 % 2 = 0
    OBVIOUS
  <2>2. x = 0
    BY <1>2, <1>9
  <2> QED
    BY <1>2, <1>6, <1>7, <1>9, <2>1, <2>2 DEF x
<1> QED
  BY <1>8, <1>9

\* Six bits out of one byte or out of two, as a number
LEMMA SixBits ==
  ASSUME NEW x \in 0 .. 255, NEW y \in 0 .. 255
  PROVE  /\ 32 * ((x \div 128) % 2) + 16 * ((x \div 64) % 2) + 8 * ((x \div 32) % 2)
              + 4 * ((x \div 16) % 2) + 2 * ((x \div 8) % 2) + ((x \div 4) % 2) = x \div 4
         /\ 32 * ((x \div 2) % 2) + 16 * (x % 2) + 8 * ((y \div 128) % 2)
              + 4 * ((y \div 64) % 2) + 2 * ((y \div 32) % 2) + ((y \div 16) % 2)
                = (x % 4) * 16 + y \div 16
         /\ 32 * ((x \div 8) % 2) + 16 * ((x \div 4) % 2) + 8 * ((x \div 2) % 2)
              + 4 * (x % 2) + 2 * ((y \div 128) % 2) + ((y \div 64) % 2)
                = (x % 16) * 4 + y \div 64
         /\ 32 * ((x \div 32) % 2) + 16 * ((x \div 16) % 2) + 8 * ((x \div 8) % 2)
              + 4 * ((x \div 4) % 2) + 2 * ((x \div 2) % 2) + (x % 2) = x % 64
<1>1. 32 * ((x \div 128) % 2) + 16 * ((x \div 64) % 2) + 8 * ((x \div 32) % 2)
        + 4 * ((x \div 16) % 2) + 2 * ((x \div 8) % 2) + ((x \div 4) % 2) = x \div 4
  OBVIOUS
<1>2. 32 * ((x \div 2) % 2) + 16 * (x % 2) = (x % 4) * 16
  OBVIOUS
<1>3. 8 * ((y \div 128) % 2) + 4 * ((y \div 64) % 2) + 2 * ((y \div 32) % 2)
        + ((y \div 16) % 2) = y \div 16
  OBVIOUS
<1>4. 32 * ((x \div 8) % 2) + 16 * ((x \div 4) % 2) + 8 * ((x \div 2) % 2)
        + 4 * (x % 2) = (x % 16) * 4
  OBVIOUS
<1>5. 2 * ((y \div 128) % 2) + ((y \div 64) % 2) = y \div 64
  OBVIOUS
<1>6. 32 * ((x \div 32) % 2) + 16 * ((x \div 16) % 2) + 8 * ((x \div 8) % 2)
        + 4 * ((x \div 4) % 2) + 2 * ((x \div 2) % 2) + (x % 2) = x % 64
  BY SMTT(60)
<1> QED
  BY <1>1, <1>2, <1>3, <1>4, <1>5, <1>6

\* Four digits are what a3_to_a4 makes of three bytes.
LEMMA DigitsOfGroup ==
  ASSUME NEW s \in Seq(0 .. 255), NEW g \in Nat
  PROVE  LET x == ByteOrZero(s, 3 * g + 1)
             y == ByteOrZero(s, 3 * g + 2)
             z == ByteOrZero(s, 3 * g + 3) IN
         /\ x \in 0 .. 255 /\ y \in 0 .. 255 /\ z \in 0 .. 255
         /\ Digit(s, 4 * g) = x \div 4
         /\ Digit(s, 4 * g + 1) = (x % 4) * 16 + y \div 16
         /\ Digit(s, 4 * g + 2) = (y % 16) * 4 + z \div 64
         /\ Digit(s, 4 * g + 3) = z % 64
<1> DEFINE x == ByteOrZero(s, 3 * g + 1)
           y == ByteOrZero(s, 3 * g + 2)
           z == ByteOrZero(s, 3 * g + 3)
           B(m) == BitOrZero(s, 24 * g + m)
<1>1. /\ x \in 0 .. 255 /\ B(0) = (x \div 128) % 2 /\ B(1) = (x \div 64) % 2
      /\ B(2) = (x \div 32) % 2 /\ B(3) = (x \div 16) % 2 /\ B(4) = (x \div 8) % 2
      /\ B(5) = (x \div 4) % 2 /\ B(6) = (x \div 2) % 2 /\ B(7) = x % 2
  <2>1. 3 * g \in Nat /\ 8 * (3 * g) = 24 * g + 0 /\ \A m \in 1 .. 7 : 8 * (3 * g) + m = 24 * g + m
    OBVIOUS
  <2> QED
    BY <2>1, BitsOfByte
<1>2. /\ y \in 0 .. 255 /\ B(8) = (y \div 128) % 2 /\ B(9) = (y \div 64) % 2
      /\ B(10) = (y \div 32) % 2 /\ B(11) = (y \div 16) % 2 /\ B(12) = (y \div 8) % 2
      /\ B(13) = (y \div 4) % 2 /\ B(14) = (y \div 2) % 2 /\ B(15) = y % 2
  <2> DEFINE k == 3 * g + 1
  <2>1. /\ k \in Nat /\ k + 1 = 3 * g + 2 /\ 8 * k = 24 * g + 8
        /\ 8 * k + 1 = 24 * g + 9 /\ 8 * k + 2 = 24 * g + 10 /\ 8 * k + 3 = 24 * g + 11
        /\ 8 * k + 4 = 24 * g + 12 /\ 8 * k + 5 = 24 * g + 13 /\ 8 * k + 6 = 24 * g + 14
        /\ 8 * k + 7 = 24 * g + 15
    OBVIOUS
  <2> HIDE DEF k
  <2>2. /\ ByteOrZero(s, k + 1) \in 0 .. 255
        /\ BitOrZero(s, 8 * k) = (ByteOrZero(s, k + 1) \div 128) % 2
        /\ BitOrZero(s, 8 * k + 1) = (ByteOrZero(s, k + 1) \div 64) % 2
        /\ BitOrZero(s, 8 * k + 2) = (ByteOrZero(s, k + 1) \div 32) % 2
        /\ BitOrZero(s, 8 * k + 3) = (ByteOrZero(s, k + 1) \div 16) % 2
        /\ BitOrZero(s, 8 * k + 4) = (ByteOrZero(s, k + 1) \div 8) % 2
        /\ BitOrZero(s, 8 * k + 5) = (ByteOrZero(s, k + 1) \div 4) % 2
        /\ BitOrZero(s, 8 * k + 6) = (ByteOrZero(s, k + 1) \div 2) % 2
        /\ BitOrZero(s, 8 * k + 7) = ByteOrZero(s, k + 1) % 2
    BY <2>1, BitsOfByte, Zenon
  <2> QED
    BY <2>1, <2>2, ZenonT(60)
<1>3. /\ z \in 0 .. 255 /\ B(16) = (z \div 128) % 2 /\ B(17) = (z \div 64) % 2
      /\ B(18) = (z \div 32) % 2 /\ B(19) = (z \div 16) % 2 /\ B(20) = (z \div 8) % 2
      /\ B(21) = (z \div 4) % 2 /\ B(22) = (z \div 2) % 2 /\ B(23) = z % 2
  <2> DEFINE k == 3 * g + 2
  <2>1. /\ k \in Nat /\ k + 1 = 3 * g + 3 /\ 8 * k = 24 * g + 16
        /\ 8 * k + 1 = 24 * g + 17 /\ 8 * k + 2 = 24 * g + 18 /\ 8 * k + 3 = 24 * g + 19
        /\ 8 * k + 4 = 24 * g + 20 /\ 8 * k + 5 = 24 * g + 21 /\ 8 * k + 6 = 24 * g + 22
        /\ 8 * k + 7 = 24 * g + 23
    OBVIOUS
  <2> HIDE DEF k
  <2>2. /\ ByteOrZero(s, k + 1) \in 0 .. 255
        /\ BitOrZero(s, 8 * k) = (ByteOrZero(s, k + 1) \div 128) % 2
        /\ BitOrZero(s, 8 * k + 1) = (ByteOrZero(s, k + 1) \div 64) % 2
        /\ BitOrZero(s, 8 * k + 2) = (ByteOrZero(s, k + 1) \div 32) % 2
        /\ BitOrZero(s, 8 * k + 3) = (ByteOrZero(s, k + 1) \div 16) % 2
        /\ BitOrZero(s, 8 * k + 4) = (ByteOrZero(s, k + 1) \div 8) % 2
        /\ BitOrZero(s, 8 * k + 5) = (ByteOrZero(s, k + 1) \div 4) % 2
        /\ BitOrZero(s, 8 * k + 6) = (ByteOrZero(s, k + 1) \div 2) % 2
        /\ BitOrZero(s, 8 * k + 7) = ByteOrZero(s, k + 1) % 2
    BY <2>1, BitsOfByte, Zenon
  <2> QED
    BY <2>1, <2>2, ZenonT(60)
<1>4. /\ Digit(s, 4 * g) = 32 * B(0) + 16 * B(1) + 8 * B(2) + 4 * B(3) + 2 * B(4) + B(5)
      /\ Digit(s, 4 * g + 1) = 32 * B(6) + 16 * B(7) + 8 * B(8) + 4 * B(9) + 2 * B(10) + B(11)
      /\ Digit(s, 4 * g + 2) = 32 * B(12) + 16 * B(13) + 8 * B(14) + 4 * B(15) + 2 * B(16) + B(17)
      /\ Digit(s, 4 * g + 3) = 32 * B(18) + 16 * B(19) + 8 * B(20) + 4 * B(21) + 2 * B(22) + B(23)
  <2>1. \A j \in 0 .. 3 : \A b \in 0 .. 5 : 6 * (4 * g + j) + b = 24 * g + (6 * j + b)
    OBVIOUS
  <2>2. 4 * g = 4 * g + 0
    OBVIOUS
  <2> QED
    BY <2>1, <2>2 DEF Digit
<1> HIDE DEF x, y, z, B
<1>5. Digit(s, 4 * g) = x \div 4
  BY <1>1, <1>4, SixBits, ZenonT(60)
<1>6. Digit(s, 4 * g + 1) = (x % 4) * 16 + y \div 16
  <2>1. Digit(s, 4 * g + 1)
          = 32 * ((x \div 2) % 2) + 16 * (x % 2) + 8 * ((y \div 128) % 2)
              + 4 * ((y \div 64) % 2) + 2 * ((y \div 32) % 2) + ((y \div 16) % 2)
    BY <1>1, <1>2, <1>4, Zenon
  <2> QED
    BY <1>1, <1>2, <2>1, SixBits, ZenonT(60)
<1>7. Digit(s, 4 * g + 2) = (y % 16) * 4 + z \div 64
  <2>1. Digit(s, 4 * g + 2)
          = 32 * ((y \div 8) % 2) + 16 * ((y \div 4) % 2) + 8 * ((y \div 2) % 2)
              + 4 * (y % 2) + 2 * ((z \div 128) % 2) + ((z \div 64) % 2)
    BY <1>2, <1>3, <1>4, Zenon
  <2> QED
    BY <1>2, <1>3, <2>1, SixBits, ZenonT(60)
<1>8. Digit(s, 4 * g + 3) = z % 64
  BY <1>3, <1>4, SixBits, ZenonT(60)
<1> QED
  BY <1>1, <1>2, <1>3, <1>5, <1>6, <1>7, <1>8 DEF x, y, z

\* The digits of the bytes x, y, z: the first two, and all of them
FirstDigits(a4, x, y, z) ==
  /\ x \in 0 .. 255 /\ y \in 0 .. 255 /\ z \in 0 .. 255
  /\ a4[1] = x \div 4 /\ a4[2] = (x % 4) * 16 + y \div 16
  /\ a4[3] \in 0 .. 255 /\ a4[4] \in 0 .. 255
ThirdDigit(a4, y, z) == a4[3] = (y % 16) * 4 + z \div 64
FourthDigit(a4, z) == a4[4] = z % 64

\* The first bytes come back from the first digits: one byte from two digits,
\* two from three, three from four.
LEMMA BytesOfDigits ==
  ASSUME NEW x, NEW y, NEW z, NEW a4, FirstDigits(a4, x, y, z)
  PROVE  /\ a4_to_a3(a4)[1] = x
         /\ ThirdDigit(a4, y, z) => a4_to_a3(a4)[2] = y
         /\ ThirdDigit(a4, y, z) /\ FourthDigit(a4, z) => a4_to_a3(a4)[3] = z
<1>1. /\ a4_to_a3(a4)[1] = (a4[1] * 4 + (a4[2] % 64) \div 16) % 256
      /\ a4_to_a3(a4)[2] = ((a4[2] % 16) * 16 + (a4[3] % 64) \div 4) % 256
      /\ a4_to_a3(a4)[3] = ((a4[3] % 4) * 64 + a4[4]) % 256
  BY DEF a4_to_a3
<1> x \in 0 .. 255 /\ y \in 0 .. 255 /\ z \in 0 .. 255
  BY DEF FirstDigits
<1>2. ((x \div 4) * 4 + (((x % 4) * 16 + y \div 16) % 64) \div 16) % 256 = x
  OBVIOUS
<1>3. ((((x % 4) * 16 + y \div 16) % 16) * 16 + (((y % 16) * 4 + z \div 64) % 64) \div 4) % 256 = y
  <2>1. ((x % 4) * 16 + y \div 16) % 16 = y \div 16
    OBVIOUS
  <2>2. (((y % 16) * 4 + z \div 64) % 64) \div 4 = y % 16
    OBVIOUS
  <2>3. ((y \div 16) * 16 + (y % 16)) % 256 = y
    OBVIOUS
  <2> QED
    BY <2>1, <2>2, <2>3, Zenon
<1>4. ((((y % 16) * 4 + z \div 64) % 4) * 64 + (z % 64)) % 256 = z
  <2>1. ((y % 16) * 4 + z \div 64) % 4 = z \div 64
    OBVIOUS
  <2>2. ((z \div 64) * 64 + (z % 64)) % 256 = z
    OBVIOUS
  <2> QED
    BY <2>1, <2>2, Zenon
<1>5. a4_to_a3(a4)[1] = x
  BY <1>1, <1>2, Zenon DEF FirstDigits
<1>6. ThirdDigit(a4, y, z) => a4_to_a3(a4)[2] = y
  BY <1>1, <1>3, SMTT(60) DEF FirstDigits, ThirdDigit
<1>7. ThirdDigit(a4, y, z) /\ FourthDigit(a4, z) => a4_to_a3(a4)[3] = z
  BY <1>1, <1>4, SMTT(60) DEF ThirdDigit, FourthDigit
<1> QED
  BY <1>5, <1>6, <1>7

-----------------------------------------------------------------------------
(* Base64: the definition *)

\* The number of characters before the padding
Digits(s) == (8 * Len(s) + 5) \div 6

\* How many digits and how many characters a text has
LEMMA DigitCount ==
  ASSUME NEW n \in Nat, NEW q \in Nat, NEW r \in 0 .. 2, n = 3 * q + r
  PROVE  /\ (8 * n + 5) \div 6 = IF r = 0 THEN 4 * q ELSE 4 * q + r + 1
         /\ ((n + 2) \div 3) * 4 = IF r = 0 THEN 4 * q ELSE 4 * q + 4
         /\ EncodedLength(n) = IF r = 0 THEN 4 * q ELSE 4 * q + 4
<1>1. CASE r = 0
  BY <1>1 DEF EncodedLength
<1>2. CASE r = 1
  BY <1>2 DEF EncodedLength
<1>3. CASE r = 2
  BY <1>3 DEF EncodedLength
<1> QED
  BY <1>1, <1>2, <1>3

\* A text is some whole groups and a rest.
LEMMA WholeGroups ==
  ASSUME NEW n \in Nat
  PROVE  \E q \in Nat : \E r \in 0 .. 2 : n = 3 * q + r
<1>1. n \div 3 \in Nat /\ n % 3 \in 0 .. 2 /\ n = 3 * (n \div 3) + (n % 3)
  OBVIOUS
<1> QED
  BY <1>1

\* A digit has six bits.
LEMMA DigitType ==
  ASSUME NEW s \in Seq(0 .. 255), NEW d \in Nat
  PROVE  Digit(s, d) \in 0 .. 63
<1> DEFINE g == d \div 4
<1>1. g \in Nat /\ (d = 4 * g \/ d = 4 * g + 1 \/ d = 4 * g + 2 \/ d = 4 * g + 3)
  OBVIOUS
<1> HIDE DEF g
<1> DEFINE x == ByteOrZero(s, 3 * g + 1)
           y == ByteOrZero(s, 3 * g + 2)
           z == ByteOrZero(s, 3 * g + 3)
<1>2. /\ x \in 0 .. 255 /\ y \in 0 .. 255 /\ z \in 0 .. 255
      /\ Digit(s, 4 * g) = x \div 4
      /\ Digit(s, 4 * g + 1) = (x % 4) * 16 + y \div 16
      /\ Digit(s, 4 * g + 2) = (y % 16) * 4 + z \div 64
      /\ Digit(s, 4 * g + 3) = z % 64
  BY <1>1, DigitsOfGroup
<1> HIDE DEF x, y, z
<1>3. /\ x \div 4 \in 0 .. 63 /\ (x % 4) * 16 + y \div 16 \in 0 .. 63
      /\ (y % 16) * 4 + z \div 64 \in 0 .. 63 /\ z % 64 \in 0 .. 63
  BY <1>2, SMTT(60)
<1>4. CASE d = 4 * g
  BY <1>2, <1>3, <1>4, ZenonT(60)
<1>5. CASE d = 4 * g + 1
  BY <1>2, <1>3, <1>5, ZenonT(60)
<1>6. CASE d = 4 * g + 2
  BY <1>2, <1>3, <1>6, ZenonT(60)
<1>7. CASE d = 4 * g + 3
  BY <1>2, <1>3, <1>7, ZenonT(60)
<1> QED
  BY <1>1, <1>4, <1>5, <1>6, <1>7

\* What Base64 of a text is, character by character
LEMMA ReferenceFacts ==
  ASSUME NEW s \in Seq(1 .. 255)
  PROVE  /\ s \in Seq(0 .. 255) /\ Len(s) \in Nat
         /\ Reference(s) \in Seq(43 .. 122)
         /\ Len(Reference(s)) = EncodedLength(Len(s))
         /\ Digits(s) \in Nat /\ Digits(s) <= Len(Reference(s))
         /\ \A k \in 1 .. Digits(s) :
              /\ Digit(s, k - 1) \in 0 .. 63
              /\ Reference(s)[k] = kBase64Alphabet(Digit(s, k - 1))
              /\ Reference(s)[k] # Pad
         /\ \A k \in Digits(s) + 1 .. Len(Reference(s)) : Reference(s)[k] = Pad
<1>1. s \in Seq(0 .. 255)
  <2>1. 1 .. 255 \subseteq 0 .. 255
    OBVIOUS
  <2> QED
    BY <2>1, SeqMonotonic
<1>2. Len(s) \in Nat
  BY LenProperties
<1>3. PICK q \in Nat, r \in 0 .. 2 : Len(s) = 3 * q + r
  BY <1>2, WholeGroups
<1> DEFINE chars == ((Len(s) + 2) \div 3) * 4
<1>4. /\ chars = EncodedLength(Len(s)) /\ chars \in Nat
      /\ Digits(s) \in Nat /\ Digits(s) <= chars
  BY <1>2, <1>3, DigitCount DEF Digits
<1>5. Reference(s) = [k \in 1 .. chars |->
                        IF k <= Digits(s) THEN kBase64Alphabet(Digit(s, k - 1)) ELSE Pad]
  BY DEF Reference, Digits
<1> HIDE DEF chars
<1>6. ASSUME NEW k \in 1 .. chars, k <= Digits(s)
      PROVE  /\ Digit(s, k - 1) \in 0 .. 63
             /\ kBase64Alphabet(Digit(s, k - 1)) \in 43 .. 122
             /\ kBase64Alphabet(Digit(s, k - 1)) # Pad
  <2>1. k - 1 \in Nat
    BY <1>4
  <2>2. Digit(s, k - 1) \in 0 .. 63
    BY <1>1, <2>1, DigitType
  <2> QED
    BY <2>2, Alphabet
<1>7. Pad \in 43 .. 122
  BY DEF Pad
<1> DEFINE f == Reference(s)
<1>8. ASSUME NEW k \in 1 .. chars
      PROVE  /\ k <= Digits(s) => f[k] = kBase64Alphabet(Digit(s, k - 1))
             /\ ~(k <= Digits(s)) => f[k] = Pad
             /\ f[k] \in 43 .. 122
  <2>1. f[k] = IF k <= Digits(s) THEN kBase64Alphabet(Digit(s, k - 1)) ELSE Pad
    BY <1>5
  <2> QED
    BY <1>6, <1>7, <2>1, SMTT(60)
<1>9. f = [k \in 1 .. chars |-> f[k]]
  BY <1>5, Zenon
<1> HIDE DEF f
<1>10. f \in [1 .. chars -> 43 .. 122]
  BY <1>8, <1>9
<1>11. f \in Seq(43 .. 122) /\ Len(f) = chars
  BY <1>4, <1>10, FunctionIsSeq
<1>12. ASSUME NEW k \in 1 .. Digits(s)
       PROVE  /\ Digit(s, k - 1) \in 0 .. 63
              /\ f[k] = kBase64Alphabet(Digit(s, k - 1)) /\ f[k] # Pad
  <2>1. k \in 1 .. chars /\ k <= Digits(s)
    BY <1>4
  <2> QED
    BY <1>6, <1>8, <2>1, Zenon
<1>13. ASSUME NEW k \in Digits(s) + 1 .. chars PROVE f[k] = Pad
  BY <1>4, <1>8
<1> QED
  BY <1>1, <1>2, <1>4, <1>11, <1>12, <1>13 DEF f

-----------------------------------------------------------------------------
(* Base64: strings that are cut *)

\* A string without a terminator inside stays as it is.
LEMMA NothingToCut ==
  ASSUME NEW s \in Seq(1 .. 255)
  PROVE  CutAtNul(s) = s
<1>1. \A k \in DOMAIN s : s[k] # 0
  <2>1. \A k \in 1 .. Len(s) : s[k] \in 1 .. 255
    BY ElementOfSeq
  <2>2. DOMAIN s = 1 .. Len(s)
    BY LenProperties
  <2>3. 0 \notin 1 .. 255
    OBVIOUS
  <2> QED
    BY <2>1, <2>2, <2>3, Zenon
<1> QED
  BY <1>1, Zenon DEF CutAtNul

\* A C string has no terminator inside.
LEMMA CutAtNulType ==
  ASSUME NEW s \in Seq(0 .. 255)
  PROVE  CutAtNul(s) \in Seq(1 .. 255)
<1>1. /\ Len(s) \in Nat /\ DOMAIN s = 1 .. Len(s)
      /\ \A k \in 1 .. Len(s) : s[k] \in 0 .. 255
  BY LenProperties, ElementOfSeq
<1>2. CASE \E k \in DOMAIN s : s[k] = 0
  <2> DEFINE I == {k \in 1 .. Len(s) : s[k] = 0}
             m == Min(I)
  <2>1. I # {} /\ I \subseteq Nat
    BY <1>1, <1>2
  <2>2. SelectInSeq(s, LAMBDA b : b = 0) = m
    BY <2>1 DEF SelectInSeq
  <2>3. CutAtNul(s) = SubSeq(s, 1, m - 1)
    BY <1>2, <2>2 DEF CutAtNul
  <2>4. m \in I /\ \A k \in I : m <= k
    <3> HIDE DEF I
    <3> QED
      BY <2>1, MinIsLeast
  <2>5. m \in 1 .. Len(s)
    BY <2>4
  <2>6. \A k \in 1 .. m - 1 : k \in 1 .. Len(s) /\ s[k] # 0
    BY <1>1, <2>4, <2>5
  <2> HIDE DEF m, I
  <2>7. \A b \in 0 .. 255 : b # 0 => b \in 1 .. 255
    OBVIOUS
  <2>8. \A k \in 1 .. m - 1 : s[k] \in 1 .. 255
    BY <1>1, <2>6, <2>7, Zenon
  <2>9. m - 1 \in 0 .. Len(s)
    BY <1>1, <2>5
  <2> QED
    BY <2>3, <2>8, <2>9, FirstElements
<1>3. CASE ~ \E k \in DOMAIN s : s[k] = 0
  <2>1. CutAtNul(s) = s
    BY <1>3, Zenon DEF CutAtNul
  <2>2. \A b \in 0 .. 255 : b # 0 => b \in 1 .. 255
    OBVIOUS
  <2>3. \A k \in 1 .. Len(s) : s[k] \in 1 .. 255
    BY <1>1, <1>3, <2>2, Zenon
  <2>4. s \in Seq(1 .. 255)
    <3> DEFINE S == 0 .. 255
               R == 1 .. 255
    <3>1. s \in Seq(S) /\ \A k \in 1 .. Len(s) : s[k] \in R
      BY <2>3
    <3> HIDE DEF S, R
    <3>2. s \in Seq(R)
      BY <3>1, SeqOfElements
    <3> QED
      BY <3>2 DEF R
  <2> QED
    BY <2>1, <2>4
<1> QED
  BY <1>2, <1>3

\* The padding begins behind the last character that is not '='.
LEMMA TextEndIs ==
  ASSUME NEW s, NEW n \in Nat, Len(s) = n, NEW m \in 0 .. n,
         \A j \in m + 1 .. n : s[j] = Pad, m # 0 => s[m] # Pad
  PROVE  TextEnd(s) = m
<1> DEFINE T == {k \in 0 .. Len(s) : \A j \in k + 1 .. Len(s) : s[j] = Pad}
<1>1. T \subseteq Nat /\ m \in T
  OBVIOUS
<1>2. ASSUME NEW k \in T PROVE m <= k
  <2> SUFFICES ASSUME k < m PROVE FALSE
    BY <1>1
  <2>1. m \in k + 1 .. Len(s) /\ m # 0
    BY <1>1
  <2> QED
    BY <2>1
<1>3. TextEnd(s) = Min(T)
  BY DEF TextEnd
<1> HIDE DEF T
<1>4. Min(T) \in T /\ Min(T) <= m
  BY <1>1, MinIsLeast
<1>5. m <= Min(T) /\ Min(T) \in Nat
  BY <1>1, <1>2, <1>4
<1> QED
  BY <1>3, <1>4, <1>5

\* What the script hands to FromBase64, with its padding or without, begins
\* with the digits of the text; the room for the decoded text is its length.
LEMMA PaddedOrStripped ==
  ASSUME NEW s \in Seq(1 .. 255), NEW e,
         e = Reference(s) \/ e = StripPadding(Reference(s))
  PROVE  /\ e \in Seq(43 .. 122)
         /\ Len(e) = Digits(s) \/ Len(e) = Len(Reference(s))
         /\ \A k \in 1 .. Len(e) : e[k] = Reference(s)[k]
         /\ DecodedLength(e, Len(e) - TextEnd(e)) = Len(s)
         /\ WellPadded(e)
<1> DEFINE f == Reference(s)
           D == Digits(s)
           n == Len(s)
           N == Len(f)
<1>1. /\ n \in Nat /\ f \in Seq(43 .. 122) /\ N = EncodedLength(n)
      /\ D \in Nat /\ D <= N
      /\ \A k \in 1 .. D : f[k] # Pad
      /\ \A k \in D + 1 .. N : f[k] = Pad
  BY ReferenceFacts
<1>2. PICK q \in Nat, r \in 0 .. 2 : n = 3 * q + r
  BY <1>1, WholeGroups
<1>3. /\ D = IF r = 0 THEN 4 * q ELSE 4 * q + r + 1
      /\ N = IF r = 0 THEN 4 * q ELSE 4 * q + 4
  BY <1>1, <1>2, DigitCount DEF Digits
<1> HIDE DEF f, D, n, N
<1>4. Len(f) = N /\ N \in Nat /\ DOMAIN f = 1 .. N /\ \A k \in 1 .. N : f[k] \in 43 .. 122
  <2>1. Len(f) = N
    BY DEF N
  <2>2. f \in Seq(43 .. 122)
    BY <1>1
  <2>3. Len(f) \in Nat /\ DOMAIN f = 1 .. Len(f) /\ \A k \in 1 .. Len(f) : f[k] \in 43 .. 122
    BY <2>2, SeqIsFunction
  <2> QED
    BY <2>1, <2>3, Zenon
<1>5. TextEnd(f) = D
  <2>1. D \in 0 .. N /\ (D # 0 => f[D] # Pad)
    BY <1>1, <1>4
  <2> QED
    BY <1>1, <1>4, <2>1, TextEndIs
<1>6. CASE e = f
  <2>1. DecodedLength(e, Len(e) - TextEnd(e)) = (6 * N) \div 8 - (N - D)
    BY <1>4, <1>5, <1>6 DEF DecodedLength
  <2>2. (6 * N) \div 8 - (N - D) = n
    <3>1. CASE r = 0
      BY <1>2, <1>3, <3>1
    <3>2. CASE r = 1
      BY <1>2, <1>3, <3>2
    <3>3. CASE r = 2
      BY <1>2, <1>3, <3>3
    <3> QED
      BY <3>1, <3>2, <3>3
  <2>3. WellPadded(e)
    <3>1. N - D = 0 \/ (N % 4 = 0 /\ N - D < 4)
      BY <1>2, <1>3
    <3> QED
      BY <1>4, <1>5, <1>6, <3>1 DEF WellPadded
  <2> QED
    BY <1>1, <1>4, <1>6, <2>1, <2>2, <2>3 DEF f, D, n, N
<1>7. CASE e = StripPadding(f)
  <2>1. e = SubSeq(f, 1, D)
    BY <1>5, <1>7 DEF StripPadding
  <2>2. e = [k \in 1 .. D |-> f[k]]
    BY <1>1, <1>4, <2>1
  <2>3. e \in [1 .. D -> 43 .. 122] /\ \A k \in 1 .. D : e[k] = f[k]
    BY <1>1, <1>4, <2>2
  <2>4. e \in Seq(43 .. 122) /\ Len(e) = D
    BY <1>1, <2>3, FunctionIsSeq
  <2>5. TextEnd(e) = D
    <3>1. D \in 0 .. D /\ (D # 0 => e[D] # Pad) /\ \A j \in D + 1 .. D : e[j] = Pad
      BY <1>1, <2>3
    <3> QED
      BY <1>1, <2>4, <3>1, TextEndIs
  <2>6. DecodedLength(e, Len(e) - TextEnd(e)) = (6 * D) \div 8 - (D - D)
    BY <2>4, <2>5 DEF DecodedLength
  <2>7. (6 * D) \div 8 - (D - D) = n
    <3>1. CASE r = 0
      BY <1>2, <1>3, <3>1
    <3>2. CASE r = 1
      BY <1>2, <1>3, <3>2
    <3>3. CASE r = 2
      BY <1>2, <1>3, <3>3
    <3> QED
      BY <3>1, <3>2, <3>3
  <2>8. WellPadded(e)
    <3>1. D - D = 0
      BY <1>1
    <3> QED
      BY <2>4, <2>5, <3>1 DEF WellPadded
  <2> QED
    BY <2>3, <2>4, <2>6, <2>7, <2>8 DEF f, D, n, N
<1> QED
  BY <1>6, <1>7 DEF f

-----------------------------------------------------------------------------
(* Base64: the inductive invariant *)

\* Encode has written g groups of four; what it has read of the next group is
\* in a, and input is what is left.
EncodedSoFar(g) ==
  /\ len = 4 * g /\ reserved = Len(Reference(text))
  /\ 3 * g + Len(a) + Len(input) = Len(text)
  /\ \A k \in 1 .. Len(a) : a[k] = text[3 * g + k]
  /\ \A k \in 1 .. Len(input) : input[k] = text[3 * g + Len(a) + k]
  /\ \A k \in 1 .. 4 * g : out[k] = Reference(text)[k]

\* Decode has written g groups of three and has not met a '='.
DecodedSoFar(g) ==
  /\ len = 3 * g /\ reserved = Len(text)
  /\ 4 * g + Len(a) <= Digits(text)
  /\ 4 * g + Len(a) + Len(input) \in {Digits(text), Len(Reference(text))}
  /\ \A k \in 1 .. Len(a) : a[k] = Reference(text)[4 * g + k]
  /\ \A k \in 1 .. Len(input) : input[k] = Reference(text)[4 * g + Len(a) + k]
  /\ \A k \in 1 .. 3 * g : out[k] = text[k]

\* Wherever Decode has got to, its string ends at the size it was given or at
\* the last byte that was written.
SizesOK ==
  /\ reserved <= Len(out) /\ len <= Len(out)
  /\ Len(out) = reserved \/ Len(out) = len

\* Decode has written g groups of three, of any text, and has not met a '='.
Reading(g) ==
  /\ SizesOK /\ len = 3 * g
  /\ 4 * g + Len(a) + Len(input) = Len(coded)
  /\ \A k \in 1 .. 4 * g + Len(a) : coded[k] # Pad
  /\ \A k \in 1 .. Len(input) : input[k] = coded[4 * g + Len(a) + k]
  /\ \A k \in 1 .. len : out[k] \in 0 .. 255
  /\ WellPadded(coded) => reserved = DecodedLength(coded, Len(coded) - TextEnd(coded))

\* The text that is decoded is the one that was encoded.
OfText == coded \in {Reference(text), StripPadding(Reference(text))}

\* What is true of the two loops between any two rounds
LoopsOK ==
  /\ stage = "encoding" => \E g \in Nat : EncodedSoFar(g)
  /\ stage = "encoded" => retVal = Reference(text)
  /\ stage = "decoding" => \E g \in Nat : Reading(g) /\ (OfText => DecodedSoFar(g))
  /\ stage = "decoded" => (OfText => retVal = text)

Base64Inv == TypeOK /\ WritesFit /\ LoopsOK

-----------------------------------------------------------------------------
(* Base64: writing *)

\* Max of two numbers
LEMMA MaxOfTwo ==
  ASSUME NEW m \in Nat, NEW n \in Nat
  PROVE  Max({n, m}) = IF m <= n THEN n ELSE m
BY DEF Max

\* A write puts its bytes behind what was written and changes nothing else; one
\* that does not fit makes the string longer.
LEMMA WriteAnywhere ==
  ASSUME out \in Seq(Stale .. 255), len \in Nat, len <= Len(out),
         NEW bytes \in Seq(0 .. 255), Write(bytes)
  PROVE  /\ len' = len + Len(bytes) /\ reserved' = reserved
         /\ out' \in Seq(Stale .. 255)
         /\ Len(out') = IF len + Len(bytes) <= Len(out) THEN Len(out) ELSE len + Len(bytes)
         /\ \A k \in 1 .. len : out'[k] = out[k]
         /\ \A k \in 1 .. Len(bytes) : out'[len + k] = bytes[k]
<1> DEFINE n == Len(out)
           m == Len(bytes)
           B == Stale .. 255
           l == IF len + m <= n THEN n ELSE len + m
<1>1. n \in Nat /\ m \in Nat /\ \A k \in 1 .. n : out[k] \in B
  BY SeqIsFunction, ZenonT(60)
<1>2. \A k \in 1 .. m : bytes[k] \in B
  <2>1. \A k \in 1 .. m : bytes[k] \in 0 .. 255
    BY SeqIsFunction
  <2>2. 0 .. 255 \subseteq B
    BY DEF Stale
  <2> QED
    BY <2>1, <2>2
<1>3. len <= n
  OBVIOUS
<1>4. /\ out' = [k \in 1 .. Max({n, len + m}) |->
                   IF k \in len + 1 .. len + m THEN bytes[k - len] ELSE out[k]]
      /\ len' = len + m /\ reserved' = reserved
  BY DEF Write
<1> HIDE DEF n, m, B
<1>5. Max({n, len + m}) = l /\ l \in Nat
  BY <1>1, MaxOfTwo
<1>6. out' = [k \in 1 .. l |-> IF k \in len + 1 .. len + m THEN bytes[k - len] ELSE out[k]]
  BY <1>4, <1>5
<1>7. /\ \A k \in 1 .. l : k \in len + 1 .. len + m => k - len \in 1 .. m
      /\ \A k \in 1 .. l : k \notin len + 1 .. len + m => k \in 1 .. n
      /\ \A k \in 1 .. len : k \in 1 .. l /\ k \notin len + 1 .. len + m
      /\ \A k \in 1 .. m : /\ len + k \in 1 .. l /\ len + k \in len + 1 .. len + m
                           /\ (len + k) - len = k
  BY <1>1, <1>3
<1> HIDE DEF l
<1>8. out' \in [1 .. l -> B]
  BY <1>1, <1>2, <1>6, <1>7
<1>9. out' \in Seq(B) /\ Len(out') = l
  BY <1>5, <1>8, FunctionIsSeq
<1>10. \A k \in 1 .. len : out'[k] = out[k]
  BY <1>6, <1>7
<1>11. \A k \in 1 .. m : out'[len + k] = bytes[k]
  BY <1>6, <1>7
<1> QED
  BY <1>4, <1>9, <1>10, <1>11 DEF n, m, B, l

\* A write that fits leaves the string as long as it is.
LEMMA WriteInside ==
  ASSUME out \in Seq(Stale .. 255), len \in Nat,
         NEW bytes \in Seq(0 .. 255), len + Len(bytes) <= Len(out), Write(bytes)
  PROVE  /\ len' = len + Len(bytes) /\ reserved' = reserved
         /\ out' \in Seq(Stale .. 255) /\ Len(out') = Len(out)
         /\ \A k \in 1 .. len : out'[k] = out[k]
         /\ \A k \in 1 .. Len(bytes) : out'[len + k] = bytes[k]
<1>1. Len(bytes) \in Nat /\ Len(out) \in Nat
  BY LenProperties
<1>2. len <= Len(out)
  BY <1>1
<1> QED
  BY <1>2, WriteAnywhere

\* The string at its start: old bytes, then zeros
LEMMA ResizedType ==
  ASSUME NEW old \in Nat, NEW n \in Nat
  PROVE  Resized(old, n) \in Seq(Stale .. 255) /\ Len(Resized(old, n)) = n
<1>1. Stale \in Stale .. 255 /\ 0 \in Stale .. 255
  BY DEF Stale
<1>2. Resized(old, n) \in [1 .. n -> Stale .. 255]
  BY <1>1 DEF Resized
<1> QED
  BY <1>2, FunctionIsSeq, ZenonT(60)

\* The string at the end: what is in it, if the loop has filled it
LEMMA ReturnedString ==
  ASSUME NEW o \in Seq(Stale .. 255), NEW r \in Seq(1 .. 255), Len(o) = Len(r),
         \A k \in 1 .. Len(r) : o[k] = r[k]
  PROVE  CutAtNul(SubSeq(o, 1, Len(r))) = r
<1> DEFINE n == Len(r)
           u == SubSeq(o, 1, n)
<1>1. n \in Nat /\ \A k \in 1 .. n : r[k] \in 1 .. 255
  BY SeqIsFunction, ZenonT(60)
<1>2. n \in 0 .. Len(o) /\ \A k \in 1 .. n : o[k] \in 1 .. 255
  BY <1>1, SMTT(60)
<1> HIDE DEF n
<1>3. /\ u \in Seq(1 .. 255) /\ Len(u) = n
      /\ \A k \in 1 .. n : u[k] = o[k]
  BY <1>2, FirstElements
<1> HIDE DEF u
<1>4. Len(u) = Len(r) /\ \A k \in 1 .. Len(u) : u[k] = r[k]
  BY <1>3 DEF n
<1>5. u = r
  BY <1>3, <1>4, SeqEqual
<1> QED
  BY <1>3, <1>5, NothingToCut DEF u, n

-----------------------------------------------------------------------------
(* Base64: every step keeps the invariant *)

\* Base64 of nothing is nothing, and only of nothing.
LEMMA ReferenceEmpty ==
  ASSUME NEW s \in Seq(1 .. 255)
  PROVE  /\ s = <<>> => Reference(s) = <<>>
         /\ Digits(s) = 0 => s = <<>>
<1>1. /\ Len(s) \in Nat /\ Reference(s) \in Seq(43 .. 122)
      /\ Len(Reference(s)) = EncodedLength(Len(s))
  BY ReferenceFacts
<1>2. s = <<>> => Reference(s) = <<>>
  <2>1. EncodedLength(0) = 0
    BY DEF EncodedLength
  <2>2. s = <<>> => Len(s) = 0
    OBVIOUS
  <2>3. s = <<>> => Len(Reference(s)) = 0
    BY <1>1, <2>1, <2>2
  <2> QED
    BY <1>1, <2>3, EmptySeq
<1>3. Digits(s) = 0 => s = <<>>
  <2>1. Digits(s) = 0 => Len(s) = 0
    BY <1>1 DEF Digits
  <2> QED
    BY <2>1, EmptySeq
<1> QED
  BY <1>2, <1>3

\* ToBase64 of any text, with a terminator inside or without
LEMMA ToBase64Step ==
  ASSUME Base64Inv, NEW n \in Nat, NEW t \in [1 .. n -> Byte], ToBase64(t)
  PROVE  Base64Inv'
<1>1. t \in Seq(0 .. 255)
  <2>1. t \in Seq(Byte)
    BY FunctionIsSeq
  <2> DEFINE R == 0 .. 255
  <2>2. \A k \in 1 .. Len(t) : t[k] \in R
    BY <2>1, BytesAreBytes, SeqIsFunction
  <2> HIDE DEF R
  <2>3. t \in Seq(R)
    BY <2>1, <2>2, SeqOfElements
  <2> QED
    BY <2>3 DEF R
<1>2. text' = CutAtNul(t) /\ text' \in Seq(1 .. 255)
  BY <1>1, CutAtNulType DEF ToBase64
<1>3. /\ stage = "idle" /\ retVal' = <<>> /\ kept' = kept /\ retVal' \in Seq(1 .. 255)
      /\ coded' = coded
  BY EmptySeq DEF ToBase64
<1>4. /\ input \in Seq(0 .. 255) /\ out \in Seq(Stale .. 255) /\ len \in Nat /\ reserved \in Nat
      /\ kept \in [encoded : Nat, decoded : Nat] /\ len <= reserved /\ Len(out) = reserved
      /\ coded \in Seq(1 .. 255)
  BY <1>3 DEF Base64Inv, TypeOK, WritesFit, Fits, Decoding
<1>5. CASE t = <<>>
  <2>1. stage' = "encoded" /\ UNCHANGED conversion
    BY <1>5 DEF ToBase64
  <2>2. input' = input /\ out' = out /\ len' = len /\ reserved' = reserved
    BY <2>1 DEF conversion
  <2>3. text' = <<>>
    <3>1. t \in Seq(1 .. 255)
      BY <1>5, EmptySeq
    <3> QED
      BY <1>2, <1>5, <3>1, NothingToCut
  <2>4. retVal' = Reference(text')
    BY <1>2, <1>3, <2>3, ReferenceEmpty
  <2>5. TypeOK' /\ WritesFit'
    BY <1>2, <1>3, <1>4, <2>1, <2>2 DEF TypeOK, WritesFit, Fits
  <2>6. LoopsOK'
    BY <2>1, <2>4 DEF LoopsOK
  <2> QED
    BY <2>5, <2>6 DEF Base64Inv
<1>6. CASE t # <<>>
  <2> DEFINE size == EncodedLength(Len(text'))
  <2>1. stage' = "encoding" /\ Begin(CutAtNul(t), kept.encoded, EncodedLength(Len(CutAtNul(t))))
    BY <1>6 DEF ToBase64
  <2>2. /\ input' = text' /\ a' = <<>> /\ len' = 0 /\ reserved' = size
        /\ out' = Resized(kept.encoded, size)
    BY <1>2, <2>1 DEF Begin
  <2>3. /\ text' \in Seq(0 .. 255) /\ Len(text') \in Nat
        /\ Len(Reference(text')) = size /\ size \in Nat
    <3>1. Reference(text') \in Seq(43 .. 122) /\ Len(Reference(text')) = size
      BY <1>2, ReferenceFacts
    <3>2. Len(Reference(text')) \in Nat
      BY <3>1, SeqIsFunction
    <3> QED
      BY <1>2, <3>1, <3>2, ReferenceFacts
  <2> HIDE DEF size
  <2>4. kept.encoded \in Nat
    BY <1>4
  <2>5. out' \in Seq(Stale .. 255) /\ Len(out') = size
    BY <2>2, <2>3, <2>4, ResizedType
  <2>6. a' \in Seq(1 .. 255) /\ Len(a') = 0
    BY <2>2, EmptySeq
  <2>7. TypeOK' /\ WritesFit'
    BY <1>2, <1>3, <1>4, <2>1, <2>2, <2>3, <2>5, <2>6 DEF TypeOK, WritesFit, Fits
  <2>8. EncodedSoFar(0)'
    BY <2>2, <2>3, <2>6 DEF EncodedSoFar
  <2>9. LoopsOK'
    BY <2>1, <2>8 DEF LoopsOK
  <2> QED
    BY <2>7, <2>9 DEF Base64Inv
<1> QED
  BY <1>5, <1>6

\* Four characters of Base64 are what the loop makes of three bytes.
LEMMA GroupEncoded ==
  ASSUME NEW s \in Seq(1 .. 255), NEW g \in Nat, NEW a3,
         \A k \in 1 .. 3 : a3[k] = ByteOrZero(s, 3 * g + k),
         NEW k \in 1 .. 4, 4 * g + k <= Digits(s)
  PROVE  kBase64Alphabet(a3_to_a4(a3)[k]) = Reference(s)[4 * g + k]
<1> DEFINE x == ByteOrZero(s, 3 * g + 1)
           y == ByteOrZero(s, 3 * g + 2)
           z == ByteOrZero(s, 3 * g + 3)
<1>1. s \in Seq(0 .. 255) /\ Digits(s) \in Nat
  BY ReferenceFacts
<1>2. a3[1] = x /\ a3[2] = y /\ a3[3] = z
  OBVIOUS
<1>3. /\ Digit(s, 4 * g) = x \div 4
      /\ Digit(s, 4 * g + 1) = (x % 4) * 16 + y \div 16
      /\ Digit(s, 4 * g + 2) = (y % 16) * 4 + z \div 64
      /\ Digit(s, 4 * g + 3) = z % 64
  BY <1>1, DigitsOfGroup
<1> HIDE DEF x, y, z
<1>4. /\ a3_to_a4(a3)[1] = x \div 4
      /\ a3_to_a4(a3)[2] = (x % 4) * 16 + y \div 16
      /\ a3_to_a4(a3)[3] = (y % 16) * 4 + z \div 64
      /\ a3_to_a4(a3)[4] = z % 64
  BY <1>2 DEF a3_to_a4
<1>5. a3_to_a4(a3)[k] = Digit(s, (4 * g + k) - 1)
  <2>1. CASE k = 1
    <3>1. (4 * g + k) - 1 = 4 * g
      BY <2>1
    <3> QED
      BY <1>3, <1>4, <2>1, <3>1
  <2>2. CASE k = 2
    <3>1. (4 * g + k) - 1 = 4 * g + 1
      BY <2>2
    <3> QED
      BY <1>3, <1>4, <2>2, <3>1
  <2>3. CASE k = 3
    <3>1. (4 * g + k) - 1 = 4 * g + 2
      BY <2>3
    <3> QED
      BY <1>3, <1>4, <2>3, <3>1
  <2>4. CASE k = 4
    <3>1. (4 * g + k) - 1 = 4 * g + 3
      BY <2>4
    <3> QED
      BY <1>3, <1>4, <2>4, <3>1
  <2> QED
    BY <2>1, <2>2, <2>3, <2>4
<1>6. 4 * g + k \in 1 .. Digits(s)
  BY <1>1
<1>7. Reference(s)[4 * g + k] = kBase64Alphabet(Digit(s, (4 * g + k) - 1))
  BY <1>6, ReferenceFacts
<1> QED
  BY <1>5, <1>7

\* What the invariant gives in every round of Encode
LEMMA EncodingFacts ==
  ASSUME Base64Inv, stage = "encoding"
  PROVE  \E g \in Nat :
           /\ EncodedSoFar(g)
           /\ a \in Seq(1 .. 255) /\ Len(a) \in 0 .. 2
           /\ input \in Seq(1 .. 255) /\ Len(input) \in Nat
           /\ text \in Seq(1 .. 255) /\ Len(text) \in Nat
           /\ Digits(text) \in Nat /\ Digits(text) <= reserved
           /\ out \in Seq(Stale .. 255) /\ Len(out) = reserved /\ reserved \in Nat
           /\ \A k \in 1 .. Len(text) : text[k] \in 1 .. 255
           /\ Reference(text) \in Seq(43 .. 122)
<1>1. PICK g \in Nat : EncodedSoFar(g)
  BY DEF Base64Inv, LoopsOK
<1>2. /\ a \in Seq(1 .. 255) /\ Len(a) < 3 /\ input \in Seq(0 .. 255) /\ text \in Seq(1 .. 255)
      /\ out \in Seq(Stale .. 255) /\ reserved \in Nat /\ Len(out) = reserved
  BY DEF Base64Inv, TypeOK, WritesFit, Fits, Decoding
<1>3. Len(a) \in 0 .. 2 /\ Len(input) \in Nat /\ Len(text) \in Nat
  <2>1. Len(a) \in Nat /\ Len(input) \in Nat /\ Len(text) \in Nat
    BY <1>2, SeqIsFunction, SMTT(60)
  <2>2. Len(a) < 3
    BY <1>2
  <2>3. \A k \in Nat : k < 3 => k \in 0 .. 2
    OBVIOUS
  <2> QED
    BY <2>1, <2>2, <2>3, Zenon
<1>4. \A k \in 1 .. Len(text) : text[k] \in 1 .. 255
  BY <1>2, SeqIsFunction
<1>5. \A k \in 1 .. Len(input) : input[k] \in 1 .. 255
  <2>1. /\ 3 * g + Len(a) + Len(input) = Len(text)
        /\ \A k \in 1 .. Len(input) : input[k] = text[3 * g + Len(a) + k]
    BY <1>1 DEF EncodedSoFar
  <2>2. \A k \in 1 .. Len(input) : 3 * g + Len(a) + k \in 1 .. Len(text)
    BY <1>3, <2>1
  <2> QED
    BY <1>4, <2>1, <2>2
<1>6. input \in Seq(1 .. 255)
  <2> DEFINE S == 0 .. 255
             R == 1 .. 255
  <2>1. input \in Seq(S) /\ \A k \in 1 .. Len(input) : input[k] \in R
    BY <1>2, <1>5
  <2> HIDE DEF S, R
  <2>2. input \in Seq(R)
    BY <2>1, SeqOfElements
  <2> QED
    BY <2>2 DEF R
<1>7. Digits(text) \in Nat /\ Digits(text) <= reserved /\ Reference(text) \in Seq(43 .. 122)
  BY <1>1, <1>2, ReferenceFacts DEF EncodedSoFar
<1> QED
  BY <1>1, <1>2, <1>3, <1>4, <1>6, <1>7

\* A round of Encode: the byte that is read belongs to the group in a, and a
\* full group is written as Base64.
LEMMA EncodeByteStep ==
  ASSUME Base64Inv, EncodeByte
  PROVE  Base64Inv'
<1> DEFINE a3 == Append(a, Head(input))
           n == Len(text)
           m == Len(a)
<1>1. /\ stage = "encoding" /\ input # <<>> /\ input' = Tail(input)
      /\ stage' = stage /\ text' = text /\ kept' = kept /\ retVal' = retVal
      /\ coded' = coded
  BY DEF EncodeByte
<1>2. PICK g \in Nat :
        /\ EncodedSoFar(g)
        /\ a \in Seq(1 .. 255) /\ m \in 0 .. 2
        /\ input \in Seq(1 .. 255) /\ Len(input) \in Nat
        /\ text \in Seq(1 .. 255) /\ n \in Nat
        /\ Digits(text) \in Nat /\ Digits(text) <= reserved
        /\ out \in Seq(Stale .. 255) /\ Len(out) = reserved /\ reserved \in Nat
        /\ \A k \in 1 .. n : text[k] \in 1 .. 255
        /\ Reference(text) \in Seq(43 .. 122)
  BY <1>1, EncodingFacts
<1>3. /\ len = 4 * g /\ reserved = Len(Reference(text))
      /\ 3 * g + m + Len(input) = n
      /\ \A k \in 1 .. m : a[k] = text[3 * g + k]
      /\ \A k \in 1 .. Len(input) : input[k] = text[3 * g + m + k]
      /\ \A k \in 1 .. 4 * g : out[k] = Reference(text)[k]
  BY <1>2 DEF EncodedSoFar
<1>4. /\ Len(input) \in Nat \ {0} /\ Head(input) = input[1] /\ Head(input) \in 1 .. 255
      /\ input' \in Seq(1 .. 255) /\ Len(input') = Len(input) - 1
      /\ \A k \in 1 .. Len(input) - 1 : input'[k] = input[k + 1]
  <2>1. input \in Seq(1 .. 255) /\ input # <<>>
    BY <1>1, <1>2
  <2> QED
    BY <1>1, <2>1, RestOfSeq, SMTT(60)
<1>5. /\ a3 \in Seq(1 .. 255) /\ Len(a3) = m + 1
      /\ \A k \in 1 .. m : a3[k] = a[k]
      /\ a3[m + 1] = Head(input)
  <2>1. a \in Seq(1 .. 255) /\ Head(input) \in 1 .. 255
    BY <1>2, <1>4
  <2> QED
    BY <2>1, LongerSeq, SMTT(60)
<1>6. IF Len(a3) = 3
      THEN Write([k \in 1 .. 4 |-> kBase64Alphabet(a3_to_a4(a3)[k])]) /\ a' = <<>>
      ELSE a' = a3 /\ UNCHANGED <<out, len, reserved>>
  BY DEF EncodeByte
<1> HIDE DEF a3, n, m
<1>7. \A k \in 1 .. m + 1 : a3[k] = text[3 * g + k]
  <2>1. a3[m + 1] = text[3 * g + (m + 1)]
    <3>1. 1 \in 1 .. Len(input) /\ 3 * g + m + 1 = 3 * g + (m + 1)
      BY <1>2, <1>4
    <3> QED
      BY <1>3, <1>4, <1>5, <3>1, Zenon
  <2>2. \A k \in 1 .. m : a3[k] = text[3 * g + k]
    BY <1>3, <1>5, Zenon
  <2>3. \A k \in 1 .. m + 1 : k \in 1 .. m \/ k = m + 1
    BY <1>2
  <2> QED
    BY <2>1, <2>2, <2>3, Zenon
<1>8. \A k \in 1 .. Len(input') : input'[k] = text[3 * g + (m + 1) + k]
  <2>1. ASSUME NEW k \in 1 .. Len(input') PROVE input'[k] = text[3 * g + (m + 1) + k]
    <3>1. k \in 1 .. Len(input) - 1 /\ k + 1 \in 1 .. Len(input)
      BY <1>2, <1>4
    <3>2. 3 * g + m + (k + 1) = 3 * g + (m + 1) + k
      BY <1>2
    <3> QED
      BY <1>3, <1>4, <3>1, <3>2, Zenon
  <2> QED
    BY <2>1
<1>9. input' \in Seq(0 .. 255)
  <2>1. 1 .. 255 \subseteq 0 .. 255
    OBVIOUS
  <2> QED
    BY <1>4, <2>1, SeqMonotonic
<1>10. /\ kept \in [encoded : Nat, decoded : Nat] /\ coded \in Seq(1 .. 255)
       /\ retVal = Failed \/ retVal \in Seq(1 .. 255)
  BY DEF Base64Inv, TypeOK
<1>11. CASE m + 1 = 3
  <2> DEFINE w == [k \in 1 .. 4 |-> kBase64Alphabet(a3_to_a4(a3)[k])]
  <2>1. Write(w) /\ a' = <<>>
    BY <1>5, <1>6, <1>11
  <2>2. 3 * (g + 1) + Len(input') = n
    <3> DEFINE p == Len(input)
               p1 == Len(input')
    <3>1. p \in Nat \ {0} /\ p1 = p - 1 /\ 3 * g + m + p = n /\ m \in 0 .. 2
      BY <1>2, <1>3, <1>4
    <3> HIDE DEF p, p1
    <3>2. 3 * (g + 1) + p1 = n
      BY <1>11, <3>1
    <3> QED
      BY <3>2 DEF p1
  <2>3. 4 * g + 4 <= Digits(text)
    <3>1. n \in Nat /\ 3 * (g + 1) <= n
      BY <1>2, <1>4, <2>2
    <3>2. 4 * g + 4 <= (8 * n + 5) \div 6
      BY <3>1
    <3> QED
      BY <3>2 DEF Digits, n
  <2>4. \A k \in 1 .. 3 : a3[k] = ByteOrZero(text, 3 * g + k)
    <3>1. \A k \in 1 .. 3 : 3 * g + k <= n
      BY <1>2, <1>3, <1>4, <1>11
    <3>2. \A k \in 1 .. 3 : k \in 1 .. m + 1
      BY <1>11
    <3> QED
      BY <1>7, <3>1, <3>2, Zenon DEF ByteOrZero, n
  <2>5. \A k \in 1 .. 4 : w[k] = Reference(text)[4 * g + k]
    <3>1. ASSUME NEW k \in 1 .. 4 PROVE w[k] = Reference(text)[4 * g + k]
      <4>1. 4 * g + k <= Digits(text)
        BY <1>2, <2>3
      <4>2. kBase64Alphabet(a3_to_a4(a3)[k]) = Reference(text)[4 * g + k]
        <5>1. text \in Seq(1 .. 255)
          BY <1>2
        <5> QED
          BY <2>4, <4>1, <5>1, GroupEncoded
      <4> QED
        BY <4>2
    <3> QED
      BY <3>1
  <2>6. w \in Seq(0 .. 255) /\ Len(w) = 4
    <3>1. \A k \in 1 .. 4 : 4 * g + k \in 1 .. Len(Reference(text))
      BY <1>2, <1>3, <2>3
    <3>2. \A k \in 1 .. 4 : w[k] \in 43 .. 122
      <4>1. Reference(text) \in Seq(43 .. 122)
        BY <1>2
      <4>2. \A k \in 1 .. Len(Reference(text)) : Reference(text)[k] \in 43 .. 122
        BY <4>1, SeqIsFunction
      <4> QED
        BY <2>5, <3>1, <4>2, Zenon
    <3> DEFINE S == 0 .. 255
               l == 4
    <3>3. 43 .. 122 \subseteq S
      OBVIOUS
    <3>4. w = [k \in 1 .. 4 |-> w[k]]
      OBVIOUS
    <3> HIDE DEF w
    <3>5. w \in [1 .. l -> S] /\ l \in Nat
      BY <3>2, <3>3, <3>4
    <3> HIDE DEF S, l
    <3>6. w \in Seq(S) /\ Len(w) = l
      BY <3>5, FunctionIsSeq
    <3> QED
      BY <3>6 DEF S, l
  <2> HIDE DEF w
  <2>7. len + Len(w) <= Len(out) /\ len \in Nat
    BY <1>2, <1>3, <2>3, <2>6
  <2>8. /\ len' = len + 4 /\ reserved' = reserved
        /\ out' \in Seq(Stale .. 255) /\ Len(out') = Len(out)
        /\ \A k \in 1 .. len : out'[k] = out[k]
        /\ \A k \in 1 .. 4 : out'[len + k] = w[k]
    BY <1>2, <2>1, <2>6, <2>7, WriteInside, ZenonT(60)
  <2>9. \A k \in 1 .. 4 * (g + 1) : out'[k] = Reference(text)[k]
    <3>1. ASSUME NEW k \in 1 .. 4 * (g + 1) PROVE out'[k] = Reference(text)[k]
      <4>1. CASE k <= 4 * g
        <5>1. k \in 1 .. 4 * g /\ k \in 1 .. len
          BY <1>3, <4>1
        <5> QED
          BY <1>3, <2>8, <5>1, Zenon
      <4>2. CASE ~(k <= 4 * g)
        <5> DEFINE j == k - 4 * g
        <5>1. j \in 1 .. 4 /\ k = 4 * g + j /\ k = len + j
          BY <1>3, <4>2
        <5> HIDE DEF j
        <5> QED
          BY <2>5, <2>8, <5>1, Zenon
      <4> QED
        BY <4>1, <4>2
    <3> QED
      BY <3>1
  <2>10. a' \in Seq(1 .. 255) /\ Len(a') = 0
    BY <2>1, EmptySeq
  <2>11. len' \in Nat /\ len' = 4 * (g + 1) /\ len' <= reserved'
    BY <1>2, <1>3, <2>3, <2>8, SMTT(60)
  <2>12. EncodedSoFar(g + 1)'
    <3>1. 3 * (g + 1) + Len(a') + Len(input') = Len(text')
      BY <1>1, <1>2, <1>4, <2>2, <2>10 DEF n
    <3>2. \A k \in 1 .. Len(a') : a'[k] = text'[3 * (g + 1) + k]
      BY <2>10
    <3>3. \A k \in 1 .. Len(input') : input'[k] = text'[3 * (g + 1) + Len(a') + k]
      <4>1. \A k \in 1 .. Len(input') : 3 * (g + 1) + Len(a') + k = 3 * g + (m + 1) + k
        BY <1>2, <1>11, <2>10
      <4> QED
        BY <1>1, <1>8, <4>1, Zenon
    <3> QED
      BY <1>1, <1>3, <2>8, <2>9, <2>11, <3>1, <3>2, <3>3, Zenon DEF EncodedSoFar
  <2>13. g + 1 \in Nat
    OBVIOUS
  <2>14. LoopsOK'
    BY <1>1, <2>12, <2>13 DEF LoopsOK
  <2>15. TypeOK' /\ WritesFit'
    <3>1. stage' = "encoding" /\ Len(a') < 3 /\ Len(out') = reserved' /\ reserved' \in Nat
      BY <1>1, <1>2, <2>8, <2>10
    <3> QED
      BY <1>1, <1>2, <1>9, <1>10, <2>8, <2>10, <2>11, <3>1 DEF TypeOK, WritesFit, Fits
  <2> QED
    BY <2>14, <2>15 DEF Base64Inv
<1>12. CASE m + 1 # 3
  <2>1. a' = a3 /\ out' = out /\ len' = len /\ reserved' = reserved
    BY <1>5, <1>6, <1>12
  <2>2. Len(a') = m + 1 /\ Len(a') \in 0 .. 2
    BY <1>2, <1>5, <1>12, <2>1, SMTT(60)
  <2>3. EncodedSoFar(g)'
    <3>1. 3 * g + Len(a') + Len(input') = Len(text')
      <4> DEFINE p == Len(input)
      <4>1. p \in Nat \ {0} /\ m \in 0 .. 2 /\ 3 * g + m + p = n
        BY <1>2, <1>3, <1>4
      <4> HIDE DEF p
      <4>2. 3 * g + (m + 1) + (p - 1) = n
        BY <4>1
      <4> QED
        BY <1>1, <1>4, <2>2, <4>2, Zenon DEF n, p
    <3>2. \A k \in 1 .. Len(a') : a'[k] = text'[3 * g + k]
      BY <1>1, <1>7, <2>1, <2>2, Zenon
    <3>3. \A k \in 1 .. Len(input') : input'[k] = text'[3 * g + Len(a') + k]
      BY <1>1, <1>8, <2>2, Zenon
    <3> QED
      BY <1>1, <1>3, <2>1, <3>1, <3>2, <3>3, Zenon DEF EncodedSoFar
  <2>4. LoopsOK'
    BY <1>1, <2>3 DEF LoopsOK
  <2>5. TypeOK' /\ WritesFit'
    <3>0. len \in Nat /\ (~Decoding => len <= reserved)
      BY DEF Base64Inv, TypeOK, WritesFit, Fits
    <3>1. /\ stage' = "encoding" /\ Len(a') < 3 /\ a' \in Seq(1 .. 255)
          /\ len \in Nat /\ len <= reserved
      <4>1. a' \in Seq(1 .. 255)
        BY <1>5, <2>1
      <4>2. ~Decoding
        BY <1>1 DEF Decoding
      <4> QED
        BY <1>1, <2>2, <3>0, <4>1, <4>2
    <3> QED
      BY <1>1, <1>2, <1>9, <1>10, <2>1, <3>1 DEF TypeOK, WritesFit, Fits
  <2> QED
    BY <2>4, <2>5 DEF Base64Inv
<1> QED
  BY <1>11, <1>12

\* The function returns what the loop has filled in.
LEMMA ReturnStep ==
  ASSUME Base64Inv, NEW which \in {"encoded", "decoded"}, NEW next, Return(which, next),
         NEW r \in Seq(1 .. 255), reserved = Len(r), len' = reserved,
         out' \in Seq(Stale .. 255), Len(out') = reserved,
         \A k \in 1 .. Len(r) : out'[k] = r[k]
  PROVE  /\ stage' = next /\ text' = text /\ coded' = coded /\ retVal' = r
         /\ kept' \in [encoded : Nat, decoded : Nat]
<1>1. /\ stage' = next /\ text' = text /\ coded' = coded
      /\ kept' = [kept EXCEPT ![which] = reserved]
      /\ retVal' = CutAtNul(SubSeq(out', 1, reserved))
  BY DEF Return
<1>2. kept \in [encoded : Nat, decoded : Nat] /\ reserved \in Nat
  BY DEF Base64Inv, TypeOK
<1>3. kept' \in [encoded : Nat, decoded : Nat]
  BY <1>1, <1>2
<1>4. retVal' = r
  BY <1>1, ReturnedString
<1> QED
  BY <1>1, <1>3, <1>4

\* The last m bytes with zeros behind them, and what the loop makes of them
TailGroup(u, m) == [k \in 1 .. 3 |-> IF k <= m THEN u[k] ELSE 0]
TailChars(u, m) ==
  [k \in 1 .. m + 1 |-> kBase64Alphabet(a3_to_a4(TailGroup(u, m))[k])]
    \o [k \in 1 .. 3 - m |-> Pad]

\* The last group of a text is written as Base64, with its padding.
LEMMA TailWritten ==
  ASSUME NEW s \in Seq(1 .. 255), NEW g \in Nat, NEW m \in 1 .. 2, NEW u,
         Len(s) = 3 * g + m, \A k \in 1 .. m : u[k] = s[3 * g + k]
  PROVE  /\ TailChars(u, m) \in Seq(0 .. 255) /\ Len(TailChars(u, m)) = 4
         /\ Len(Reference(s)) = 4 * g + 4
         /\ \A k \in 1 .. 4 : TailChars(u, m)[k] = Reference(s)[4 * g + k]
<1> DEFINE R == Reference(s)
           a3 == TailGroup(u, m)
           d == [k \in 1 .. m + 1 |-> kBase64Alphabet(a3_to_a4(a3)[k])]
           p == [k \in 1 .. 3 - m |-> Pad]
           w == d \o p
           B == 0 .. 255
<1>1. Digits(s) = 4 * g + m + 1 /\ Len(R) = 4 * g + 4
  <2> DEFINE n == Len(s)
  <2>1. n \in Nat /\ n = 3 * g + m /\ Len(R) = EncodedLength(n)
    BY ReferenceFacts
  <2>2. Digits(s) = (8 * n + 5) \div 6
    BY DEF Digits
  <2> HIDE DEF n, R
  <2>3. m \in 0 .. 2 /\ m # 0
    OBVIOUS
  <2>4. (8 * n + 5) \div 6 = 4 * g + m + 1 /\ EncodedLength(n) = 4 * g + 4
    BY <2>1, <2>3, DigitCount
  <2> QED
    BY <2>1, <2>2, <2>4
<1>2. \A k \in 1 .. 3 : a3[k] = ByteOrZero(s, 3 * g + k)
  <2>1. ASSUME NEW k \in 1 .. 3 PROVE a3[k] = ByteOrZero(s, 3 * g + k)
    <3>1. CASE k <= m
      <4>1. k \in 1 .. m /\ 3 * g + k <= Len(s)
        BY <3>1
      <4>2. a3[k] = u[k]
        BY <3>1 DEF TailGroup
      <4> QED
        BY <4>1, <4>2, Zenon DEF ByteOrZero
    <3>2. CASE ~(k <= m)
      <4>1. ~(3 * g + k <= Len(s))
        BY <3>2
      <4>2. a3[k] = 0
        BY <3>2 DEF TailGroup
      <4> QED
        BY <4>1, <4>2, Zenon DEF ByteOrZero
    <3> QED
      BY <3>1, <3>2
  <2> QED
    BY <2>1
<1>3. \A k \in 1 .. m + 1 : d[k] = R[4 * g + k]
  <2>1. ASSUME NEW k \in 1 .. m + 1 PROVE d[k] = R[4 * g + k]
    <3>1. k \in 1 .. 4 /\ 4 * g + k <= Digits(s)
      BY <1>1
    <3>2. kBase64Alphabet(a3_to_a4(a3)[k]) = R[4 * g + k]
      BY <1>2, <3>1, GroupEncoded
    <3>3. d[k] = kBase64Alphabet(a3_to_a4(a3)[k])
      OBVIOUS
    <3> QED
      BY <3>2, <3>3
  <2> QED
    BY <2>1
<1>4. /\ \A k \in 1 .. Len(R) : R[k] \in B
      /\ \A k \in Digits(s) + 1 .. Len(R) : R[k] = Pad
  <2>1. R \in Seq(43 .. 122) /\ \A k \in Digits(s) + 1 .. Len(R) : R[k] = Pad
    BY ReferenceFacts
  <2>2. \A k \in 1 .. Len(R) : R[k] \in 43 .. 122
    <3>1. R \in Seq(43 .. 122)
      BY <2>1
    <3> HIDE DEF R
    <3> QED
      BY <3>1, SeqIsFunction
  <2>3. \A b \in 43 .. 122 : b \in B
    OBVIOUS
  <2>4. \A k \in 1 .. Len(R) : R[k] \in B
    <3> HIDE DEF R, B
    <3> QED
      BY <2>2, <2>3, Zenon
  <2> QED
    BY <2>1, <2>4
<1>5. d = [k \in 1 .. m + 1 |-> d[k]] /\ \A k \in 1 .. 3 - m : p[k] = Pad
  OBVIOUS
<1>6. p \in [1 .. 3 - m -> B] /\ 3 - m \in Nat /\ m + 1 \in Nat
  BY DEF Pad
<1> HIDE DEF d, p, R, B
<1>7. \A k \in 1 .. m + 1 : 4 * g + k \in 1 .. Len(R)
  BY <1>1
<1>8. \A k \in 1 .. m + 1 : d[k] \in B
  BY <1>3, <1>4, <1>7, Zenon
<1>9. d \in [1 .. m + 1 -> B]
  BY <1>5, <1>8
<1>10. d \in Seq(B) /\ Len(d) = m + 1
  BY <1>6, <1>9, FunctionIsSeq
<1>11. p \in Seq(B) /\ Len(p) = 3 - m
  BY <1>6, FunctionIsSeq
<1>12. /\ w \in Seq(B) /\ Len(w) = Len(d) + Len(p)
       /\ \A k \in 1 .. Len(d) + Len(p) :
            w[k] = IF k <= Len(d) THEN d[k] ELSE p[k - Len(d)]
  BY <1>10, <1>11, ConcatProperties
<1>13. Len(w) = 4
  <2>1. (m + 1) + (3 - m) = 4
    OBVIOUS
  <2> QED
    BY <1>10, <1>11, <1>12, <2>1, Zenon
<1> HIDE DEF w
<1>14. ASSUME NEW k \in 1 .. 4 PROVE w[k] = R[4 * g + k]
  <2>1. w[k] = IF k <= m + 1 THEN d[k] ELSE p[k - (m + 1)]
    <3>1. (m + 1) + (3 - m) = 4
      OBVIOUS
    <3> QED
      BY <1>10, <1>11, <1>12, <3>1, Zenon
  <2>2. CASE k <= m + 1
    <3>1. k \in 1 .. m + 1
      BY <2>2
    <3> QED
      BY <1>3, <2>1, <2>2, <3>1, Zenon
  <2>3. CASE ~(k <= m + 1)
    <3>1. k - (m + 1) \in 1 .. 3 - m /\ 4 * g + k \in Digits(s) + 1 .. Len(R)
      BY <1>1, <2>3
    <3> QED
      BY <1>4, <1>5, <2>1, <2>3, <3>1, Zenon
  <2> QED
    BY <2>2, <2>3
<1> QED
  BY <1>1, <1>12, <1>13, <1>14, Zenon DEF w, d, p, R, B, TailChars

\* The end of Encode: the rest of the text, the padding and the return
LEMMA EncodeTailStep ==
  ASSUME Base64Inv, EncodeTail
  PROVE  Base64Inv'
<1> DEFINE n == Len(text)
           m == Len(a)
           a3 == [k \in 1 .. 3 |-> IF k <= Len(a) THEN a[k] ELSE 0]
           w == [k \in 1 .. Len(a) + 1 |-> kBase64Alphabet(a3_to_a4(a3)[k])]
                  \o [k \in 1 .. 3 - Len(a) |-> Pad]
<1>1. /\ stage = "encoding" /\ input = <<>> /\ a' = <<>> /\ input' = input
      /\ Return("encoded", "encoded")
      /\ IF a # <<>> THEN Write(w) ELSE Write(<<>>)
  BY DEF EncodeTail
<1>2. PICK g \in Nat :
        /\ EncodedSoFar(g)
        /\ a \in Seq(1 .. 255) /\ m \in 0 .. 2
        /\ input \in Seq(1 .. 255) /\ Len(input) \in Nat
        /\ text \in Seq(1 .. 255) /\ n \in Nat
        /\ Digits(text) \in Nat /\ Digits(text) <= reserved
        /\ out \in Seq(Stale .. 255) /\ Len(out) = reserved /\ reserved \in Nat
        /\ \A k \in 1 .. n : text[k] \in 1 .. 255
        /\ Reference(text) \in Seq(43 .. 122)
  BY <1>1, EncodingFacts
<1>3. /\ len = 4 * g /\ reserved = Len(Reference(text))
      /\ \A k \in 1 .. m : a[k] = text[3 * g + k]
      /\ \A k \in 1 .. 4 * g : out[k] = Reference(text)[k]
  BY <1>2 DEF EncodedSoFar
<1>4. n = 3 * g + m /\ m \in 0 .. 2
  <2>1. 3 * g + m + Len(input) = n /\ m \in 0 .. 2
    BY <1>2 DEF EncodedSoFar
  <2>2. Len(input) = 0
    BY <1>1
  <2> HIDE DEF m, n
  <2> QED
    BY <2>1, <2>2
<1>5. text \in Seq(1 .. 255) /\ out \in Seq(Stale .. 255) /\ Len(out) = reserved /\ len \in Nat
  BY <1>2, <1>3
<1>6. Reference(text) \in Seq(1 .. 255)
  <2>1. Reference(text) \in Seq(43 .. 122)
    BY <1>2
  <2>2. 43 .. 122 \subseteq 1 .. 255
    OBVIOUS
  <2> QED
    BY <2>1, <2>2, SeqMonotonic
<1>7. /\ len' = reserved /\ reserved' = reserved
      /\ out' \in Seq(Stale .. 255) /\ Len(out') = reserved
      /\ \A k \in 1 .. Len(Reference(text)) : out'[k] = Reference(text)[k]
  <2>1. CASE m = 0
    <3>1. Write(<<>>)
      <4>1. a = <<>>
        BY <1>2, <2>1, EmptySeq
      <4> QED
        BY <1>1, <4>1
    <3>2. <<>> \in Seq(0 .. 255) /\ Len(<<>>) = 0
      BY EmptySeq
    <3>3. EncodedLength(n) = 4 * g
      BY <1>4, <2>1, DigitCount
    <3>4. reserved = 4 * g
      BY <1>2, <1>3, <3>3, ReferenceFacts
    <3>5. len + Len(<<>>) <= Len(out)
      BY <1>3, <1>5, <3>2, <3>4
    <3>6. /\ len' = len + Len(<<>>) /\ reserved' = reserved
          /\ out' \in Seq(Stale .. 255) /\ Len(out') = Len(out)
          /\ \A k \in 1 .. len : out'[k] = out[k]
      BY <1>5, <3>1, <3>2, <3>5, WriteInside
    <3>7. len' = reserved
      BY <1>3, <3>2, <3>4, <3>6
    <3> QED
      BY <1>3, <1>5, <3>4, <3>6, <3>7, Zenon
  <2>2. CASE m # 0
    <3>1. m \in 1 .. 2
      BY <1>4, <2>2
    <3>2. Write(w)
      <4>1. a # <<>>
        BY <2>2, EmptySeq
      <4> QED
        BY <1>1, <4>1
    <3>3. /\ w \in Seq(0 .. 255) /\ Len(w) = 4
          /\ Len(Reference(text)) = 4 * g + 4
          /\ \A k \in 1 .. 4 : w[k] = Reference(text)[4 * g + k]
      <4>1. w = TailChars(a, m)
        BY Zenon DEF TailChars, TailGroup
      <4> HIDE DEF a3, w, m, n
      <4>2. Len(text) = 3 * g + m
        BY <1>4 DEF n
      <4>3. text \in Seq(1 .. 255) /\ \A k \in 1 .. m : a[k] = text[3 * g + k]
        BY <1>3, <1>5
      <4> QED
        BY <3>1, <4>1, <4>2, <4>3, TailWritten
    <3> HIDE DEF w, m, n, a3
    <3>4. len + Len(w) <= Len(out)
      <4>1. 4 * g + 4 <= reserved /\ len = 4 * g /\ Len(w) = 4 /\ Len(out) = reserved
        BY <1>3, <1>5, <3>3
      <4> QED
        BY <4>1
    <3>5. /\ len' = len + Len(w) /\ reserved' = reserved
          /\ out' \in Seq(Stale .. 255) /\ Len(out') = Len(out)
          /\ \A k \in 1 .. len : out'[k] = out[k]
          /\ \A k \in 1 .. Len(w) : out'[len + k] = w[k]
      BY <1>5, <3>2, <3>3, <3>4, WriteInside
    <3>6. len' = reserved
      <4>1. reserved = 4 * g + 4 /\ len = 4 * g /\ Len(w) = 4 /\ len' = len + Len(w)
        BY <1>3, <3>3, <3>5
      <4> QED
        BY <4>1
    <3>7. ASSUME NEW k \in 1 .. Len(Reference(text)) PROVE out'[k] = Reference(text)[k]
      <4>1. k \in 1 .. 4 * g + 4 /\ len = 4 * g /\ Len(w) = 4
        BY <1>3, <3>3
      <4>2. CASE k <= 4 * g
        <5>1. k \in 1 .. 4 * g /\ k \in 1 .. len
          BY <4>1, <4>2
        <5> QED
          BY <1>3, <3>5, <5>1, Zenon
      <4>3. CASE ~(k <= 4 * g)
        <5> DEFINE j == k - 4 * g
        <5>1. j \in 1 .. 4 /\ k = 4 * g + j /\ k = len + j
          BY <4>1, <4>3
        <5> HIDE DEF j
        <5> QED
          <6>1. out'[len + j] = w[j] /\ w[j] = Reference(text)[4 * g + j]
            BY <3>3, <3>5, <4>1, <5>1, Zenon
          <6> QED
            BY <5>1, <6>1
      <4> QED
        BY <4>2, <4>3
    <3> QED
      BY <1>5, <3>5, <3>6, <3>7
  <2> QED
    BY <2>1, <2>2
<1>8. /\ stage' = "encoded" /\ text' = text /\ coded' = coded /\ retVal' = Reference(text)
      /\ kept' \in [encoded : Nat, decoded : Nat]
  <2> DEFINE r == Reference(text)
             which == "encoded"
             next == "encoded"
  <2>1. Return(which, next) /\ which \in {"encoded", "decoded"} /\ reserved = Len(r)
    BY <1>1, <1>3
  <2>2. r \in Seq(1 .. 255) /\ \A k \in 1 .. Len(r) : out'[k] = r[k]
    BY <1>6, <1>7
  <2> HIDE DEF r, which, next
  <2>3. /\ stage' = next /\ text' = text /\ coded' = coded /\ retVal' = r
        /\ kept' \in [encoded : Nat, decoded : Nat]
    BY <1>7, <2>1, <2>2, ReturnStep
  <2> QED
    BY <2>3 DEF r, next
<1>9. TypeOK' /\ WritesFit'
  <2>1. /\ input' \in Seq(0 .. 255) /\ reserved \in Nat /\ reserved <= reserved
        /\ coded \in Seq(1 .. 255)
    BY <1>1, EmptySeq DEF Base64Inv, TypeOK
  <2> QED
    BY <1>5, <1>6, <1>7, <1>8, <2>1 DEF TypeOK, WritesFit, Fits
<1>10. LoopsOK'
  BY <1>8 DEF LoopsOK
<1> QED
  BY <1>9, <1>10 DEF Base64Inv

\* A character of the text, before the padding, is looked up as its digit.
LEMMA DigitLookedUp ==
  ASSUME NEW s \in Seq(1 .. 255), NEW k \in 1 .. Digits(s)
  PROVE  /\ b64_lookup(Reference(s)[k]) = Digit(s, k - 1)
         /\ b64_lookup(Reference(s)[k]) \in 0 .. 63
<1>1. Digit(s, k - 1) \in 0 .. 63 /\ Reference(s)[k] = kBase64Alphabet(Digit(s, k - 1))
  BY ReferenceFacts
<1> DEFINE v == Digit(s, k - 1)
<1> HIDE DEF v
<1>2. v \in 0 .. 63 /\ Reference(s)[k] = kBase64Alphabet(v)
  BY <1>1 DEF v
<1>3. b64_lookup(kBase64Alphabet(v)) = v
  BY <1>2, LookupOfAlphabet
<1> QED
  BY <1>2, <1>3 DEF v

\* The terminator is no character of the alphabet.
LEMMA LookupOfNul == b64_lookup(0) = 255
<1>1. 0 \notin 65 .. 90 /\ 0 \notin 97 .. 122 /\ 0 \notin 48 .. 57 /\ 0 # 43 /\ 0 # 47
  OBVIOUS
<1> QED
  BY <1>1, Zenon DEF b64_lookup

\* What a4_to_a3 makes of four bytes are bytes.
LEMMA BytesMade ==
  ASSUME NEW v, v[1] \in 0 .. 255, v[2] \in 0 .. 255, v[3] \in 0 .. 255, v[4] \in 0 .. 255
  PROVE  a4_to_a3(v) \in Seq(0 .. 255) /\ Len(a4_to_a3(v)) = 3
<1> DEFINE b1 == (v[1] * 4 + (v[2] % 64) \div 16) % 256
           b2 == ((v[2] % 16) * 16 + (v[3] % 64) \div 4) % 256
           b3 == ((v[3] % 4) * 64 + v[4]) % 256
           B == 0 .. 255
<1>1. \A e \in Int : e % 256 \in B
  OBVIOUS
<1>2. /\ v[1] * 4 + (v[2] % 64) \div 16 \in Int
      /\ (v[2] % 16) * 16 + (v[3] % 64) \div 4 \in Int
      /\ (v[3] % 4) * 64 + v[4] \in Int
  <2>1. \A d, e \in 0 .. 255 : d * 4 + (e % 64) \div 16 \in Int
    OBVIOUS
  <2>2. \A d, e \in 0 .. 255 : (d % 16) * 16 + (e % 64) \div 4 \in Int
    OBVIOUS
  <2>3. \A d, e \in 0 .. 255 : (d % 4) * 64 + e \in Int
    OBVIOUS
  <2> QED
    BY <2>1, <2>2, <2>3, ZenonT(60)
<1>3. a4_to_a3(v) = <<b1, b2, b3>>
  BY DEF a4_to_a3
<1> HIDE DEF B
<1>4. b1 \in B /\ b2 \in B /\ b3 \in B
  BY <1>1, <1>2, Zenon
<1> HIDE DEF b1, b2, b3
<1>5. <<b1, b2, b3>> \in Seq(B) /\ Len(<<b1, b2, b3>>) = 3
  BY <1>4
<1> QED
  BY <1>3, <1>5 DEF B

\* The group a4 holds m digits of the text behind the first g groups.
GroupRead(s, g, m, a4) ==
  /\ 4 * g + m <= Digits(s)
  /\ \A k \in 1 .. m : a4[k] = Reference(s)[4 * g + k]
  /\ \A k \in m + 1 .. 4 : a4[k] = 0

\* Decoding gives back the bytes of a group, also of a last group that is not
\* full and is filled up with zeros.
LEMMA GroupDecoded ==
  ASSUME NEW s \in Seq(1 .. 255), NEW g \in Nat, NEW m \in 2 .. 4, NEW a4,
         GroupRead(s, g, m, a4)
  PROVE  /\ Decoded(a4) \in Seq(0 .. 255) /\ Len(Decoded(a4)) = 3
         /\ 3 * g + m - 1 <= Len(s)
         /\ \A k \in 1 .. m - 1 : Decoded(a4)[k] = s[3 * g + k]
<1>0. /\ 4 * g + m <= Digits(s)
      /\ \A k \in 1 .. m : a4[k] = Reference(s)[4 * g + k]
      /\ \A k \in m + 1 .. 4 : a4[k] = 0
  BY DEF GroupRead
<1> DEFINE v == [k \in 1 .. 4 |-> b64_lookup(a4[k])]
           x == ByteOrZero(s, 3 * g + 1)
           y == ByteOrZero(s, 3 * g + 2)
           z == ByteOrZero(s, 3 * g + 3)
           n == Len(s)
<1>1. s \in Seq(0 .. 255) /\ Digits(s) \in Nat /\ n \in Nat
  BY ReferenceFacts
<1>2. 3 * g + m - 1 <= n
  <2>1. Digits(s) = (8 * n + 5) \div 6
    BY DEF Digits
  <2> HIDE DEF n
  <2>2. 4 * g + m <= (8 * n + 5) \div 6
    BY <1>0, <2>1
  <2> QED
    BY <1>1, <2>2
<1>3. /\ x \in 0 .. 255 /\ y \in 0 .. 255 /\ z \in 0 .. 255
      /\ Digit(s, 4 * g) = x \div 4
      /\ Digit(s, 4 * g + 1) = (x % 4) * 16 + y \div 16
      /\ Digit(s, 4 * g + 2) = (y % 16) * 4 + z \div 64
      /\ Digit(s, 4 * g + 3) = z % 64
  BY <1>1, DigitsOfGroup
<1>4. ASSUME NEW k \in 1 .. m
      PROVE  v[k] = Digit(s, (4 * g + k) - 1) /\ v[k] \in 0 .. 255
  <2>1. 4 * g + k \in 1 .. Digits(s) /\ k \in 1 .. 4
    BY <1>0, <1>1
  <2>2. /\ b64_lookup(Reference(s)[4 * g + k]) = Digit(s, (4 * g + k) - 1)
        /\ b64_lookup(Reference(s)[4 * g + k]) \in 0 .. 63
    BY <2>1, DigitLookedUp
  <2>3. v[k] = b64_lookup(Reference(s)[4 * g + k])
    BY <1>0, <2>1
  <2> HIDE DEF v
  <2>4. \A b \in 0 .. 63 : b \in 0 .. 255
    OBVIOUS
  <2>5. v[k] = Digit(s, (4 * g + k) - 1) /\ v[k] \in 0 .. 63
    BY <2>2, <2>3, Zenon
  <2>6. v[k] \in 0 .. 255
    BY <2>4, <2>5, SMTT(60)
  <2> QED
    BY <2>5, <2>6
<1>5. ASSUME NEW k \in m + 1 .. 4
      PROVE  v[k] \in 0 .. 255
  <2>1. k \in 1 .. 4 /\ a4[k] = 0
    BY <1>0
  <2>2. v[k] = b64_lookup(0)
    BY <2>1
  <2> QED
    BY <2>2, LookupOfNul
<1>6. Decoded(a4) = a4_to_a3(v)
  BY DEF Decoded
<1> HIDE DEF v, x, y, z, n
<1>7. /\ v[1] = x \div 4 /\ v[2] = (x % 4) * 16 + y \div 16
      /\ v[3] \in 0 .. 255 /\ v[4] \in 0 .. 255
      /\ m >= 3 => v[3] = (y % 16) * 4 + z \div 64
      /\ m = 4 => v[4] = z % 64
  <2>1. /\ (4 * g + 1) - 1 = 4 * g /\ (4 * g + 2) - 1 = 4 * g + 1
        /\ (4 * g + 3) - 1 = 4 * g + 2 /\ (4 * g + 4) - 1 = 4 * g + 3
    OBVIOUS
  <2>2. /\ 1 \in 1 .. m /\ 2 \in 1 .. m
        /\ 3 \in 1 .. m \/ 3 \in m + 1 .. 4
        /\ 4 \in 1 .. m \/ 4 \in m + 1 .. 4
        /\ m >= 3 => 3 \in 1 .. m
        /\ m = 4 => 4 \in 1 .. m
    OBVIOUS
  <2>3. v[1] = x \div 4 /\ v[2] = (x % 4) * 16 + y \div 16
    BY <1>3, <1>4, <2>1, <2>2, SMTT(60)
  <2>4. v[3] \in 0 .. 255 /\ v[4] \in 0 .. 255
    BY <1>4, <1>5, <2>2, SMTT(60)
  <2>5. m >= 3 => v[3] = (y % 16) * 4 + z \div 64
    BY <1>3, <1>4, <2>1, <2>2, Zenon
  <2>6. m = 4 => v[4] = z % 64
    BY <1>3, <1>4, <2>1, <2>2, Zenon
  <2> QED
    BY <2>3, <2>4, <2>5, <2>6
<1>8. /\ a4_to_a3(v)[1] = x
      /\ m >= 3 => a4_to_a3(v)[2] = y
      /\ m = 4 => a4_to_a3(v)[3] = z
  <2>1. m = 4 => m >= 3
    OBVIOUS
  <2>2. /\ FirstDigits(v, x, y, z) /\ (m >= 3 => ThirdDigit(v, y, z))
        /\ (m = 4 => FourthDigit(v, z))
    BY <1>3, <1>7, Zenon DEF FirstDigits, ThirdDigit, FourthDigit
  <2>3. /\ a4_to_a3(v)[1] = x
        /\ ThirdDigit(v, y, z) => a4_to_a3(v)[2] = y
        /\ ThirdDigit(v, y, z) /\ FourthDigit(v, z) => a4_to_a3(v)[3] = z
    BY <2>2, BytesOfDigits, SMTT(60)
  <2> QED
    BY <2>1, <2>2, <2>3, Zenon
<1>9. /\ x = s[3 * g + 1]
      /\ m >= 3 => y = s[3 * g + 2]
      /\ m = 4 => z = s[3 * g + 3]
  <2>1. /\ 3 * g + 1 <= n /\ (m >= 3 => 3 * g + 2 <= n) /\ (m = 4 => 3 * g + 3 <= n)
    BY <1>1, <1>2
  <2> QED
    BY <2>1, Zenon DEF x, y, z, n, ByteOrZero
<1>10. \A k \in 1 .. m - 1 : a4_to_a3(v)[k] = s[3 * g + k]
  <2>1. \A k \in 1 .. m - 1 : k = 1 \/ (k = 2 /\ m >= 3) \/ (k = 3 /\ m = 4)
    OBVIOUS
  <2> QED
    BY <1>8, <1>9, <2>1, Zenon
<1>11. a4_to_a3(v) \in Seq(0 .. 255) /\ Len(a4_to_a3(v)) = 3
  <2>1. 1 \in 1 .. m /\ 2 \in 1 .. m
    OBVIOUS
  <2>2. v[1] \in 0 .. 255 /\ v[2] \in 0 .. 255 /\ v[3] \in 0 .. 255 /\ v[4] \in 0 .. 255
    BY <1>4, <1>7, <2>1, Zenon
  <2> QED
    BY <2>2, BytesMade
<1> QED
  BY <1>2, <1>6, <1>10, <1>11, Zenon DEF n

\* Any byte is looked up as a byte.
LEMMA LookupIsByte ==
  ASSUME NEW ch \in 0 .. 255
  PROVE  b64_lookup(ch) \in 0 .. 255
<1>1. CASE ch \in 65 .. 90
  <2>1. ch \notin 97 .. 122 /\ ch \notin 48 .. 57 /\ ch # 43 /\ ch # 47
    BY <1>1
  <2>2. b64_lookup(ch) = ch - 65
    BY <1>1, <2>1, SMTT(60) DEF b64_lookup
  <2> QED
    BY <1>1, <2>2
<1>2. CASE ch \in 97 .. 122
  <2>1. ch \notin 65 .. 90 /\ ch \notin 48 .. 57 /\ ch # 43 /\ ch # 47
    BY <1>2
  <2>2. b64_lookup(ch) = ch - 71
    BY <1>2, <2>1, SMTT(60) DEF b64_lookup
  <2> QED
    BY <1>2, <2>2
<1>3. CASE ch \in 48 .. 57
  <2>1. ch \notin 65 .. 90 /\ ch \notin 97 .. 122 /\ ch # 43 /\ ch # 47
    BY <1>3
  <2>2. b64_lookup(ch) = ch + 4
    BY <1>3, <2>1, SMTT(60) DEF b64_lookup
  <2> QED
    BY <1>3, <2>2
<1>4. CASE ch = 43 \/ ch = 47
  <2>1. ch \notin 65 .. 90 /\ ch \notin 97 .. 122 /\ ch \notin 48 .. 57 /\ 43 # 47
    BY <1>4
  <2>2. b64_lookup(ch) = 62 \/ b64_lookup(ch) = 63
    BY <1>4, <2>1, SMTT(60) DEF b64_lookup
  <2> QED
    BY <2>2
<1>5. CASE ~(ch \in 65 .. 90 \/ ch \in 97 .. 122 \/ ch \in 48 .. 57 \/ ch = 43 \/ ch = 47)
  <2>1. b64_lookup(ch) = 255
    BY <1>5, SMTT(60) DEF b64_lookup
  <2> QED
    BY <2>1
<1> QED
  BY <1>1, <1>2, <1>3, <1>4, <1>5

\* Decode makes three bytes of any four.
LEMMA DecodedBytes ==
  ASSUME NEW a4, \A k \in 1 .. 4 : a4[k] \in 0 .. 255
  PROVE  Decoded(a4) \in Seq(0 .. 255) /\ Len(Decoded(a4)) = 3
<1> DEFINE v == [k \in 1 .. 4 |-> b64_lookup(a4[k])]
<1>1. 1 \in 1 .. 4 /\ 2 \in 1 .. 4 /\ 3 \in 1 .. 4 /\ 4 \in 1 .. 4
  OBVIOUS
<1>2. \A k \in 1 .. 4 : v[k] = b64_lookup(a4[k])
  OBVIOUS
<1>3. Decoded(a4) = a4_to_a3(v)
  BY DEF Decoded
<1> HIDE DEF v
<1>4. \A k \in 1 .. 4 : v[k] \in 0 .. 255
  BY <1>2, LookupIsByte, Zenon
<1>5. v[1] \in 0 .. 255 /\ v[2] \in 0 .. 255 /\ v[3] \in 0 .. 255 /\ v[4] \in 0 .. 255
  BY <1>1, <1>4, ZenonT(60)
<1> QED
  BY <1>3, <1>5, BytesMade

\* What stands before the first '=' stands before the padding.
LEMMA BeforePadding ==
  ASSUME NEW s \in Seq(1 .. 255)
  PROVE  /\ Len(s) \in Nat /\ TextEnd(s) \in 0 .. Len(s)
         /\ \A m \in 0 .. Len(s) : (\A k \in 1 .. m : s[k] # Pad) => m <= TextEnd(s)
<1> DEFINE n == Len(s)
           T == {k \in 0 .. n : \A j \in k + 1 .. n : s[j] = Pad}
<1>1. n \in Nat
  BY LenProperties
<1>2. TextEnd(s) = Min(T)
  BY DEF TextEnd
<1> HIDE DEF n
<1>3. n \in T /\ T \subseteq Nat
  BY <1>1
<1>4. Min(T) \in T
  <2> HIDE DEF T
  <2> QED
    BY <1>3, MinIsLeast
<1> DEFINE e == TextEnd(s)
<1>5. e \in 0 .. n /\ \A j \in e + 1 .. n : s[j] = Pad
  BY <1>2, <1>4
<1> HIDE DEF e, T
<1>6. ASSUME NEW m \in 0 .. n, \A k \in 1 .. m : s[k] # Pad PROVE m <= e
  <2> SUFFICES ASSUME ~(m <= e) PROVE FALSE
    OBVIOUS
  <2>1. m \in e + 1 .. n /\ m \in 1 .. m
    BY <1>1, <1>5
  <2> QED
    BY <1>5, <1>6, <2>1, Zenon
<1> QED
  BY <1>1, <1>5, <1>6 DEF n, e

\* The arithmetic of DecodedLength: N characters of which e are before the
\* padding have room for the bytes of 4 * q + r of these.
LEMMA RoomEnough ==
  ASSUME NEW N \in Nat, NEW e \in 0 .. N, NEW q \in Nat, NEW r \in 0 .. 3,
         N - e = 0 \/ (N % 4 = 0 /\ N - e < 4), 4 * q + r <= e
  PROVE  3 * q + (IF r = 0 THEN 0 ELSE r - 1) <= (6 * N) \div 8 - (N - e)
<1>1. PICK t \in Nat, b \in 0 .. 3 : N = 4 * t + b
  <2>1. N % 4 \in 0 .. 3 /\ N = 4 * (N \div 4) + (N % 4)
    OBVIOUS
  <2>2. N \div 4 \in Nat
    OBVIOUS
  <2> QED
    BY <2>1, <2>2
<1>2. (6 * N) \div 8 = 3 * t + (IF b = 0 THEN 0 ELSE b - 1)
  BY <1>1
<1>3. N % 4 = b
  BY <1>1
<1>4. CASE N - e = 0
  BY <1>1, <1>2, <1>4
<1>5. CASE N % 4 = 0 /\ N - e < 4
  BY <1>1, <1>2, <1>3, <1>5
<1> QED
  BY <1>4, <1>5

\* So the bytes of what stands before the first '=' fit into the room for a
\* text that is padded properly or not at all.
LEMMA RoomForText ==
  ASSUME NEW s \in Seq(1 .. 255), WellPadded(s), NEW q \in Nat, NEW r \in 0 .. 3,
         4 * q + r <= Len(s), \A k \in 1 .. 4 * q + r : s[k] # Pad
  PROVE  3 * q + (IF r = 0 THEN 0 ELSE r - 1) <= DecodedLength(s, Len(s) - TextEnd(s))
<1> DEFINE N == Len(s)
           e == TextEnd(s)
           m == 4 * q + r
<1>1. N \in Nat /\ e \in 0 .. N
  BY BeforePadding
<1>2. m \in 0 .. N
  BY <1>1
<1>3. m <= e
  BY <1>2, BeforePadding
<1>4. N - e = 0 \/ (N % 4 = 0 /\ N - e < 4)
  BY DEF WellPadded
<1>5. DecodedLength(s, N - e) = (6 * N) \div 8 - (N - e)
  BY DEF DecodedLength
<1> HIDE DEF N, e
<1>6. 3 * q + (IF r = 0 THEN 0 ELSE r - 1) <= (6 * N) \div 8 - (N - e)
  BY <1>1, <1>3, <1>4, RoomEnough
<1> QED
  BY <1>5, <1>6 DEF N, e

\* For such a text the loop of DecodedLength counts the padding, or there is no
\* string at all.
LEMMA SizeOfPadded ==
  ASSUME NEW s \in Seq(1 .. 255), WellPadded(s), NEW numEq \in EqSeen(s),
         ~(DecodedLength(s, numEq) < 0)
  PROVE  DecodedLength(s, numEq) = DecodedLength(s, Len(s) - TextEnd(s))
<1> DEFINE N == Len(s)
           e == TextEnd(s)
<1>1. N \in Nat /\ e \in 0 .. N
  BY BeforePadding
<1>2. N - e = 0 \/ (N % 4 = 0 /\ N - e < 4)
  BY DEF WellPadded
<1>3. numEq \in IF e = 0 THEN {N, N + 1} ELSE {N - e}
  BY DEF EqSeen
<1>4. ~((6 * N) \div 8 - numEq < 0)
  BY DEF DecodedLength
<1> HIDE DEF N, e
<1>5. numEq = N - e
  <2>1. CASE e = 0
    <3>1. N = 0
      BY <1>1, <1>2, <2>1
    <3> QED
      BY <1>3, <1>4, <2>1, <3>1
  <2>2. CASE e # 0
    BY <1>3, <2>2
  <2> QED
    BY <2>1, <2>2
<1> QED
  BY <1>5 DEF N, e

\* What the number of '=' can be
LEMMA EqSeenType ==
  ASSUME NEW s \in Seq(1 .. 255), NEW numEq \in EqSeen(s)
  PROVE  numEq \in Nat /\ DecodedLength(s, numEq) \in Int
<1> DEFINE N == Len(s)
           e == TextEnd(s)
<1>1. N \in Nat /\ e \in 0 .. N
  BY BeforePadding
<1>2. numEq \in IF e = 0 THEN {N, N + 1} ELSE {N - e}
  BY DEF EqSeen
<1>3. DecodedLength(s, numEq) = (6 * N) \div 8 - numEq
  BY DEF DecodedLength
<1> HIDE DEF N, e
<1>4. numEq \in Nat
  BY <1>1, <1>2
<1> QED
  BY <1>1, <1>3, <1>4

\* FromBase64 of any string: it answers at once, throws, or begins the loop.
LEMMA FromBase64Step ==
  ASSUME Base64Inv, ~Decoding, NEW s \in Seq(0 .. 255), FromBase64(s)
  PROVE  Base64Inv'
<1> DEFINE cut == CutAtNul(s)
           R == Reference(text)
<1>1. text' = text /\ kept' = kept /\ coded' = cut
  BY DEF FromBase64
<1>2. cut \in Seq(1 .. 255)
  BY CutAtNulType
<1> HIDE DEF cut
<1>3. /\ text \in Seq(1 .. 255) /\ kept \in [encoded : Nat, decoded : Nat]
      /\ input \in Seq(0 .. 255) /\ out \in Seq(Stale .. 255) /\ len \in Nat /\ reserved \in Nat
      /\ retVal = Failed \/ retVal \in Seq(1 .. 255)
      /\ len <= reserved /\ Len(out) = reserved
  BY DEF Base64Inv, TypeOK, WritesFit, Fits
<1>4. <<>> \in Seq(1 .. 255) /\ Len(<<>>) = 0
  BY EmptySeq
<1>5. /\ Digits(text) \in Nat /\ Digits(text) <= Len(R) /\ Len(text) \in Nat
      /\ Len(R) \in Nat
  <2>1. R \in Seq(43 .. 122) /\ Digits(text) \in Nat /\ Digits(text) <= Len(R) /\ Len(text) \in Nat
    BY <1>3, ReferenceFacts
  <2> HIDE DEF R
  <2> QED
    BY <2>1, SeqIsFunction
<1>6. ASSUME OfText'
      PROVE  /\ Len(cut) = Digits(text) \/ Len(cut) = Len(R)
             /\ \A k \in 1 .. Len(cut) : cut[k] = R[k]
             /\ DecodedLength(cut, Len(cut) - TextEnd(cut)) = Len(text)
             /\ WellPadded(cut)
  <2>1. cut = Reference(text) \/ cut = StripPadding(Reference(text))
    BY <1>1, <1>6 DEF OfText
  <2> QED
    BY <1>3, <2>1, PaddedOrStripped
<1> HIDE DEF R
<1>7. CASE s = <<>>
  <2>1. stage' = "decoded" /\ retVal' = <<>> /\ UNCHANGED conversion
    BY <1>7 DEF FromBase64
  <2>2. input' = input /\ out' = out /\ len' = len /\ reserved' = reserved
    BY <2>1 DEF conversion
  <2>3. cut = <<>>
    BY <1>4, <1>7, NothingToCut DEF cut
  <2>4. ASSUME OfText' PROVE text = <<>>
    <3>1. Len(cut) = 0
      BY <1>4, <2>3
    <3>2. Digits(text) = 0
      BY <1>5, <1>6, <2>4, <3>1
    <3> QED
      BY <1>3, <3>2, ReferenceEmpty
  <2>5. TypeOK' /\ WritesFit'
    BY <1>1, <1>2, <1>3, <1>4, <2>1, <2>2 DEF TypeOK, WritesFit, Fits
  <2>6. LoopsOK'
    BY <1>1, <2>1, <2>4 DEF LoopsOK
  <2> QED
    BY <2>5, <2>6 DEF Base64Inv
<1>8. CASE s # <<>>
  <2>1. PICK numEq \in EqSeen(cut) :
          IF DecodedLength(cut, numEq) < 0
          THEN stage' = "thrown" /\ retVal' = <<>> /\ UNCHANGED conversion
          ELSE /\ stage' = "decoding" /\ UNCHANGED retVal
               /\ Begin(cut, kept.decoded, DecodedLength(cut, numEq))
    BY <1>1, <1>8 DEF FromBase64
  <2> DEFINE size == DecodedLength(cut, numEq)
  <2>2. size \in Int
    BY <1>2, EqSeenType
  <2>3. CASE size < 0
    <3>1. stage' = "thrown" /\ retVal' = <<>> /\ UNCHANGED conversion
      BY <2>1, <2>3
    <3>2. input' = input /\ out' = out /\ len' = len /\ reserved' = reserved
      BY <3>1 DEF conversion
    <3>3. TypeOK' /\ WritesFit'
      BY <1>1, <1>2, <1>3, <1>4, <3>1, <3>2 DEF TypeOK, WritesFit, Fits
    <3>4. LoopsOK'
      BY <3>1 DEF LoopsOK
    <3> QED
      BY <3>3, <3>4 DEF Base64Inv
  <2>4. CASE ~(size < 0)
    <3>1. /\ stage' = "decoding" /\ retVal' = retVal
          /\ Begin(cut, kept.decoded, size)
      BY <2>1, <2>4
    <3>2. /\ input' = cut /\ a' = <<>> /\ len' = 0 /\ reserved' = size
          /\ out' = Resized(kept.decoded, size)
      BY <3>1 DEF Begin
    <3>3. WellPadded(cut) => size = DecodedLength(cut, Len(cut) - TextEnd(cut))
      BY <1>2, <2>4, SizeOfPadded
    <3> HIDE DEF size
    <3>4. size \in Nat /\ kept.decoded \in Nat
      BY <1>3, <2>2, <2>4
    <3>5. out' \in Seq(Stale .. 255) /\ Len(out') = size
      BY <3>2, <3>4, ResizedType
    <3>6. a' \in Seq(1 .. 255) /\ Len(a') = 0
      BY <1>4, <3>2
    <3>7. input' \in Seq(0 .. 255) /\ Len(cut) \in Nat
      <4>1. 1 .. 255 \subseteq 0 .. 255
        OBVIOUS
      <4> QED
        BY <1>2, <3>2, <4>1, SeqMonotonic, LenProperties
    <3>8. TypeOK' /\ WritesFit'
      <4>1. /\ len' \in Nat /\ len' <= reserved' /\ reserved' \in Nat /\ Len(out') = reserved'
            /\ Len(a') < 4
        BY <3>2, <3>4, <3>5, <3>6
      <4> QED
        BY <1>1, <1>2, <1>3, <3>1, <3>5, <3>6, <3>7, <4>1 DEF TypeOK, WritesFit, Fits
    <3>9. /\ \A k \in 1 .. 4 * 0 + Len(a') : FALSE
          /\ \A k \in 1 .. len' : FALSE
          /\ \A k \in 1 .. 3 * 0 : FALSE
          /\ \A k \in 1 .. Len(a') : FALSE
          /\ len' = 3 * 0
          /\ 4 * 0 + Len(a') + Len(cut) = Len(cut)
          /\ \A k \in 1 .. Len(cut) : 4 * 0 + Len(a') + k = k
      BY <3>2, <3>6, <3>7
    <3>10. Reading(0)'
      <4>1. SizesOK'
        BY <3>2, <3>4, <3>5 DEF SizesOK
      <4>2. \A k \in 1 .. Len(input') : input'[k] = coded'[4 * 0 + Len(a') + k]
        BY <1>1, <3>2, <3>9, Zenon
      <4>3. 4 * 0 + Len(a') + Len(input') = Len(coded')
        BY <1>1, <3>2, <3>9, Zenon
      <4>4. WellPadded(coded)'
              => reserved' = DecodedLength(coded, Len(coded) - TextEnd(coded))'
        <5>1. WellPadded(cut) => reserved' = DecodedLength(cut, Len(cut) - TextEnd(cut))
          BY <3>2, <3>3
        <5> QED
          BY <1>1, <5>1, Zenon DEF WellPadded, DecodedLength, TextEnd
      <4> QED
        BY <3>9, <4>1, <4>2, <4>3, <4>4, Zenon DEF Reading
    <3>11. ASSUME OfText' PROVE DecodedSoFar(0)'
      <4>1. reserved' = Len(text')
        BY <1>1, <1>6, <3>2, <3>3, <3>11
      <4>2. 4 * 0 + Len(a') <= Digits(text')
        BY <1>1, <1>5, <3>6
      <4>3. 4 * 0 + Len(a') + Len(input') \in {Digits(text'), Len(Reference(text'))}
        BY <1>1, <1>6, <3>2, <3>9, <3>11, Zenon DEF R
      <4>4. \A k \in 1 .. Len(input') : input'[k] = Reference(text')[4 * 0 + Len(a') + k]
        BY <1>1, <1>6, <3>2, <3>9, <3>11, Zenon DEF R
      <4> QED
        BY <3>9, <4>1, <4>2, <4>3, <4>4, Zenon DEF DecodedSoFar
    <3>12. LoopsOK'
      BY <3>1, <3>10, <3>11 DEF LoopsOK
    <3> QED
      BY <3>8, <3>12 DEF Base64Inv
  <2> QED
    BY <2>2, <2>3, <2>4
<1> QED
  BY <1>7, <1>8

\* FromBase64 of what ToBase64 gave, with its padding or without
LEMMA FromBase64OfEncodedStep ==
  ASSUME Base64Inv, FromBase64OfEncoded
  PROVE  Base64Inv'
<1>1. stage = "encoded" /\ (FromBase64(retVal) \/ FromBase64(StripPadding(retVal)))
  BY DEF FromBase64OfEncoded
<1>2. ~Decoding /\ retVal = Reference(text) /\ text \in Seq(1 .. 255)
  BY <1>1 DEF Decoding, Base64Inv, LoopsOK, TypeOK
<1>3. retVal \in Seq(43 .. 122) /\ StripPadding(retVal) \in Seq(43 .. 122)
  BY <1>2, PaddedOrStripped
<1>4. retVal \in Seq(0 .. 255) /\ StripPadding(retVal) \in Seq(0 .. 255)
  <2>1. 43 .. 122 \subseteq 0 .. 255
    OBVIOUS
  <2> QED
    BY <1>3, <2>1, SeqMonotonic
<1> QED
  BY <1>1, <1>2, <1>4, FromBase64Step

\* FromBase64 of a text of the script's own
LEMMA FromBase64OfAnyStep ==
  ASSUME Base64Inv, NEW n \in Nat, NEW s \in [1 .. n -> Code], FromBase64OfAny(s)
  PROVE  Base64Inv'
<1>1. stage = "idle" /\ FromBase64(s)
  BY DEF FromBase64OfAny
<1>2. s \in Seq(Code)
  BY FunctionIsSeq
<1>3. Code \subseteq 0 .. 255
  BY BytesAreBytes
<1>4. s \in Seq(0 .. 255)
  BY <1>2, <1>3, SeqMonotonic, ZenonT(60)
<1>5. ~Decoding
  BY <1>1 DEF Decoding
<1> QED
  BY <1>1, <1>4, <1>5, FromBase64Step

\* What the invariant gives in every round of Decode
LEMMA DecodingFacts ==
  ASSUME Base64Inv, stage = "decoding"
  PROVE  \E g \in Nat :
           /\ Reading(g) /\ (OfText => DecodedSoFar(g))
           /\ a \in Seq(1 .. 255) /\ Len(a) \in 0 .. 3
           /\ input \in Seq(0 .. 255) /\ Len(input) \in Nat
           /\ coded \in Seq(1 .. 255) /\ Len(coded) \in Nat
           /\ text \in Seq(1 .. 255) /\ Len(text) \in Nat
           /\ out \in Seq(Stale .. 255) /\ Len(out) \in Nat /\ len \in Nat /\ reserved \in Nat
           /\ kept \in [encoded : Nat, decoded : Nat]
           /\ retVal = Failed \/ retVal \in Seq(1 .. 255)
           /\ OfText => Len(out) = reserved
<1>1. PICK g \in Nat : Reading(g) /\ (OfText => DecodedSoFar(g))
  BY DEF Base64Inv, LoopsOK
<1>2. /\ a \in Seq(1 .. 255) /\ Len(a) < 4 /\ input \in Seq(0 .. 255)
      /\ coded \in Seq(1 .. 255) /\ text \in Seq(1 .. 255)
      /\ out \in Seq(Stale .. 255) /\ len \in Nat /\ reserved \in Nat
      /\ kept \in [encoded : Nat, decoded : Nat]
      /\ retVal = Failed \/ retVal \in Seq(1 .. 255)
  BY DEF Base64Inv, TypeOK
<1>3. /\ Len(a) \in 0 .. 3 /\ Len(input) \in Nat /\ Len(coded) \in Nat /\ Len(text) \in Nat
      /\ Len(out) \in Nat
  <2>1. /\ Len(a) \in Nat /\ Len(input) \in Nat /\ Len(coded) \in Nat /\ Len(text) \in Nat
        /\ Len(out) \in Nat
    BY <1>2, LenProperties, ZenonT(60)
  <2>2. \A k \in Nat : k < 4 => k \in 0 .. 3
    OBVIOUS
  <2> QED
    BY <1>2, <2>1, <2>2, Zenon
<1>4. OfText => WellPadded(coded)
  BY <1>2, PaddedOrStripped DEF OfText
<1>5. OfText => Len(out) = reserved
  BY <1>4 DEF Base64Inv, WritesFit, Fits
<1> QED
  BY <1>1, <1>2, <1>3, <1>5

\* The loop of Decode ends exactly where the padding begins.
LEMMA WhereDecodeEnds ==
  ASSUME NEW g \in Nat, DecodedSoFar(g), text \in Seq(1 .. 255),
         Len(a) \in Nat, input \in Seq(0 .. 255), Len(input) \in Nat
  PROVE  AtEnd <=> 4 * g + Len(a) = Digits(text)
<1> DEFINE p == 4 * g + Len(a)
           D == Digits(text)
           R == Reference(text)
<1>1. /\ D \in Nat /\ D <= Len(R)
      /\ \A k \in 1 .. D : R[k] # Pad
      /\ \A k \in D + 1 .. Len(R) : R[k] = Pad
  BY ReferenceFacts
<1>2. /\ p \in Nat /\ p <= D /\ p + Len(input) \in {D, Len(R)}
      /\ \A k \in 1 .. Len(input) : input[k] = R[p + k]
  BY DEF DecodedSoFar
<1>3. Len(R) \in Nat
  <2>1. R \in Seq(43 .. 122)
    BY ReferenceFacts
  <2> HIDE DEF R
  <2> QED
    BY <2>1, SeqIsFunction
<1> HIDE DEF p, D, R
<1>4. CASE input = <<>>
  <2>1. Len(input) = 0 /\ AtEnd
    BY <1>4 DEF AtEnd
  <2>2. p = D
    BY <1>1, <1>2, <1>3, <2>1
  <2> QED
    BY <2>1, <2>2 DEF p, D
<1>5. CASE input # <<>>
  <2>1. Len(input) \in Nat \ {0} /\ Head(input) = input[1]
    BY <1>5, RestOfSeq
  <2>2. 1 \in 1 .. Len(input)
    BY <2>1
  <2>3. Head(input) = R[p + 1]
    BY <1>2, <2>1, <2>2, Zenon
  <2>4. p = D => p + 1 \in D + 1 .. Len(R)
    BY <1>1, <1>2, <1>3, <2>1
  <2>5. p # D => p + 1 \in 1 .. D
    BY <1>1, <1>2
  <2>6. AtEnd <=> R[p + 1] = Pad
    BY <1>5, <2>3, Zenon DEF AtEnd
  <2>7. R[p + 1] = Pad <=> p = D
    BY <1>1, <2>4, <2>5, Zenon
  <2> QED
    BY <2>6, <2>7 DEF p, D
<1> QED
  BY <1>4, <1>5

\* The character that is read: one of the text, no '='.
LEMMA NextChar ==
  ASSUME Base64Inv, DecodeChar, NEW g \in Nat, Reading(g)
  PROVE  /\ stage = "decoding" /\ stage' = stage /\ text' = text /\ coded' = coded
         /\ kept' = kept /\ retVal' = retVal
         /\ Len(input) \in Nat \ {0} /\ Len(a) \in 0 .. 3
         /\ Head(input) = input[1] /\ Head(input) = coded[4 * g + (Len(a) + 1)]
         /\ Head(input) \in 1 .. 255 /\ Head(input) # Pad
         /\ input' \in Seq(0 .. 255) /\ Len(input') = Len(input) - 1
         /\ \A k \in 1 .. Len(input) - 1 : input'[k] = input[k + 1]
         /\ Append(a, Head(input)) \in Seq(1 .. 255)
         /\ Len(Append(a, Head(input))) = Len(a) + 1
         /\ \A k \in 1 .. Len(a) : Append(a, Head(input))[k] = a[k]
         /\ Append(a, Head(input))[Len(a) + 1] = Head(input)
<1> DEFINE m == Len(a)
           p == Len(input)
           h == Head(input)
<1>1. /\ stage = "decoding" /\ ~AtEnd /\ input' = Tail(input)
      /\ stage' = stage /\ text' = text /\ coded' = coded /\ kept' = kept /\ retVal' = retVal
  BY DEF DecodeChar
<1>2. /\ a \in Seq(1 .. 255) /\ m \in 0 .. 3 /\ input \in Seq(0 .. 255) /\ p \in Nat
      /\ coded \in Seq(1 .. 255) /\ Len(coded) \in Nat
  BY <1>1, DecodingFacts
<1>3. input # <<>> /\ h # Pad
  BY <1>1 DEF AtEnd
<1>4. /\ p \in Nat \ {0} /\ h = input[1]
      /\ input' \in Seq(0 .. 255) /\ Len(input') = p - 1
      /\ \A k \in 1 .. p - 1 : input'[k] = input[k + 1]
  BY <1>1, <1>2, <1>3, RestOfSeq, SMTT(60)
<1>5. /\ 4 * g + m + p = Len(coded)
      /\ \A k \in 1 .. p : input[k] = coded[4 * g + m + k]
  BY DEF Reading
<1>6. h = coded[4 * g + (m + 1)] /\ h \in 1 .. 255
  <2> HIDE DEF m, p, h
  <2>1. 1 \in 1 .. p /\ 4 * g + m + 1 = 4 * g + (m + 1) /\ 4 * g + (m + 1) \in 1 .. Len(coded)
    BY <1>2, <1>4, <1>5
  <2>2. h = coded[4 * g + (m + 1)]
    BY <1>4, <1>5, <2>1, Zenon
  <2>3. \A k \in 1 .. Len(coded) : coded[k] \in 1 .. 255
    BY <1>2, ElementOfSeq
  <2> QED
    BY <2>1, <2>2, <2>3, Zenon
<1>7. /\ Append(a, h) \in Seq(1 .. 255) /\ Len(Append(a, h)) = m + 1
      /\ \A k \in 1 .. m : Append(a, h)[k] = a[k]
      /\ Append(a, h)[m + 1] = h
  <2> HIDE DEF h
  <2> QED
    BY <1>2, <1>6, LongerSeq, SMTT(60)
<1> QED
  BY <1>1, <1>2, <1>3, <1>4, <1>6, <1>7

\* A round of Decode for any text: a full group is written as three bytes,
\* inside the string if the text is padded properly or not at all.
LEMMA AnyCharRead ==
  ASSUME Base64Inv, DecodeChar, NEW g \in Nat, Reading(g)
  PROVE  /\ TypeOK' /\ WritesFit'
         /\ Len(a) = 3 => Reading(g + 1)'
         /\ Len(a) # 3 => Reading(g)'
<1> DEFINE a4 == Append(a, Head(input))
           m == Len(a)
           p == Len(input)
           room == DecodedLength(coded, Len(coded) - TextEnd(coded))
<1>1. /\ stage = "decoding" /\ stage' = stage /\ text' = text /\ coded' = coded
      /\ kept' = kept /\ retVal' = retVal /\ p \in Nat \ {0} /\ m \in 0 .. 3
      /\ Head(input) = coded[4 * g + (m + 1)] /\ Head(input) # Pad
      /\ input' \in Seq(0 .. 255) /\ Len(input') = p - 1
      /\ \A k \in 1 .. p - 1 : input'[k] = input[k + 1]
      /\ a4 \in Seq(1 .. 255) /\ Len(a4) = m + 1
  BY NextChar
<1>2. /\ text \in Seq(1 .. 255) /\ coded \in Seq(1 .. 255) /\ Len(coded) \in Nat
      /\ out \in Seq(Stale .. 255) /\ Len(out) \in Nat /\ len \in Nat /\ reserved \in Nat
      /\ kept \in [encoded : Nat, decoded : Nat]
      /\ retVal = Failed \/ retVal \in Seq(1 .. 255)
  BY <1>1, DecodingFacts
<1>3. /\ reserved <= Len(out) /\ len <= Len(out) /\ Len(out) \in {reserved, len}
      /\ len = 3 * g /\ 4 * g + m + p = Len(coded)
      /\ \A k \in 1 .. 4 * g + m : coded[k] # Pad
      /\ \A k \in 1 .. p : input[k] = coded[4 * g + m + k]
      /\ \A k \in 1 .. len : out[k] \in 0 .. 255
      /\ WellPadded(coded) => reserved = room
  BY DEF Reading, SizesOK
<1>4. /\ WellPadded(coded)' <=> WellPadded(coded)
      /\ DecodedLength(coded, Len(coded) - TextEnd(coded))' = room
  BY <1>1, Zenon DEF WellPadded, DecodedLength, TextEnd
<1>5. IF Len(a4) = 4 THEN Write(Decoded(a4)) /\ a' = <<>>
      ELSE a' = a4 /\ UNCHANGED <<out, len, reserved>>
  BY DEF DecodeChar
<1> HIDE DEF a4, m, p, room
<1>6. \A k \in 1 .. 4 * g + (m + 1) : coded[k] # Pad
  <2>1. \A k \in 1 .. 4 * g + (m + 1) : k \in 1 .. 4 * g + m \/ k = 4 * g + (m + 1)
    BY <1>1
  <2> QED
    BY <1>1, <1>3, <2>1, Zenon
<1>7. \A k \in 1 .. p - 1 : input'[k] = coded[4 * g + (m + 1) + k]
  <2>1. ASSUME NEW k \in 1 .. p - 1 PROVE input'[k] = coded[4 * g + (m + 1) + k]
    <3>1. k + 1 \in 1 .. p /\ 4 * g + m + (k + 1) = 4 * g + (m + 1) + k
      BY <1>1
    <3> QED
      BY <1>1, <1>3, <3>1, Zenon
  <2> QED
    BY <2>1
<1>8. CASE m = 3
  <2> DEFINE w == Decoded(a4)
  <2>1. Write(w) /\ a' = <<>>
    BY <1>1, <1>5, <1>8
  <2>2. w \in Seq(0 .. 255) /\ Len(w) = 3
    <3>1. Len(a4) = 4
      BY <1>1, <1>8
    <3>2. \A k \in 1 .. 4 : a4[k] \in 1 .. 255
      BY <1>1, <3>1, ElementOfSeq
    <3>3. \A b \in 1 .. 255 : b \in 0 .. 255
      OBVIOUS
    <3>4. \A k \in 1 .. 4 : a4[k] \in 0 .. 255
      BY <3>2, <3>3, Zenon
    <3> QED
      BY <3>4, DecodedBytes
  <2> HIDE DEF w
  <2>3. /\ len' = len + 3 /\ reserved' = reserved /\ out' \in Seq(Stale .. 255)
        /\ Len(out') = IF len + 3 <= Len(out) THEN Len(out) ELSE len + 3
        /\ \A k \in 1 .. len : out'[k] = out[k]
        /\ \A k \in 1 .. 3 : out'[len + k] = w[k]
    BY <1>2, <1>3, <2>1, <2>2, WriteAnywhere, ZenonT(60)
  <2>4. a' \in Seq(1 .. 255) /\ Len(a') = 0
    BY <2>1, EmptySeq
  <2>5. len' \in Nat /\ len' = 3 * (g + 1) /\ SizesOK'
    BY <1>2, <1>3, <2>3, SMTT(60) DEF SizesOK
  <2>6. WellPadded(coded) => Fits'
    <3> HAVE WellPadded(coded)
    <3> DEFINE q == g + 1
               r == 0
    <3>1. q \in Nat /\ r \in 0 .. 3 /\ 4 * q + r = 4 * g + (m + 1) /\ 4 * q + r <= Len(coded)
      BY <1>1, <1>3, <1>8
    <3>2. \A k \in 1 .. 4 * q + r : coded[k] # Pad
      BY <1>6, <3>1
    <3> HIDE DEF q, r
    <3>3. 3 * q + (IF r = 0 THEN 0 ELSE r - 1) <= room
      BY <1>2, <3>1, <3>2, RoomForText DEF room
    <3>4. 3 * (g + 1) <= room
      BY <3>3 DEF q, r
    <3>5. reserved = room
      BY <1>3
    <3>6. Len(out) \in Nat /\ reserved \in Nat /\ len' = 3 * (g + 1) /\ len + 3 = len'
      BY <1>2, <2>3, <2>5
    <3>7. len' <= reserved /\ len + 3 <= Len(out)
      BY <1>3, <3>4, <3>5, <3>6
    <3>8. Len(out) = reserved
      BY <1>2, <1>3, <3>6, <3>7
    <3> QED
      BY <2>3, <3>7, <3>8 DEF Fits
  <2>7. TypeOK' /\ WritesFit'
    <3>1. TypeOK'
      BY <1>1, <1>2, <2>3, <2>4, <2>5 DEF TypeOK
    <3>2. WritesFit'
      BY <1>1, <1>4, <2>6 DEF WritesFit, Decoding
    <3> QED
      BY <3>1, <3>2
  <2>8. \A k \in 1 .. len' : out'[k] \in 0 .. 255
    <3>1. ASSUME NEW k \in 1 .. len' PROVE out'[k] \in 0 .. 255
      <4>1. CASE k \in 1 .. len
        BY <1>3, <2>3, <4>1, Zenon
      <4>2. CASE k \notin 1 .. len
        <5> DEFINE j == k - len
        <5>1. j \in 1 .. 3 /\ k = len + j
          BY <1>2, <2>3, <4>2
        <5> HIDE DEF j
        <5>2. \A i1 \in 1 .. 3 : w[i1] \in 0 .. 255
          BY <2>2, ElementOfSeq
        <5> QED
          BY <2>3, <5>1, <5>2, Zenon
      <4> QED
        BY <4>1, <4>2
    <3> QED
      BY <3>1
  <2>9. Reading(g + 1)'
    <3>1. 4 * (g + 1) + Len(a') = 4 * g + (m + 1) /\ m + 1 = 4
      BY <1>8, <2>4
    <3>2. 4 * (g + 1) + Len(a') + Len(input') = Len(coded')
      <4>1. p \in Nat \ {0} /\ m \in 0 .. 3 /\ 4 * g + (m + 1) + (p - 1) = 4 * g + m + p
        BY <1>1
      <4>2. 4 * g + (m + 1) + (p - 1) = Len(coded)
        BY <1>3, <4>1, Zenon
      <4> QED
        BY <1>1, <3>1, <4>2, Zenon
    <3>3. \A k \in 1 .. 4 * (g + 1) + Len(a') : coded'[k] # Pad
      BY <1>1, <1>6, <3>1, Zenon
    <3>4. \A k \in 1 .. Len(input') : input'[k] = coded'[4 * (g + 1) + Len(a') + k]
      BY <1>1, <1>7, <3>1, Zenon
    <3>5. WellPadded(coded)'
            => reserved' = DecodedLength(coded, Len(coded) - TextEnd(coded))'
      BY <1>3, <1>4, <2>3
    <3> QED
      BY <2>5, <2>8, <3>2, <3>3, <3>4, <3>5, Zenon DEF Reading
  <2> QED
    BY <1>8, <2>7, <2>9 DEF m
<1>9. CASE m # 3
  <2>1. a' = a4 /\ out' = out /\ len' = len /\ reserved' = reserved
    BY <1>1, <1>5, <1>9
  <2>2. Len(a') = m + 1 /\ Len(a') \in 0 .. 3 /\ a' \in Seq(1 .. 255)
    BY <1>1, <1>9, <2>1
  <2>3. TypeOK' /\ WritesFit'
    <3>1. Len(a') < 4
      BY <2>2
    <3>2. TypeOK'
      BY <1>1, <1>2, <2>1, <2>2, <3>1 DEF TypeOK
    <3>3. WritesFit'
      BY <1>1, <1>4, <2>1 DEF Base64Inv, WritesFit, Decoding, Fits
    <3> QED
      BY <3>2, <3>3
  <2>4. Reading(g)'
    <3>1. 4 * g + Len(a') = 4 * g + (m + 1)
      BY <2>2
    <3>2. 4 * g + Len(a') + Len(input') = Len(coded')
      <4>1. p \in Nat \ {0} /\ m \in 0 .. 3 /\ 4 * g + (m + 1) + (p - 1) = 4 * g + m + p
        BY <1>1
      <4>2. 4 * g + (m + 1) + (p - 1) = Len(coded)
        BY <1>3, <4>1, Zenon
      <4> QED
        BY <1>1, <3>1, <4>2, Zenon
    <3>3. \A k \in 1 .. 4 * g + Len(a') : coded'[k] # Pad
      BY <1>1, <1>6, <3>1, Zenon
    <3>4. \A k \in 1 .. Len(input') : input'[k] = coded'[4 * g + Len(a') + k]
      BY <1>1, <1>7, <3>1, Zenon
    <3>5. WellPadded(coded)'
            => reserved' = DecodedLength(coded, Len(coded) - TextEnd(coded))'
      BY <1>3, <1>4, <2>1
    <3>6. SizesOK' /\ len' = 3 * g /\ \A k \in 1 .. len' : out'[k] \in 0 .. 255
      BY <1>3, <2>1 DEF SizesOK
    <3> QED
      BY <3>2, <3>3, <3>4, <3>5, <3>6, Zenon DEF Reading
  <2> QED
    BY <1>9, <2>3, <2>4 DEF m
<1> QED
  BY <1>8, <1>9

\* A round of Decode for the text that was encoded: a full group is written as
\* the bytes of that text.
LEMMA DigitRead ==
  ASSUME Base64Inv, DecodeChar, NEW g \in Nat, Reading(g), OfText, DecodedSoFar(g)
  PROVE  /\ Len(a) = 3 => DecodedSoFar(g + 1)'
         /\ Len(a) # 3 => DecodedSoFar(g)'
<1> DEFINE a4 == Append(a, Head(input))
           n == Len(text)
           m == Len(a)
           D == Digits(text)
           N == Len(Reference(text))
           p == Len(input)
<1>1. /\ stage = "decoding" /\ text' = text /\ p \in Nat \ {0} /\ m \in 0 .. 3
      /\ Head(input) = input[1] /\ Len(input') = p - 1
      /\ \A k \in 1 .. p - 1 : input'[k] = input[k + 1]
      /\ Len(a4) = m + 1 /\ \A k \in 1 .. m : a4[k] = a[k]
      /\ a4[m + 1] = Head(input)
  BY NextChar
<1>2. /\ text \in Seq(1 .. 255) /\ n \in Nat /\ input \in Seq(0 .. 255)
      /\ out \in Seq(Stale .. 255) /\ Len(out) = reserved /\ reserved \in Nat
      /\ D \in Nat /\ D <= N /\ N \in Nat
  <2>1. /\ text \in Seq(1 .. 255) /\ n \in Nat /\ input \in Seq(0 .. 255)
        /\ out \in Seq(Stale .. 255) /\ Len(out) = reserved /\ reserved \in Nat
    BY <1>1, DecodingFacts
  <2>2. D \in Nat /\ D <= N /\ Reference(text) \in Seq(43 .. 122)
    BY <2>1, ReferenceFacts
  <2>3. N \in Nat
    BY <2>2, LenProperties
  <2> QED
    BY <2>1, <2>2, <2>3
<1>3. /\ len = 3 * g /\ reserved = n
      /\ 4 * g + m <= D
      /\ 4 * g + m + p \in {D, N}
      /\ \A k \in 1 .. m : a[k] = Reference(text)[4 * g + k]
      /\ \A k \in 1 .. p : input[k] = Reference(text)[4 * g + m + k]
      /\ \A k \in 1 .. 3 * g : out[k] = text[k]
  BY DEF DecodedSoFar
<1>4. ~AtEnd /\ IF Len(a4) = 4 THEN Write(Decoded(a4)) /\ a' = <<>>
                ELSE a' = a4 /\ UNCHANGED <<out, len, reserved>>
  BY DEF DecodeChar
<1>5. 4 * g + m # D
  <2>1. m \in Nat /\ p \in Nat
    BY <1>1
  <2> QED
    BY <1>2, <1>4, <2>1, WhereDecodeEnds
<1>6. Head(input) = Reference(text)[4 * g + (m + 1)]
  <2> HIDE DEF m, D, N, p
  <2>1. 1 \in 1 .. p /\ 4 * g + m + 1 = 4 * g + (m + 1)
    BY <1>1
  <2> QED
    BY <1>1, <1>3, <2>1, Zenon
<1> HIDE DEF a4, n, m, D, N, p
<1>7. \A k \in 1 .. m + 1 : a4[k] = Reference(text)[4 * g + k]
  <2>1. \A k \in 1 .. m : a4[k] = Reference(text)[4 * g + k]
    BY <1>1, <1>3, Zenon
  <2>2. \A k \in 1 .. m + 1 : k \in 1 .. m \/ k = m + 1
    BY <1>1
  <2> QED
    BY <1>1, <1>6, <2>1, <2>2, Zenon
<1>8. \A k \in 1 .. p - 1 : input'[k] = Reference(text)[4 * g + (m + 1) + k]
  <2>1. ASSUME NEW k \in 1 .. p - 1
        PROVE  input'[k] = Reference(text)[4 * g + (m + 1) + k]
    <3>1. k + 1 \in 1 .. p /\ 4 * g + m + (k + 1) = 4 * g + (m + 1) + k
      BY <1>1
    <3> QED
      BY <1>1, <1>3, <3>1, Zenon
  <2> QED
    BY <2>1
<1>9. 4 * g + (m + 1) <= D /\ 4 * g + (m + 1) + (p - 1) \in {D, N}
  BY <1>1, <1>2, <1>3, <1>5
<1>10. CASE m = 3
  <2> DEFINE w == Decoded(a4)
  <2>1. Write(w) /\ a' = <<>>
    BY <1>1, <1>4, <1>10
  <2>2. /\ w \in Seq(0 .. 255) /\ Len(w) = 3 /\ 3 * g + 3 <= n
        /\ \A k \in 1 .. 3 : w[k] = text[3 * g + k]
    <3> DEFINE b == 4
    <3>1. /\ text \in Seq(1 .. 255) /\ b \in 2 .. 4 /\ 4 * g + b <= Digits(text)
          /\ \A k \in b + 1 .. 4 : a4[k] = 0
      BY <1>2, <1>9, <1>10 DEF D
    <3>2. \A k \in 1 .. b : a4[k] = Reference(text)[4 * g + k]
      BY <1>7, <1>10
    <3> HIDE DEF b
    <3>3. /\ w \in Seq(0 .. 255) /\ Len(w) = 3
          /\ 3 * g + b - 1 <= Len(text)
          /\ \A k \in 1 .. b - 1 : w[k] = text[3 * g + k]
      BY <3>1, <3>2, GroupDecoded, ZenonT(60) DEF GroupRead
    <3>4. b - 1 = 3 /\ 3 * g + b - 1 = 3 * g + 3
      BY DEF b
    <3> QED
      BY <3>3, <3>4 DEF n
  <2> HIDE DEF w
  <2>3. len + Len(w) <= Len(out) /\ len \in Nat /\ out \in Seq(Stale .. 255)
    <3>1. len = 3 * g /\ Len(w) = 3 /\ Len(out) = n /\ 3 * g + 3 <= n
      BY <1>2, <1>3, <2>2
    <3>2. len + Len(w) <= Len(out) /\ len \in Nat
      BY <3>1
    <3> QED
      BY <1>2, <3>2
  <2>4. w \in Seq(0 .. 255)
    BY <2>2
  <2>5. /\ len' = len + Len(w) /\ reserved' = reserved
        /\ \A k \in 1 .. len : out'[k] = out[k]
        /\ \A k \in 1 .. Len(w) : out'[len + k] = w[k]
    BY <2>1, <2>3, <2>4, WriteInside
  <2>6. \A k \in 1 .. 3 * (g + 1) : out'[k] = text[k]
    <3>1. ASSUME NEW k \in 1 .. 3 * (g + 1) PROVE out'[k] = text[k]
      <4>0. len = 3 * g /\ Len(w) = 3
        BY <1>3, <2>2
      <4>1. CASE k <= 3 * g
        <5>1. k \in 1 .. 3 * g /\ k \in 1 .. len
          BY <4>0, <4>1
        <5> QED
          BY <1>3, <2>5, <5>1, Zenon
      <4>2. CASE ~(k <= 3 * g)
        <5> DEFINE j == k - 3 * g
        <5>1. j \in 1 .. 3 /\ k = 3 * g + j /\ k = len + j
          BY <4>0, <4>2
        <5> HIDE DEF j
        <5>2. j \in 1 .. Len(w)
          BY <4>0, <5>1
        <5>3. out'[len + j] = w[j] /\ w[j] = text[3 * g + j]
          BY <2>2, <2>5, <5>1, <5>2, Zenon
        <5> QED
          BY <5>1, <5>3
      <4> QED
        BY <4>1, <4>2
    <3> QED
      BY <3>1
  <2>7. Len(a') = 0
    BY <2>1, EmptySeq
  <2>8. len' = 3 * (g + 1)
    <3>1. len' = len + 3 /\ len = 3 * g
      BY <1>3, <2>2, <2>5
    <3> QED
      BY <3>1
  <2>9. DecodedSoFar(g + 1)'
    <3>1. 4 * (g + 1) + Len(a') = 4 * g + (m + 1)
      BY <1>10, <2>7
    <3>2. \A k \in 1 .. Len(a') : a'[k] = Reference(text')[4 * (g + 1) + k]
      BY <2>7
    <3>3. \A k \in 1 .. Len(input') : input'[k] = Reference(text')[4 * (g + 1) + Len(a') + k]
      BY <1>1, <1>8, <3>1, Zenon
    <3>4. /\ 4 * (g + 1) + Len(a') <= Digits(text')
          /\ 4 * (g + 1) + Len(a') + Len(input') \in {Digits(text'), Len(Reference(text'))}
      BY <1>1, <1>9, <3>1, Zenon DEF D, N
    <3>5. len' = 3 * (g + 1) /\ reserved' = Len(text')
      BY <1>1, <1>3, <2>5, <2>8, Zenon DEF n
    <3> QED
      BY <1>1, <2>6, <3>2, <3>3, <3>4, <3>5, Zenon DEF DecodedSoFar
  <2> QED
    BY <1>10, <2>9 DEF m
<1>11. CASE m # 3
  <2>1. a' = a4 /\ out' = out /\ len' = len /\ reserved' = reserved
    BY <1>1, <1>4, <1>11
  <2>2. Len(a') = m + 1
    BY <1>1, <2>1
  <2>3. DecodedSoFar(g)'
    <3>1. /\ 4 * g + Len(a') <= Digits(text')
          /\ 4 * g + Len(a') + Len(input') \in {Digits(text'), Len(Reference(text'))}
      BY <1>1, <1>9, <2>2, Zenon DEF D, N
    <3>2. \A k \in 1 .. Len(a') : a'[k] = Reference(text')[4 * g + k]
      BY <1>1, <1>7, <2>1, <2>2, Zenon
    <3>3. \A k \in 1 .. Len(input') : input'[k] = Reference(text')[4 * g + Len(a') + k]
      BY <1>1, <1>8, <2>2, Zenon
    <3> QED
      BY <1>1, <1>3, <2>1, <3>1, <3>2, <3>3, Zenon DEF DecodedSoFar, n
  <2> QED
    BY <1>11, <2>3 DEF m
<1> QED
  BY <1>10, <1>11

\* A round of Decode
LEMMA DecodeCharStep ==
  ASSUME Base64Inv, DecodeChar
  PROVE  Base64Inv'
<1>1. stage = "decoding"
  BY DEF DecodeChar
<1>2. PICK g \in Nat : Reading(g) /\ (OfText => DecodedSoFar(g))
  BY <1>1, DecodingFacts
<1>3. stage' = stage /\ text' = text /\ coded' = coded
  BY <1>2, NextChar
<1>4. OfText' <=> OfText
  BY <1>3 DEF OfText
<1>5. /\ TypeOK' /\ WritesFit'
      /\ Len(a) = 3 => Reading(g + 1)'
      /\ Len(a) # 3 => Reading(g)'
  BY <1>2, AnyCharRead
<1>6. OfText => /\ Len(a) = 3 => DecodedSoFar(g + 1)'
                /\ Len(a) # 3 => DecodedSoFar(g)'
  BY <1>2, DigitRead
<1>7. g + 1 \in Nat
  OBVIOUS
<1>8. LoopsOK'
  <2>1. CASE Len(a) = 3
    BY <1>1, <1>3, <1>4, <1>5, <1>6, <1>7, <2>1 DEF LoopsOK
  <2>2. CASE Len(a) # 3
    BY <1>1, <1>3, <1>4, <1>5, <1>6, <2>2 DEF LoopsOK
  <2> QED
    BY <2>1, <2>2
<1> QED
  BY <1>5, <1>8 DEF Base64Inv

\* The last m characters with zeros behind them, and the bytes that the loop
\* makes of them
LastGroup(u, m) == [k \in 1 .. 4 |-> IF k <= m THEN u[k] ELSE 0]
TailBytes(u, m) == SubSeq(Decoded(LastGroup(u, m)), 1, m - 1)

\* The m characters in u are the last digits of the text.
LastDigits(s, g, m, u) ==
  4 * g + m = Digits(s) /\ \A k \in 1 .. m : u[k] = Reference(s)[4 * g + k]

\* The bytes made of them are the rest of the text.
LEMMA TailDecoded ==
  ASSUME NEW s \in Seq(1 .. 255), NEW g \in Nat, NEW m \in 0 .. 3, NEW u,
         LastDigits(s, g, m, u)
  PROVE  /\ m = 0 => Len(s) = 3 * g
         /\ m # 0 => /\ TailBytes(u, m) \in Seq(0 .. 255)
                     /\ Len(s) = 3 * g + Len(TailBytes(u, m))
                     /\ \A k \in 1 .. Len(TailBytes(u, m)) :
                          TailBytes(u, m)[k] = s[3 * g + k]
<1> DEFINE a4 == LastGroup(u, m)
           w == TailBytes(u, m)
           n == Len(s)
<1>0. 4 * g + m = Digits(s) /\ \A k \in 1 .. m : u[k] = Reference(s)[4 * g + k]
  BY DEF LastDigits
<1>1. n \in Nat /\ (8 * n + 5) \div 6 = 4 * g + m
  BY <1>0, ReferenceFacts DEF Digits
<1>2. (m = 0 /\ n = 3 * g) \/ (m \in 2 .. 3 /\ n = 3 * g + (m - 1))
  <2> HIDE DEF n
  <2> QED
    BY <1>1
<1>3. CASE m = 0
  BY <1>2, <1>3
<1>4. CASE m # 0
  <2>1. m \in 2 .. 3 /\ m \in 2 .. 4 /\ n = 3 * g + (m - 1) /\ 4 * g + m <= Digits(s)
    BY <1>0, <1>2, <1>4
  <2>2. /\ \A k \in 1 .. m : a4[k] = Reference(s)[4 * g + k]
        /\ \A k \in m + 1 .. 4 : a4[k] = 0
    <3>1. /\ \A k \in 1 .. m : k \in 1 .. 4 /\ k <= m
          /\ \A k \in m + 1 .. 4 : k \in 1 .. 4 /\ ~(k <= m)
      OBVIOUS
    <3>2. \A k \in 1 .. 4 : a4[k] = IF k <= m THEN u[k] ELSE 0
      BY Zenon DEF LastGroup
    <3> HIDE DEF a4
    <3> QED
      BY <1>0, <3>1, <3>2, Zenon
  <2> DEFINE v == Decoded(a4)
             l == m - 1
  <2> HIDE DEF a4
  <2>3. /\ v \in Seq(0 .. 255) /\ Len(v) = 3
        /\ \A k \in 1 .. m - 1 : v[k] = s[3 * g + k]
    <3>1. GroupRead(s, g, m, a4)
      BY <2>1, <2>2, Zenon DEF GroupRead
    <3>2. m \in 2 .. 4
      BY <2>1
    <3> QED
      BY <3>1, <3>2, GroupDecoded, SMTT(60)
  <2> HIDE DEF v
  <2>4. l \in 0 .. Len(v) /\ \A k \in 1 .. l : v[k] \in 0 .. 255
    <3>1. l \in 0 .. 3 /\ \A k \in 1 .. l : k \in 1 .. 3
      BY <2>1
    <3>2. \A k \in 1 .. 3 : v[k] \in 0 .. 255
      BY <2>3, SeqIsFunction, ZenonT(60)
    <3> QED
      BY <2>3, <3>1, <3>2, ZenonT(60)
  <2> HIDE DEF l
  <2>5. /\ SubSeq(v, 1, l) \in Seq(0 .. 255) /\ Len(SubSeq(v, 1, l)) = l
        /\ \A k \in 1 .. l : SubSeq(v, 1, l)[k] = v[k]
    BY <2>3, <2>4, FirstElements
  <2>6. w = SubSeq(v, 1, l)
    BY DEF v, l, a4, TailBytes
  <2>7. n = 3 * g + l /\ \A k \in 1 .. l : v[k] = s[3 * g + k]
    BY <2>1, <2>3 DEF l
  <2> HIDE DEF w
  <2>8. /\ w \in Seq(0 .. 255) /\ n = 3 * g + Len(w)
        /\ \A k \in 1 .. Len(w) : w[k] = s[3 * g + k]
    BY <2>5, <2>6, <2>7, Zenon
  <2> QED
    BY <1>4, <2>8 DEF w, n, a4
<1> QED
  BY <1>3, <1>4

\* What Decode writes for its last group, of any text: one byte less than it
\* has read.
LEMMA AnyTailBytes ==
  ASSUME NEW u \in Seq(1 .. 255), Len(u) \in 1 .. 3
  PROVE  /\ TailBytes(u, Len(u)) \in Seq(0 .. 255)
         /\ Len(TailBytes(u, Len(u))) = Len(u) - 1
<1> DEFINE m == Len(u)
           a4 == LastGroup(u, m)
           v == Decoded(a4)
           l == m - 1
<1>1. m \in 1 .. 3 /\ \A k \in 1 .. m : u[k] \in 1 .. 255
  BY ElementOfSeq
<1>2. \A k \in 1 .. 4 : a4[k] = IF k <= m THEN u[k] ELSE 0
  BY Zenon DEF LastGroup
<1>3. TailBytes(u, m) = SubSeq(v, 1, l)
  BY DEF TailBytes
<1> HIDE DEF m, a4
<1>4. \A k \in 1 .. 4 : a4[k] \in 0 .. 255
  <2>1. \A k \in 1 .. 4 : k <= m => k \in 1 .. m
    BY <1>1
  <2>2. 0 \in 0 .. 255 /\ \A b \in 1 .. 255 : b \in 0 .. 255
    OBVIOUS
  <2> QED
    BY <1>1, <1>2, <2>1, <2>2, ZenonT(60)
<1>5. v \in Seq(0 .. 255) /\ Len(v) = 3
  BY <1>4, DecodedBytes
<1> HIDE DEF v
<1>6. l \in 0 .. Len(v) /\ \A k \in 1 .. l : k \in 1 .. Len(v)
  BY <1>1, <1>5
<1>7. \A k \in 1 .. l : v[k] \in 0 .. 255
  BY <1>5, <1>6, ElementOfSeq, ZenonT(60)
<1> HIDE DEF l
<1>8. SubSeq(v, 1, l) \in Seq(0 .. 255) /\ Len(SubSeq(v, 1, l)) = l
  BY <1>5, <1>6, <1>7, FirstElements
<1> QED
  BY <1>3, <1>8 DEF m, l

\* The bytes that the end of Decode writes
LastBytes(u) == IF u # <<>> THEN TailBytes(u, Len(u)) ELSE <<>>

\* The end of Decode for any text: it writes these and returns, with an answer
\* that is a string or none.
LEMMA AnyTailRead ==
  ASSUME Base64Inv, DecodeTail, NEW g \in Nat, Reading(g)
  PROVE  /\ stage = "decoding" /\ stage' = "decoded" /\ text' = text /\ coded' = coded
         /\ Write(LastBytes(a)) /\ Return("decoded", "decoded")
         /\ TypeOK' /\ WritesFit'
<1> DEFINE m == Len(a)
           w == LastBytes(a)
           d == IF m = 0 THEN 0 ELSE m - 1
           room == DecodedLength(coded, Len(coded) - TextEnd(coded))
<1>1. /\ stage = "decoding" /\ a' = <<>> /\ input' = input
      /\ Return("decoded", "decoded") /\ Write(w)
  BY Zenon DEF DecodeTail, LastBytes, TailBytes, LastGroup
<1>2. /\ stage' = "decoded" /\ text' = text /\ coded' = coded
      /\ kept' = [kept EXCEPT !["decoded"] = reserved]
      /\ retVal' = IF len' = reserved THEN CutAtNul(SubSeq(out', 1, reserved)) ELSE Failed
  BY <1>1 DEF Return
<1>3. /\ a \in Seq(1 .. 255) /\ m \in 0 .. 3 /\ input \in Seq(0 .. 255) /\ Len(input) \in Nat
      /\ text \in Seq(1 .. 255) /\ coded \in Seq(1 .. 255) /\ Len(coded) \in Nat
      /\ out \in Seq(Stale .. 255) /\ Len(out) \in Nat /\ len \in Nat /\ reserved \in Nat
      /\ kept \in [encoded : Nat, decoded : Nat]
  BY <1>1, DecodingFacts
<1>4. /\ reserved <= Len(out) /\ len <= Len(out) /\ Len(out) \in {reserved, len}
      /\ len = 3 * g /\ 4 * g + m + Len(input) = Len(coded)
      /\ \A k \in 1 .. 4 * g + m : coded[k] # Pad
      /\ \A k \in 1 .. len : out[k] \in 0 .. 255
      /\ WellPadded(coded) => reserved = room
  BY DEF Reading, SizesOK
<1>5. w \in Seq(0 .. 255) /\ Len(w) = d
  <2>1. CASE a = <<>>
    BY <2>1, EmptySeq DEF LastBytes
  <2>2. CASE a # <<>>
    <3>1. m \in 1 .. 3
      BY <1>3, <2>2, EmptySeq
    <3> QED
      BY <1>3, <2>2, <3>1, AnyTailBytes DEF LastBytes
  <2> QED
    BY <2>1, <2>2
<1> HIDE DEF w, m, room
<1>6. d \in 0 .. 2
  BY <1>3
<1> HIDE DEF d
<1>7. /\ len' = len + d /\ reserved' = reserved /\ out' \in Seq(Stale .. 255)
      /\ Len(out') = IF len + d <= Len(out) THEN Len(out) ELSE len + d
      /\ \A k \in 1 .. len : out'[k] = out[k]
      /\ \A k \in 1 .. d : out'[len + k] = w[k]
  BY <1>1, <1>3, <1>4, <1>5, WriteAnywhere, ZenonT(60)
<1>8. \A k \in 1 .. len' : out'[k] \in 0 .. 255
  <2>1. ASSUME NEW k \in 1 .. len' PROVE out'[k] \in 0 .. 255
    <3>1. CASE k \in 1 .. len
      BY <1>4, <1>7, <3>1, Zenon
    <3>2. CASE k \notin 1 .. len
      <4> DEFINE j == k - len
      <4>1. j \in 1 .. d /\ k = len + j
        BY <1>3, <1>6, <1>7, <3>2
      <4> HIDE DEF j
      <4>2. \A i1 \in 1 .. d : w[i1] \in 0 .. 255
        BY <1>5, ElementOfSeq
      <4> QED
        BY <1>7, <4>1, <4>2, Zenon
    <3> QED
      BY <3>1, <3>2
  <2> QED
    BY <2>1
<1>9. retVal' = Failed \/ retVal' \in Seq(1 .. 255)
  <2>1. CASE len' = reserved
    <3>1. reserved \in 0 .. Len(out') /\ \A k \in 1 .. reserved : out'[k] \in 0 .. 255
      BY <1>3, <1>4, <1>6, <1>7, <1>8, <2>1
    <3>2. SubSeq(out', 1, reserved) \in Seq(0 .. 255)
      BY <1>7, <3>1, FirstElements
    <3> QED
      BY <1>2, <2>1, <3>2, CutAtNulType
  <2>2. CASE len' # reserved
    BY <1>2, <2>2
  <2> QED
    BY <2>1, <2>2
<1>10. TypeOK'
  <2>1. kept' \in [encoded : Nat, decoded : Nat]
    BY <1>2, <1>3
  <2>2. len' \in Nat
    BY <1>3, <1>6, <1>7
  <2> QED
    BY <1>1, <1>2, <1>3, <1>7, <1>9, <2>1, <2>2 DEF TypeOK
<1>11. WellPadded(coded) => Fits'
  <2> HAVE WellPadded(coded)
  <2>1. m \in 0 .. 3 /\ 4 * g + m <= Len(coded)
    BY <1>3, <1>4
  <2>2. 3 * g + (IF m = 0 THEN 0 ELSE m - 1) <= room
    BY <1>3, <1>4, <2>1, RoomForText DEF room
  <2>3. len + d <= reserved
    BY <1>4, <2>2 DEF d
  <2> QED
    BY <1>3, <1>4, <1>6, <1>7, <2>3 DEF Fits
<1>12. WritesFit'
  <2>1. WellPadded(coded)' <=> WellPadded(coded)
    BY <1>2, Zenon DEF WellPadded, TextEnd
  <2> QED
    BY <1>2, <1>11, <2>1 DEF WritesFit, Decoding
<1> QED
  BY <1>1, <1>2, <1>10, <1>12 DEF w

\* The end of Decode for the text that was encoded: the answer is that text.
LEMMA TextRead ==
  ASSUME Base64Inv, DecodeTail, NEW g \in Nat, Reading(g), OfText, DecodedSoFar(g)
  PROVE  retVal' = text
<1> DEFINE n == Len(text)
           m == Len(a)
           w == LastBytes(a)
<1>1. stage = "decoding" /\ Return("decoded", "decoded") /\ Write(w)
  BY AnyTailRead
<1>2. /\ a \in Seq(1 .. 255) /\ m \in 0 .. 3 /\ input \in Seq(0 .. 255) /\ Len(input) \in Nat
      /\ text \in Seq(1 .. 255) /\ n \in Nat
      /\ out \in Seq(Stale .. 255) /\ Len(out) = reserved /\ reserved \in Nat
  BY <1>1, DecodingFacts
<1>3. /\ len = 3 * g /\ reserved = n
      /\ \A k \in 1 .. m : a[k] = Reference(text)[4 * g + k]
      /\ \A k \in 1 .. 3 * g : out[k] = text[k]
  BY DEF DecodedSoFar
<1>4. 4 * g + m = Digits(text)
  <2>1. m \in Nat /\ AtEnd
    BY <1>2 DEF DecodeTail
  <2> QED
    BY <1>2, <2>1, WhereDecodeEnds
<1>5. len \in Nat
  BY <1>3
<1>6. /\ w \in Seq(0 .. 255) /\ n = 3 * g + Len(w)
      /\ \A k \in 1 .. Len(w) : w[k] = text[3 * g + k]
  <2> DEFINE v == TailBytes(a, m)
  <2>1. LastDigits(text, g, m, a)
    BY <1>3, <1>4 DEF LastDigits
  <2>2. a = <<>> <=> m = 0
    BY <1>2, EmptySeq
  <2>3. w = IF a # <<>> THEN v ELSE <<>>
    BY DEF LastBytes
  <2> HIDE DEF m, w
  <2>4. /\ m = 0 => n = 3 * g
        /\ m # 0 => /\ v \in Seq(0 .. 255) /\ n = 3 * g + Len(v)
                    /\ \A k \in 1 .. Len(v) : v[k] = text[3 * g + k]
    BY <1>2, <2>1, TailDecoded, SMTT(60)
  <2> HIDE DEF v, n
  <2>5. CASE m = 0
    <3>1. w = <<>>
      BY <2>2, <2>3, <2>5
    <3>2. <<>> \in Seq(0 .. 255) /\ Len(<<>>) = 0
      BY EmptySeq
    <3>3. n = 3 * g + 0 /\ \A k \in 1 .. 0 : FALSE
      BY <2>4, <2>5
    <3> QED
      BY <3>1, <3>2, <3>3, Zenon
  <2>6. CASE m # 0
    BY <2>2, <2>3, <2>4, <2>6, Zenon
  <2> QED
    BY <2>5, <2>6
<1> HIDE DEF n, m, w
<1>7. Len(w) \in Nat
  BY <1>6, LenProperties
<1>8. len + Len(w) <= Len(out)
  <2>1. len = 3 * g /\ n = 3 * g + Len(w) /\ Len(out) = n
    BY <1>2, <1>3, <1>6
  <2> QED
    BY <1>7, <2>1
<1>9. /\ len' = len + Len(w) /\ reserved' = reserved
      /\ out' \in Seq(Stale .. 255) /\ Len(out') = Len(out)
      /\ \A k \in 1 .. len : out'[k] = out[k]
      /\ \A k \in 1 .. Len(w) : out'[len + k] = w[k]
  <2>1. w \in Seq(0 .. 255)
    BY <1>6
  <2> QED
    BY <1>1, <1>2, <1>5, <1>8, <2>1, WriteInside
<1>10. len' = reserved /\ Len(out') = reserved /\ reserved = n
  BY <1>2, <1>3, <1>6, <1>9, Zenon
<1>11. \A k \in 1 .. n : out'[k] = text[k]
  <2>1. ASSUME NEW k \in 1 .. n PROVE out'[k] = text[k]
    <3>0. len = 3 * g /\ n = 3 * g + Len(w)
      BY <1>3, <1>6
    <3>1. CASE k <= 3 * g
      <4>1. k \in 1 .. 3 * g /\ k \in 1 .. len
        BY <1>7, <3>0, <3>1
      <4> QED
        BY <1>3, <1>9, <4>1, Zenon
    <3>2. CASE ~(k <= 3 * g)
      <4> DEFINE j == k - 3 * g
      <4>1. j \in 1 .. Len(w) /\ k = 3 * g + j /\ k = len + j
        BY <1>7, <3>0, <3>2
      <4> HIDE DEF j
      <4>2. out'[len + j] = w[j] /\ w[j] = text[3 * g + j]
        BY <1>6, <1>9, <4>1, Zenon
      <4> QED
        BY <4>1, <4>2
    <3> QED
      BY <3>1, <3>2
  <2> QED
    BY <2>1
<1> DEFINE which == "decoded"
           next == "decoded"
<1>12. Return(which, next) /\ which \in {"encoded", "decoded"} /\ reserved = Len(text)
  BY <1>1, <1>10 DEF n
<1>13. text \in Seq(1 .. 255) /\ \A k \in 1 .. Len(text) : out'[k] = text[k]
  BY <1>2, <1>11 DEF n
<1> HIDE DEF which, next
<1> QED
  BY <1>9, <1>10, <1>12, <1>13, ReturnStep

\* The end of Decode
LEMMA DecodeTailStep ==
  ASSUME Base64Inv, DecodeTail
  PROVE  Base64Inv'
<1>1. PICK g \in Nat : Reading(g) /\ (OfText => DecodedSoFar(g))
  BY DecodingFacts DEF DecodeTail
<1>2. stage' = "decoded" /\ text' = text /\ coded' = coded /\ TypeOK' /\ WritesFit'
  BY <1>1, AnyTailRead
<1>3. OfText' <=> OfText
  BY <1>2 DEF OfText
<1>4. OfText => retVal' = text
  BY <1>1, TextRead
<1>5. LoopsOK'
  BY <1>2, <1>3, <1>4 DEF LoopsOK
<1> QED
  BY <1>2, <1>5 DEF Base64Inv

\* The script forgets its strings.
LEMMA ForgetStep ==
  ASSUME Base64Inv, Forget
  PROVE  Base64Inv'
<1>1. /\ stage' = "idle" /\ text' = <<>> /\ retVal' = <<>> /\ input' = <<>> /\ out' = <<>>
      /\ coded' = <<>> /\ len' = 0 /\ reserved' = 0 /\ kept' = kept
  BY DEF Forget
<1>2. kept \in [encoded : Nat, decoded : Nat]
  BY DEF Base64Inv, TypeOK
<1>3. /\ text' \in Seq(1 .. 255) /\ coded' \in Seq(1 .. 255)
      /\ retVal' \in Seq(1 .. 255) /\ input' \in Seq(0 .. 255)
      /\ out' \in Seq(Stale .. 255) /\ Len(out') = 0
  BY <1>1, EmptySeq
<1>4. TypeOK' /\ WritesFit'
  BY <1>1, <1>2, <1>3 DEF TypeOK, WritesFit, Fits
<1>5. LoopsOK'
  BY <1>1 DEF LoopsOK
<1> QED
  BY <1>4, <1>5 DEF Base64Inv

\* The invariant holds at the start.
LEMMA Base64Start == Init => Base64Inv
<1> SUFFICES ASSUME Init PROVE Base64Inv
  OBVIOUS
<1>1. /\ stage = "idle" /\ text = <<>> /\ retVal = <<>> /\ input = <<>> /\ out = <<>>
      /\ coded = <<>> /\ len = 0 /\ reserved = 0 /\ kept = [encoded |-> 0, decoded |-> 0]
  BY DEF Init
<1>2. /\ text \in Seq(1 .. 255) /\ coded \in Seq(1 .. 255)
      /\ retVal \in Seq(1 .. 255) /\ input \in Seq(0 .. 255)
      /\ out \in Seq(Stale .. 255) /\ Len(out) = 0
  BY <1>1, EmptySeq
<1>3. kept \in [encoded : Nat, decoded : Nat]
  BY <1>1
<1>4. TypeOK /\ WritesFit
  BY <1>1, <1>2, <1>3 DEF TypeOK, WritesFit, Fits
<1>5. LoopsOK
  BY <1>1 DEF LoopsOK
<1> QED
  BY <1>4, <1>5 DEF Base64Inv

\* The invariant is kept when nothing of the script and of the functions
\* changes.
LEMMA Base64Stutter == Base64Inv /\ UNCHANGED vars => Base64Inv'
<1> SUFFICES ASSUME Base64Inv, UNCHANGED vars PROVE Base64Inv'
  OBVIOUS
<1>1. /\ stage' = stage /\ text' = text /\ coded' = coded /\ input' = input /\ a' = a
      /\ out' = out /\ len' = len /\ reserved' = reserved /\ kept' = kept /\ retVal' = retVal
  BY DEF vars, conversion
<1>2. TypeOK' /\ WritesFit'
  BY <1>1, ZenonT(60) DEF Base64Inv, TypeOK, WritesFit, Fits, Decoding, WellPadded, TextEnd
<1>3. OfText' <=> OfText
  BY <1>1 DEF OfText
<1>4. \A g \in Nat : /\ EncodedSoFar(g)' <=> EncodedSoFar(g)
                     /\ DecodedSoFar(g)' <=> DecodedSoFar(g)
                     /\ Reading(g)' <=> Reading(g)
  <2> TAKE g \in Nat
  <2>1. EncodedSoFar(g)' <=> EncodedSoFar(g)
    BY <1>1, Zenon DEF EncodedSoFar
  <2>2. DecodedSoFar(g)' <=> DecodedSoFar(g)
    BY <1>1, Zenon DEF DecodedSoFar
  <2>3. SizesOK' <=> SizesOK
    BY <1>1, Zenon DEF SizesOK
  <2>4. (WellPadded(coded)' <=> WellPadded(coded)) /\ TextEnd(coded)' = TextEnd(coded)
    BY <1>1, Zenon DEF WellPadded, TextEnd
  <2>5. Reading(g)' <=> Reading(g)
    BY <1>1, <2>3, <2>4, Zenon DEF Reading, DecodedLength
  <2> QED
    BY <2>1, <2>2, <2>5
<1>5. LoopsOK'
  BY <1>1, <1>3, <1>4 DEF Base64Inv, LoopsOK
<1> QED
  BY <1>2, <1>5 DEF Base64Inv

\* Every step of the script and of the two functions keeps it.
LEMMA Base64Step == Base64Inv /\ Next => Base64Inv'
<1> SUFFICES ASSUME Base64Inv, Next PROVE Base64Inv'
  OBVIOUS
<1>1. CASE \E n \in 0 .. MaxLen : \E t \in [1 .. n -> Byte] : ToBase64(t)
  <2>1. PICK n \in 0 .. MaxLen : \E t \in [1 .. n -> Byte] : ToBase64(t)
    BY <1>1
  <2>2. n \in Nat
    BY MaxLenIsNatural
  <2>3. PICK t \in [1 .. n -> Byte] : ToBase64(t)
    BY <2>1
  <2> QED
    BY <2>2, <2>3, ToBase64Step
<1>2. CASE EncodeByte
  BY <1>2, EncodeByteStep
<1>3. CASE EncodeTail
  BY <1>3, EncodeTailStep
<1>4. CASE FromBase64OfEncoded
  BY <1>4, FromBase64OfEncodedStep
<1>5. CASE \E n \in 0 .. MaxCode : \E s \in [1 .. n -> Code] : FromBase64OfAny(s)
  <2>1. PICK n \in 0 .. MaxCode : \E s \in [1 .. n -> Code] : FromBase64OfAny(s)
    BY <1>5
  <2>2. n \in Nat
    BY MaxLenIsNatural
  <2>3. PICK s \in [1 .. n -> Code] : FromBase64OfAny(s)
    BY <2>1
  <2> QED
    BY <2>2, <2>3, FromBase64OfAnyStep
<1>6. CASE DecodeChar
  BY <1>6, DecodeCharStep
<1>7. CASE DecodeTail
  BY <1>7, DecodeTailStep
<1>8. CASE Forget
  BY <1>8, ForgetStep
<1> QED
  BY <1>1, <1>2, <1>3, <1>4, <1>5, <1>6, <1>7, <1>8 DEF Next

-----------------------------------------------------------------------------
(* The dump: numbers *)

\* Max of a bounded set of natural numbers
LEMMA MaxIsGreatest ==
  ASSUME NEW T, NEW n \in Nat, T # {}, \A x \in T : x \in Nat /\ x <= n
  PROVE  Max(T) \in T /\ \A y \in T : y <= Max(T)
<1> DEFINE M == {n - x : x \in T}
<1>1. M \subseteq Nat /\ M # {}
  OBVIOUS
<1>2. PICK z \in M : \A y \in M : z <= y
  <2> HIDE DEF M
  <2> QED
    BY <1>1, LeastNatural
<1>3. PICK x \in T : z = n - x
  BY <1>2
<1>4. \A y \in T : x >= y
  <2>1. ASSUME NEW y \in T PROVE x >= y
    <3>1. n - y \in M
      OBVIOUS
    <3>2. n - x <= n - y /\ x \in Nat /\ y \in Nat
      BY <1>2, <1>3, <3>1
    <3> QED
      BY <3>2
  <2> QED
    BY <2>1
<1>5. Max(T) \in T /\ \A y \in T : Max(T) >= y
  BY <1>4 DEF Max
<1>6. \A y \in T : Max(T) >= y => y <= Max(T)
  BY <1>5
<1> QED
  BY <1>5, <1>6

\* Counters of size_t that stay small
LEMMA WrapSmall ==
  ASSUME NEW x \in Nat, x < SizeT
  PROVE  Wrap(x) = x
<1> DEFINE N == SizeT
<1>1. N \in Nat /\ x \in 0 .. N - 1
  BY WidthAndSize
<1> HIDE DEF N
<1>2. x % N = x
  BY <1>1
<1> QED
  BY <1>2 DEF N, Wrap

\* Back by a width, through zero if need be, and forth again
LEMMA WrapBack ==
  ASSUME NEW x \in Nat, x < SizeT
  PROVE  Wrap(Wrap(x - Width) + Width) = x
<1> DEFINE N == SizeT
           W == Width
<1>1. N \in Nat \ {0} /\ x \in 0 .. N - 1 /\ W \in 1 .. N - 1
  BY WidthAndSize
<1> HIDE DEF N, W
<1>2. CASE W <= x
  <2>1. x - W \in 0 .. N - 1
    BY <1>1, <1>2
  <2>2. (x - W) % N = x - W
    BY <1>1, <2>1
  <2>3. (x - W) + W = x /\ x % N = x
    BY <1>1
  <2>4. (((x - W) % N) + W) % N = x
    BY <2>2, <2>3
  <2> QED
    BY <2>4 DEF N, W, Wrap
<1>3. CASE ~(W <= x)
  <2>1. x - W \in -N .. -1
    BY <1>1, <1>3
  <2>2. (x - W) % N = x - W + N
    BY <1>1, <2>1
  <2>3. (x - W + N) + W = x + N
    BY <1>1
  <2>4. (x + N) % N = x
    BY <1>1
  <2>5. (((x - W) % N) + W) % N = x
    BY <2>2, <2>3, <2>4
  <2> QED
    BY <2>5 DEF N, W, Wrap
<1> QED
  BY <1>2, <1>3

\* Steps of one width, and of less than one
LEMMA WidthSteps ==
  ASSUME NEW x \in Nat, x % Width = 0
  PROVE  /\ (x + Width) % Width = 0
         /\ \A d \in 1 .. Width - 1 : (x + d) % Width # 0
<1> DEFINE W == Width
<1>1. W \in Nat \ {0} /\ x % W = 0
  BY WidthAndSize
<1> HIDE DEF W
<1>2. PICK q \in Nat : x = W * q
  <2>1. x \div W \in Nat
    BY <1>1
  <2>2. x = W * (x \div W) + (x % W)
    BY <1>1
  <2>3. x = W * (x \div W)
    BY <1>1, <2>1, <2>2
  <2> QED
    BY <2>1, <2>3
<1>3. (x + W) % W = 0
  <2>1. (W * q + W) % W = 0
    BY <1>1
  <2> QED
    BY <1>2, <2>1
<1>4. ASSUME NEW d \in 1 .. W - 1 PROVE (x + d) % W # 0
  <2>1. (W * q + d) % W # 0
    BY <1>1
  <2> QED
    BY <1>2, <2>1
<1> QED
  BY <1>3, <1>4 DEF W

-----------------------------------------------------------------------------
(* The dump: the pieces of a message *)

\* A message that libcurl hands over
Message == ptr \in Seq(TraceByte) /\ Size <= MaxSize

\* A line break has both its bytes inside the message, and no two overlap.
LEMMA BreaksFacts ==
  ASSUME Message
  PROVE  /\ Size \in Nat /\ Size + Width + 2 < SizeT
         /\ Width \in Nat \ {0}
         /\ \A b \in LineBreaks : /\ b \in Nat \ {0} /\ b + 1 <= Size
                                  /\ b + 1 \notin LineBreaks
<1>1. ptr \in Seq(TraceByte) /\ Size = Len(ptr) /\ Size <= MaxSize
  BY DEF Message, Size
<1>2. Size \in Nat
  BY <1>1, SeqIsFunction
<1>3. \A b \in LineBreaks : b \in 1 .. Size - 1 /\ ptr[b] = CR /\ ptr[b + 1] = LF
  BY DEF LineBreaks
<1>4. \A b \in LineBreaks : b + 1 \notin LineBreaks
  <2>1. CR # LF
    BY DEF CR, LF
  <2> QED
    BY <1>3, <2>1, Zenon
<1>5. Width \in Nat \ {0} /\ SizeT \in Nat /\ MaxSize \in Nat /\ MaxSize + Width + 2 < SizeT
  BY WidthAndSize
<1> DEFINE S == Size
<1>6. S \in Nat /\ S <= MaxSize
  BY <1>1, <1>2
<1>7. \A b \in 1 .. S - 1 : b \in Nat \ {0} /\ b + 1 <= S
  BY <1>6
<1> HIDE DEF S
<1>8. S + Width + 2 < SizeT
  BY <1>5, <1>6
<1> QED
  BY <1>3, <1>4, <1>5, <1>6, <1>7, <1>8, Zenon DEF S

\* What the code tests is whether a line break begins at the next byte.
LEMMA CrLfAtIs ==
  ASSUME Message, NEW k \in Nat, k <= Size
  PROVE  CrLfAt(k) <=> k + 1 \in LineBreaks
<1>1. Size \in Nat /\ Size + Width + 2 < SizeT /\ Width \in Nat \ {0}
  BY BreaksFacts
<1>2. SizeT \in Nat
  BY WidthAndSize
<1> DEFINE S == Size
<1>3. S \in Nat /\ k <= S /\ S + Width + 2 < SizeT
  BY <1>1
<1> HIDE DEF S
<1>4. k < SizeT /\ k + 1 \in Nat /\ k + 1 < SizeT
  BY <1>1, <1>2, <1>3
<1>5. Wrap(k) = k /\ Wrap(k + 1) = k + 1
  BY <1>4, WrapSmall
<1>6. k + 1 \in 1 .. S - 1 <=> k + 1 < S
  BY <1>3
<1>7. CrLfAt(k) <=> k + 1 < S /\ ptr[k + 1] = CR /\ ptr[k + 1 + 1] = LF
  BY <1>5 DEF CrLfAt, S
<1> QED
  BY <1>6, <1>7, Zenon DEF LineBreaks, S

\* Where the piece begins in which position k is
LEMMA PieceStartFacts ==
  ASSUME Message, NEW k \in Nat \ {0}
  PROVE  /\ PieceStart(k) \in Nat \ {0} /\ PieceStart(k) <= k
         /\ k - 2 \in LineBreaks => PieceStart(k) = k
<1> DEFINE U == {b \in LineBreaks : b + 2 <= k}
           T == {1} \cup {b + 2 : b \in U}
<1>1. \A b \in LineBreaks : b \in Nat \ {0}
  BY BreaksFacts
<1>2. \A x \in T : x \in Nat \ {0} /\ x <= k
  BY <1>1
<1>3. PieceStart(k) = Max(T)
  BY DEF PieceStart
<1>4. T # {}
  OBVIOUS
<1>5. k - 2 \in LineBreaks => k \in T
  <2> SUFFICES ASSUME k - 2 \in LineBreaks PROVE k \in T
    OBVIOUS
  <2>1. (k - 2) + 2 = k
    OBVIOUS
  <2>2. k - 2 \in U
    BY <2>1
  <2> QED
    BY <2>1, <2>2
<1> HIDE DEF T, U
<1>6. Max(T) \in T /\ \A y \in T : y <= Max(T)
  <2>1. \A x \in T : x \in Nat /\ x <= k
    BY <1>2
  <2> QED
    BY <1>4, <2>1, MaxIsGreatest
<1>7. Max(T) \in Nat \ {0} /\ Max(T) <= k
  BY <1>2, <1>6
<1>8. k \in T => Max(T) = k
  BY <1>6, <1>7
<1> QED
  BY <1>3, <1>5, <1>7, <1>8

\* Two positions without a line break between them are in the same piece.
LEMMA SamePiece ==
  ASSUME Message, NEW k \in Nat \ {0}, NEW m \in Nat, k <= m,
         \A b \in LineBreaks : b + 2 <= m => b + 2 <= k
  PROVE  PieceStart(m) = PieceStart(k)
<1>1. \A b \in LineBreaks : b \in Nat \ {0}
  BY BreaksFacts
<1>2. \A b \in LineBreaks : b + 2 <= m <=> b + 2 <= k
  BY <1>1
<1>3. {b \in LineBreaks : b + 2 <= m} = {b \in LineBreaks : b + 2 <= k}
  BY <1>2
<1> QED
  BY <1>3 DEF PieceStart

-----------------------------------------------------------------------------
(* The dump: where lines begin and end *)

\* No line break begins at the positions from k to m.
NoBreak(k, m) == \A b \in LineBreaks : ~(k <= b /\ b <= m)

\* What makes a position the start of a line
LEMMA LineStartIs ==
  ASSUME NEW k
  PROVE  k \in LineStarts <=>
           /\ k \in 1 .. Size
           /\ \A b \in LineBreaks : k # b + 1
           /\ k \in LineBreaks => k = PieceStart(k)
           /\ (k - PieceStart(k)) % Width = 0
BY DEF LineStarts

\* What a start gives
LEMMA StartFacts ==
  ASSUME Message, NEW k \in LineStarts
  PROVE  /\ k \in Nat \ {0} /\ k <= Size
         /\ \A b \in LineBreaks : b # k - 1
         /\ PieceStart(k) \in Nat \ {0} /\ PieceStart(k) <= k
         /\ (k - PieceStart(k)) % Width = 0 /\ k - PieceStart(k) \in Nat
<1>1. /\ k \in 1 .. Size /\ \A b \in LineBreaks : k # b + 1
      /\ (k - PieceStart(k)) % Width = 0
  BY LineStartIs
<1>2. Size \in Nat /\ \A b \in LineBreaks : b \in Nat \ {0}
  BY BreaksFacts
<1>3. k \in Nat \ {0} /\ k <= Size
  BY <1>1, <1>2
<1>4. PieceStart(k) \in Nat \ {0} /\ PieceStart(k) <= k
  BY <1>3, PieceStartFacts
<1>5. k - PieceStart(k) \in Nat
  BY <1>3, <1>4
<1>6. \A b \in LineBreaks : b # k - 1
  BY <1>1, <1>2, <1>3
<1> QED
  BY <1>1, <1>3, <1>4, <1>5, <1>6

\* Behind the start of a line and before the next line break the piece is the
\* same.
LEMMA LineInPiece ==
  ASSUME Message, NEW k \in LineStarts, NEW d \in Nat, NoBreak(k, k + d - 2)
  PROVE  PieceStart(k + d) = PieceStart(k)
<1>1. k \in Nat \ {0} /\ \A b \in LineBreaks : b # k - 1
  BY StartFacts
<1>2. \A b \in LineBreaks : b \in Nat \ {0} /\ ~(k <= b /\ b <= k + d - 2)
  BY BreaksFacts DEF NoBreak
<1>3. \A b \in LineBreaks : b + 2 <= k + d => b + 2 <= k
  BY <1>1, <1>2
<1>4. k + d \in Nat /\ k <= k + d
  BY <1>1
<1> QED
  BY <1>1, <1>3, <1>4, SamePiece

\* Less than a width behind the start of a line, or at the next line break, no
\* line begins.
LEMMA NoStartInside ==
  ASSUME Message, NEW k \in LineStarts, NEW d \in Nat \ {0}, NoBreak(k, k + d - 2),
         d < Width \/ k + d \in LineBreaks
  PROVE  k + d \notin LineStarts
<1> DEFINE P == PieceStart(k)
           x == k - P
<1>1. k \in Nat \ {0} /\ P \in Nat \ {0} /\ P <= k /\ x % Width = 0 /\ x \in Nat
  BY StartFacts
<1>2. PieceStart(k + d) = P
  BY LineInPiece
<1>3. Width \in Nat \ {0}
  BY WidthAndSize
<1> HIDE DEF P
<1>4. (k + d) - P = x + d
  BY <1>1
<1> HIDE DEF x
<1>5. CASE d < Width
  <2>1. d \in 1 .. Width - 1
    BY <1>3, <1>5
  <2>2. (x + d) % Width # 0
    BY <1>1, <2>1, WidthSteps
  <2> QED
    BY <1>2, <1>4, <2>2, LineStartIs
<1>6. CASE k + d \in LineBreaks
  <2>1. k + d # P
    BY <1>1
  <2> QED
    BY <1>2, <1>6, <2>1, LineStartIs
<1> QED
  BY <1>5, <1>6

\* A full line is followed by another one in the same piece.
LEMMA StartAfterFullLine ==
  ASSUME Message, NEW k \in LineStarts, k + Width <= Size, NoBreak(k, k + Width)
  PROVE  k + Width \in LineStarts
<1> DEFINE P == PieceStart(k)
           x == k - P
           W == Width
           S == Size
           m == k + W
<1>1. k \in Nat \ {0} /\ P \in Nat \ {0} /\ P <= k /\ x % W = 0 /\ x \in Nat
  BY StartFacts
<1>2. W \in Nat \ {0} /\ S \in Nat /\ \A b \in LineBreaks : b \in Nat \ {0}
  BY BreaksFacts
<1>3. \A b \in LineBreaks : ~(k <= b /\ b <= k + W)
  BY DEF NoBreak
<1>4. PieceStart(m) = P
  <2>1. NoBreak(k, k + W - 2)
    <3> HIDE DEF W
    <3> QED
      BY <1>1, <1>2, <1>3 DEF NoBreak
  <2> QED
    BY <1>2, <2>1, LineInPiece
<1>5. (x + W) % W = 0
  BY <1>1, WidthSteps
<1>6. m - P = x + W
  <2> HIDE DEF P, W
  <2> QED
    BY <1>1, <1>2
<1>7. m \in 1 .. S /\ \A b \in LineBreaks : m # b + 1 /\ m # b
  <2> HIDE DEF W, S, P
  <2>1. k + W <= S
    BY DEF W, S
  <2> QED
    BY <1>1, <1>2, <1>3, <2>1
<1> HIDE DEF m, P, x
<1>8. (m - PieceStart(m)) % Width = 0
  BY <1>4, <1>5, <1>6
<1>9. m \in LineStarts
  BY <1>7, <1>8, LineStartIs
<1> QED
  BY <1>9 DEF m

\* Behind a line break a line begins, and not between its two bytes.
LEMMA StartAfterBreak ==
  ASSUME Message, NEW b \in LineBreaks
  PROVE  /\ b + 1 \notin LineStarts
         /\ b + 2 <= Size => b + 2 \in LineStarts
<1> DEFINE m == b + 2
<1>1. b \in Nat \ {0} /\ b + 1 \notin LineBreaks /\ \A e \in LineBreaks : e \in Nat \ {0}
  BY BreaksFacts
<1>2. Size \in Nat /\ Width \in Nat \ {0}
  BY BreaksFacts
<1>3. b + 1 \notin LineStarts
  BY LineStartIs
<1>4. m \in Nat \ {0} /\ m - 2 \in LineBreaks
  <2>1. m - 2 = b
    BY <1>1
  <2> QED
    BY <1>1, <2>1
<1>5. \A e \in LineBreaks : m # e + 1
  BY <1>1
<1> HIDE DEF m
<1>6. PieceStart(m) = m
  BY <1>4, PieceStartFacts
<1>7. (m - PieceStart(m)) % Width = 0
  <2>1. m - PieceStart(m) = 0
    BY <1>4, <1>6
  <2>2. 0 % Width = 0
    BY <1>2
  <2> QED
    BY <2>1, <2>2
<1>8. m <= Size => m \in 1 .. Size
  BY <1>2, <1>4
<1>9. m <= Size => m \in LineStarts
  BY <1>5, <1>6, <1>7, <1>8, LineStartIs
<1> QED
  BY <1>3, <1>9 DEF m

\* Where the piece ends
LEMMA PieceEndFacts ==
  ASSUME Message, NEW k \in Nat \ {0}, k <= Size
  PROVE  /\ PieceEnd(k) \in Nat /\ PieceEnd(k) <= Size
         /\ \A b \in LineBreaks : b >= k => PieceEnd(k) <= b - 1
         /\ PieceEnd(k) = Size \/ (PieceEnd(k) + 1 \in LineBreaks /\ PieceEnd(k) + 1 >= k)
<1> DEFINE U == {b \in LineBreaks : b >= k}
           T == {Size} \cup {b - 1 : b \in U}
<1>1. Size \in Nat /\ \A b \in LineBreaks : b \in Nat \ {0}
  BY BreaksFacts
<1>2. PieceEnd(k) = Min(T)
  BY DEF PieceEnd
<1>3. T \subseteq Nat /\ T # {}
  BY <1>1
<1>4. \A x \in T : x = Size \/ (x + 1 \in LineBreaks /\ x + 1 >= k)
  <2>1. ASSUME NEW b \in U PROVE (b - 1) + 1 \in LineBreaks /\ (b - 1) + 1 >= k
    <3>1. (b - 1) + 1 = b
      BY <1>1
    <3> QED
      BY <3>1
  <2> QED
    BY <2>1
<1>5. Size \in T /\ \A b \in LineBreaks : b >= k => b - 1 \in T
  OBVIOUS
<1> HIDE DEF T
<1>6. Min(T) \in T /\ \A y \in T : Min(T) <= y
  BY <1>3, MinIsLeast
<1>7. Min(T) \in Nat
  BY <1>3, <1>6
<1> QED
  BY <1>2, <1>4, <1>5, <1>6, <1>7, Zenon

\* The last position of the line that begins at k, and what is shown of it
LineEnd(k) == Min({PieceEnd(k), k + Width - 1})
LineAt(k) == [j \in 1 .. LineEnd(k) - k + 1 |-> Shown(ptr[k + j - 1])]

\* The line ends at position e if no line break begins before and one follows,
\* or the message ends, or the line is full.
LEMMA LineEndIs ==
  ASSUME Message, NEW k \in LineStarts, NEW e \in Nat, e <= Size, e <= k + Width - 1,
         NoBreak(k, e), k <= e + 1,
         e + 1 \in LineBreaks \/ e = Size \/ e = k + Width - 1
  PROVE  LineEnd(k) = e
<1> DEFINE E == PieceEnd(k)
           F == k + Width - 1
           S == Size
<1>1. k \in Nat \ {0} /\ k <= S
  BY StartFacts
<1>2. /\ E \in Nat /\ E <= S /\ (\A b \in LineBreaks : b >= k => E <= b - 1)
      /\ E = S \/ (E + 1 \in LineBreaks /\ E + 1 >= k)
  BY <1>1, PieceEndFacts
<1>3. S \in Nat /\ Width \in Nat \ {0} /\ F \in Nat
  <2>1. S \in Nat /\ Width \in Nat \ {0}
    BY BreaksFacts
  <2> QED
    BY <1>1, <2>1
<1>4. \A b \in LineBreaks : ~(k <= b /\ b <= e)
  BY DEF NoBreak
<1>5. e <= S /\ e <= F /\ (e + 1 \in LineBreaks \/ e = S \/ e = F)
  OBVIOUS
<1> HIDE DEF E, F, S
<1>6. e <= E
  <2>1. CASE E = S
    BY <1>5, <2>1
  <2>2. CASE E + 1 \in LineBreaks /\ E + 1 >= k
    <3>1. ~(k <= E + 1 /\ E + 1 <= e)
      BY <1>4, <2>2
    <3> QED
      BY <1>1, <1>2, <2>2, <3>1
  <2> QED
    BY <1>2, <2>1, <2>2
<1>7. E = e \/ F = e
  <2>1. CASE e + 1 \in LineBreaks
    <3>1. e + 1 >= k
      BY <1>1
    <3>2. E <= (e + 1) - 1
      BY <1>2, <2>1, <3>1
    <3> QED
      BY <1>2, <1>6, <3>2
  <2>2. CASE e = S
    BY <1>2, <1>3, <1>6, <2>2
  <2>3. CASE e = F
    BY <2>3
  <2> QED
    BY <1>5, <2>1, <2>2, <2>3
<1>8. Min({E, F}) \in {E, F} /\ Min({E, F}) <= E /\ Min({E, F}) <= F
  <2> DEFINE T == {E, F}
  <2>1. T \subseteq Nat /\ T # {} /\ E \in T /\ F \in T
    BY <1>2, <1>3
  <2> HIDE DEF T
  <2>2. Min(T) \in T /\ \A y \in T : Min(T) <= y
    BY <2>1, MinIsLeast
  <2>3. Min(T) \in T /\ Min(T) <= E /\ Min(T) <= F
    BY <2>1, <2>2
  <2> QED
    BY <2>3 DEF T
<1> DEFINE M == Min({E, F})
<1>9. M \in {E, F} /\ M <= E /\ M <= F
  BY <1>8
<1>10. M = LineEnd(k)
  BY DEF LineEnd, E, F
<1> HIDE DEF M
<1>11. M = e
  BY <1>2, <1>3, <1>5, <1>6, <1>7, <1>9
<1> QED
  BY <1>10, <1>11

\* A line with the right length and bytes is the line of the definition.
LEMMA LineIs ==
  ASSUME NEW k \in Nat, NEW line \in Seq(32 .. 255), NEW n \in Nat, Len(line) = n,
         LineEnd(k) - k + 1 = n,
         \A j \in 1 .. n : line[j] = Shown(ptr[k + j - 1])
  PROVE  line = LineAt(k)
<1>1. LineAt(k) = [j \in 1 .. n |-> Shown(ptr[k + j - 1])]
  BY DEF LineAt
<1>2. line = [j \in 1 .. n |-> line[j]]
  BY SeqIsFunction
<1> QED
  BY <1>1, <1>2

-----------------------------------------------------------------------------
(* The dump: counting the lines *)

\* The starts up to position k, whose number is the number of the line there
StartsUpTo(k) == {l \in LineStarts : l <= k}

\* There are finitely many.
LEMMA StartsFinite ==
  ASSUME Message, NEW k
  PROVE  IsFiniteSet(StartsUpTo(k)) /\ Cardinality(StartsUpTo(k)) \in Nat
<1>1. Size \in Nat /\ 1 \in Int
  BY BreaksFacts
<1>2. IsFiniteSet(1 .. Size)
  BY <1>1, FS_Interval
<1>3. StartsUpTo(k) \subseteq 1 .. Size
  BY LineStartIs DEF StartsUpTo
<1>4. IsFiniteSet(StartsUpTo(k))
  BY <1>2, <1>3, FS_Subset
<1> QED
  BY <1>4, FS_CardinalityType

\* The line that begins at m + 1 is the next one, up to any position before the
\* line behind it.
LEMMA NextCount ==
  ASSUME Message, NEW m \in Nat, m + 1 \in LineStarts, NEW e \in Nat, m + 1 <= e,
         \A p \in LineStarts : p <= e => p <= m + 1
  PROVE  /\ StartsUpTo(e) = StartsUpTo(m + 1)
         /\ StartsUpTo(m) \subseteq StartsUpTo(e) /\ m + 1 \in StartsUpTo(e)
         /\ Cardinality(StartsUpTo(e)) = Cardinality(StartsUpTo(m)) + 1
<1>1. \A p \in LineStarts : p \in Nat
  BY StartFacts
<1>2. \A p \in LineStarts : /\ p <= e <=> p <= m + 1
                            /\ p <= m + 1 <=> p <= m \/ p = m + 1
                            /\ p <= m => p <= e
  BY <1>1
<1>3. StartsUpTo(e) = StartsUpTo(m + 1)
  BY <1>2 DEF StartsUpTo
<1>4. StartsUpTo(m + 1) = StartsUpTo(m) \cup {m + 1}
  BY <1>2 DEF StartsUpTo
<1>5. m + 1 \notin StartsUpTo(m)
  BY DEF StartsUpTo
<1>6. IsFiniteSet(StartsUpTo(m))
  BY StartsFinite
<1> DEFINE T == StartsUpTo(m)
           x == m + 1
<1>7. IsFiniteSet(T) /\ x \notin T /\ StartsUpTo(e) = T \cup {x}
  BY <1>3, <1>4, <1>5, <1>6
<1> HIDE DEF T, x
<1>8. Cardinality(T \cup {x}) = Cardinality(T) + 1
  BY <1>7, FS_AddElement
<1>9. Cardinality(StartsUpTo(e)) = Cardinality(T) + 1 /\ T \subseteq StartsUpTo(e) /\ x \in StartsUpTo(e)
  BY <1>7, <1>8
<1> QED
  BY <1>3, <1>9 DEF T, x

\* Two lines have different numbers.
LEMMA CountGrows ==
  ASSUME Message, NEW k \in LineStarts, NEW l \in LineStarts, k < l
  PROVE  Cardinality(StartsUpTo(k)) < Cardinality(StartsUpTo(l))
<1> DEFINE T == StartsUpTo(k)
           U == StartsUpTo(l)
<1>1. \A p \in LineStarts : p \in Nat
  BY StartFacts
<1>2. l \in U /\ l \notin T /\ T \cup {l} \subseteq U
  BY <1>1 DEF StartsUpTo
<1>3. IsFiniteSet(T) /\ IsFiniteSet(U) /\ Cardinality(T) \in Nat /\ Cardinality(U) \in Nat
  BY StartsFinite
<1> HIDE DEF T, U
<1>4. Cardinality(T \cup {l}) = Cardinality(T) + 1
  BY <1>2, <1>3, FS_AddElement
<1>5. Cardinality(T \cup {l}) <= Cardinality(U)
  BY <1>2, <1>3, FS_Subset
<1>6. Cardinality(T) < Cardinality(U)
  BY <1>3, <1>4, <1>5
<1> QED
  BY <1>6 DEF T, U

\* The line with a given number
LEMMA LineOfNumber ==
  ASSUME Message, NEW k \in LineStarts
  PROVE  (CHOOSE l \in LineStarts : Cardinality(StartsUpTo(l)) = Cardinality(StartsUpTo(k))) = k
<1> DEFINE C(l) == Cardinality(StartsUpTo(l))
           z == CHOOSE l \in LineStarts : C(l) = C(k)
<1>1. z \in LineStarts /\ C(z) = C(k)
  OBVIOUS
<1>2. k \in Nat /\ z \in Nat
  BY <1>1, StartFacts
<1>3. C(k) \in Nat
  BY StartsFinite
<1> HIDE DEF z, C
<1>4. ~(z < k) /\ ~(k < z)
  <2>1. z < k => C(z) < C(k)
    BY <1>1, CountGrows DEF C
  <2>2. k < z => C(k) < C(z)
    BY <1>1, CountGrows DEF C
  <2> QED
    BY <1>1, <1>3, <2>1, <2>2
<1>5. z = k
  BY <1>2, <1>4
<1> QED
  BY <1>5 DEF z, C

-----------------------------------------------------------------------------
(* The dump: the inductive invariant *)

\* The lines that begin before i, in their order, have been shown.
LinesShown ==
  /\ Len(lines) = Cardinality(StartsUpTo(i))
  /\ \A n \in 1 .. Len(lines) :
       \E k \in StartsUpTo(i) :
         Cardinality(StartsUpTo(k)) = n /\ lines[n] = LineAt(k)

\* A line begins behind i, and msg has its first c bytes.
LineSoFar ==
  /\ i + 1 \in LineStarts /\ i + c <= Size /\ Len(msg) = c
  /\ \A j \in 1 .. c : msg[j] = Shown(ptr[i + j]) /\ i + j \notin LineBreaks
  /\ c > 0 => i + c + 1 \notin LineBreaks

\* What is true between any two steps of the dump
DumpInv ==
  /\ DumpTypeOK /\ Size <= MaxSize /\ lines \in Seq(Seq(32 .. 255))
  /\ dump \in {"line", "char"} => LinesShown
  /\ dump = "line" /\ i < Size => i + 1 \in LineStarts
  /\ dump = "char" => LineSoFar
  /\ dump = "done" => lines = DumpReference

\* The message does not change during a dump, and so neither do its lines.
LEMMA SameMessage ==
  ASSUME ptr' = ptr
  PROVE  /\ Size' = Size /\ LineBreaks' = LineBreaks /\ LineStarts' = LineStarts
         /\ \A k : LineAt(k)' = LineAt(k) /\ StartsUpTo(k)' = StartsUpTo(k)
         /\ DumpReference' = DumpReference
<1>1. Size' = Size
  BY DEF Size
<1>2. LineBreaks' = LineBreaks
  BY <1>1 DEF LineBreaks
<1>3. \A k : PieceStart(k)' = PieceStart(k) /\ PieceEnd(k)' = PieceEnd(k)
  BY <1>1, <1>2 DEF PieceStart, PieceEnd
<1>4. LineStarts' = LineStarts
  BY <1>1, <1>2, <1>3 DEF LineStarts
<1>5. \A k : LineEnd(k)' = LineEnd(k)
  BY <1>3 DEF LineEnd
<1>6. \A k : LineAt(k)' = LineAt(k)
  BY <1>5 DEF LineAt
<1>7. \A k : StartsUpTo(k)' = StartsUpTo(k)
  BY <1>4 DEF StartsUpTo
<1>8. DumpReference' = DumpReference
  <2> DEFINE breaks(p) == {k \in 1 .. Len(p) - 1 : p[k] = CR /\ p[k + 1] = LF}
             start(p, k) == Max({1} \cup {b + 2 : b \in {b \in breaks(p) : b + 2 <= k}})
             finish(p, k) == Min({Len(p)} \cup {b - 1 : b \in {b \in breaks(p) : b >= k}})
             starts(p) == {k \in 1 .. Len(p) : /\ \A b \in breaks(p) : k # b + 1
                                               /\ k \in breaks(p) => k = start(p, k)
                                               /\ (k - start(p, k)) % Width = 0}
             shown(p) ==
               [n \in 1 .. Cardinality(starts(p)) |->
                  LET k == CHOOSE k \in starts(p) :
                             Cardinality({l \in starts(p) : l <= k}) = n
                      end == Min({finish(p, k), k + Width - 1}) IN
                  [j \in 1 .. end - k + 1 |-> Shown(p[k + j - 1])]]
  <2>1. DumpReference = shown(ptr)
    BY Zenon DEF DumpReference, LineStarts, LineBreaks, PieceStart, PieceEnd, Size
  <2>2. DumpReference' = shown(ptr')
    BY Zenon DEF DumpReference, LineStarts, LineBreaks, PieceStart, PieceEnd, Size
  <2> HIDE DEF shown
  <2> QED
    BY <2>1, <2>2
<1> QED
  BY <1>1, <1>2, <1>4, <1>6, <1>7, <1>8

\* All lines have been shown: the window shows the message as defined.
LEMMA AllLinesShown ==
  ASSUME Message, lines \in Seq(Seq(32 .. 255)), LinesShown, i \in Nat, ~(i < Size)
  PROVE  lines = DumpReference
<1> DEFINE C(l) == Cardinality(StartsUpTo(l))
           N == Cardinality(LineStarts)
<1>1. StartsUpTo(i) = LineStarts
  <2>1. Size \in Nat /\ \A p \in LineStarts : p \in Nat /\ p <= Size
    BY BreaksFacts, StartFacts
  <2>2. \A p \in LineStarts : p <= i
    BY <2>1
  <2> QED
    BY <2>2 DEF StartsUpTo
<1>2. Len(lines) = N
  BY <1>1 DEF LinesShown
<1>3. lines = [n \in 1 .. N |-> lines[n]]
  BY <1>2, SeqIsFunction
<1>4. DumpReference = [n \in 1 .. N |-> LineAt(CHOOSE k \in LineStarts : C(k) = n)]
  BY DEF DumpReference, LineAt, LineEnd, StartsUpTo
<1>5. ASSUME NEW n \in 1 .. N
      PROVE  lines[n] = LineAt(CHOOSE k \in LineStarts : C(k) = n)
  <2>1. PICK k \in LineStarts : C(k) = n /\ lines[n] = LineAt(k)
    BY <1>1, <1>2 DEF LinesShown
  <2>2. (CHOOSE l \in LineStarts : C(l) = C(k)) = k
    BY LineOfNumber
  <2> HIDE DEF C
  <2> QED
    BY <2>1, <2>2, Zenon
<1> HIDE DEF N, C
<1> QED
  BY <1>3, <1>4, <1>5

-----------------------------------------------------------------------------
(* The dump: every step keeps the invariant *)

\* What is shown of a byte is a printable character.
LEMMA ShownIsPrintable ==
  ASSUME Message, NEW k \in 1 .. Size
  PROVE  Shown(ptr[k]) \in 32 .. 255
<1>1. ptr[k] \in TraceByte
  BY SeqIsFunction DEF Message, Size
<1>2. ptr[k] \in 0 .. 255
  BY <1>1, TraceBytesAreBytes
<1> DEFINE b == ptr[k]
<1> HIDE DEF b
<1>3. b \in 0 .. 255
  BY <1>2 DEF b
<1>4. Shown(b) \in 32 .. 255
  BY <1>3 DEF Shown, Dot
<1> QED
  BY <1>4 DEF b

\* What the invariant gives in every round of the inner loop
LEMMA CharFacts ==
  ASSUME DumpInv, dump = "char"
  PROVE  /\ Message /\ i \in Nat /\ c \in Nat /\ c <= Width /\ msg \in Seq(32 .. 255)
         /\ lines \in Seq(Seq(32 .. 255)) /\ LinesShown
         /\ i + 1 \in LineStarts /\ i + 1 <= Size /\ i + c <= Size /\ Len(msg) = c
         /\ NoBreak(i + 1, i + c) /\ (c > 0 => i + c + 1 \notin LineBreaks)
         /\ \A j \in 1 .. c : msg[j] = Shown(ptr[(i + 1) + j - 1])
         /\ Wrap(i + c) = i + c
         /\ CrLfAt(i + c) <=> i + c + 1 \in LineBreaks
         /\ i + c < Size => (CrLfAt(i + c + 1) <=> i + c + 2 \in LineBreaks)
<1>1. Message
  BY DEF DumpInv, DumpTypeOK, Message
<1>2. i \in 0 .. SizeT - 1 /\ c \in 0 .. Width /\ msg \in Seq(32 .. 255)
  BY DEF DumpInv, DumpTypeOK
<1>3. lines \in Seq(Seq(32 .. 255)) /\ LinesShown /\ LineSoFar
  BY Zenon DEF DumpInv
<1>4. Size \in Nat /\ Size + Width + 2 < SizeT /\ Width \in Nat \ {0} /\ SizeT \in Nat
  BY <1>1, BreaksFacts, WidthAndSize
<1>5. i \in Nat /\ c \in Nat /\ c <= Width
  BY <1>2, <1>4
<1>6. /\ i + 1 \in LineStarts /\ i + c <= Size /\ Len(msg) = c
      /\ \A j \in 1 .. c : msg[j] = Shown(ptr[i + j]) /\ i + j \notin LineBreaks
      /\ c > 0 => i + c + 1 \notin LineBreaks
  BY <1>3 DEF LineSoFar
<1>7. i + 1 <= Size
  BY <1>1, <1>6, StartFacts
<1>8. NoBreak(i + 1, i + c)
  <2>1. ASSUME NEW b \in LineBreaks, i + 1 <= b, b <= i + c PROVE FALSE
    <3> DEFINE j == b - i
    <3>1. b \in Nat
      BY <1>1, BreaksFacts
    <3>2. j \in 1 .. c /\ i + j = b
      BY <1>5, <2>1, <3>1
    <3> HIDE DEF j
    <3> QED
      BY <1>6, <3>2
  <2> QED
    BY <2>1 DEF NoBreak
<1>9. \A j \in 1 .. c : msg[j] = Shown(ptr[(i + 1) + j - 1])
  <2>1. \A j \in 1 .. c : (i + 1) + j - 1 = i + j
    BY <1>5
  <2> QED
    BY <1>6, <2>1
<1> DEFINE p == i + c
           S == Size
<1>10. p \in Nat /\ p <= S /\ p < SizeT
  BY <1>4, <1>5, <1>6
<1>11. p + 1 = i + c + 1 /\ p + 1 + 1 = i + c + 2 /\ p + 1 \in Nat
  BY <1>5
<1>12. S \in Nat
  BY <1>4
<1> HIDE DEF p, S
<1>13. p < S => p + 1 <= S
  BY <1>10, <1>12
<1>14. Wrap(p) = p
  BY <1>10, WrapSmall
<1>15. CrLfAt(p) <=> p + 1 \in LineBreaks
  BY <1>1, <1>10, CrLfAtIs DEF S
<1>16. p < S => (CrLfAt(p + 1) <=> p + 1 + 1 \in LineBreaks)
  BY <1>1, <1>11, <1>13, CrLfAtIs DEF S
<1>17. /\ Wrap(i + c) = i + c /\ (CrLfAt(i + c) <=> i + c + 1 \in LineBreaks)
       /\ i + c < Size => (CrLfAt(i + c + 1) <=> i + c + 2 \in LineBreaks)
  BY <1>11, <1>14, <1>15, <1>16 DEF p, S
<1> QED
  BY <1>1, <1>2, <1>3, <1>5, <1>6, <1>7, <1>8, <1>9, <1>17

\* A line is shown as it is defined, and i moves to the next one.
LEMMA LineShownStep ==
  ASSUME DumpInv, dump = "char",
         NEW line \in Seq(32 .. 255), line = LineAt(i + 1), NEW at, ShowLine(line, at),
         NEW e \in Nat, i' = e, e < SizeT, i + 1 <= e,
         \A p \in LineStarts : p <= e => p <= i + 1,
         e < Size => e + 1 \in LineStarts
  PROVE  DumpInv'
<1>1. /\ lines' = Append(lines, line) /\ dump' = "line" /\ msg' = line
      /\ ptr' = ptr /\ c' = c
  BY DEF ShowLine
<1>2. /\ Message /\ i \in Nat /\ lines \in Seq(Seq(32 .. 255)) /\ LinesShown
      /\ i + 1 \in LineStarts
  BY CharFacts
<1>3. /\ Size' = Size /\ LineStarts' = LineStarts
      /\ \A k : LineAt(k)' = LineAt(k) /\ StartsUpTo(k)' = StartsUpTo(k)
  BY <1>1, SameMessage
<1>4. /\ StartsUpTo(e) = StartsUpTo(i + 1)
      /\ StartsUpTo(i) \subseteq StartsUpTo(e) /\ i + 1 \in StartsUpTo(e)
      /\ Cardinality(StartsUpTo(e)) = Cardinality(StartsUpTo(i)) + 1
  BY <1>2, NextCount
<1>5. /\ lines' \in Seq(Seq(32 .. 255)) /\ Len(lines') = Len(lines) + 1
      /\ \A n \in 1 .. Len(lines) : lines'[n] = lines[n]
      /\ lines'[Len(lines) + 1] = line
  <2> DEFINE T == Seq(32 .. 255)
  <2>1. lines \in Seq(T) /\ line \in T
    BY <1>2
  <2> HIDE DEF T
  <2>2. /\ Append(lines, line) \in Seq(T) /\ Len(Append(lines, line)) = Len(lines) + 1
        /\ \A n \in 1 .. Len(lines) : Append(lines, line)[n] = lines[n]
        /\ Append(lines, line)[Len(lines) + 1] = line
    BY <2>1, LongerSeq
  <2> QED
    BY <1>1, <2>2 DEF T
<1>6. /\ Len(lines) = Cardinality(StartsUpTo(i)) /\ Len(lines) \in Nat
      /\ \A n \in 1 .. Len(lines) :
           \E k \in StartsUpTo(i) :
             Cardinality(StartsUpTo(k)) = n /\ lines[n] = LineAt(k)
  <2>1. Cardinality(StartsUpTo(i)) \in Nat
    BY <1>2, StartsFinite
  <2> QED
    BY <1>2, <2>1 DEF LinesShown
<1>7. ASSUME NEW n \in 1 .. Len(lines')
      PROVE  \E k \in StartsUpTo(e) :
               Cardinality(StartsUpTo(k)) = n /\ lines'[n] = LineAt(k)
  <2>1. n \in 1 .. Len(lines) \/ n = Len(lines) + 1
    BY <1>5, <1>6
  <2>2. CASE n \in 1 .. Len(lines)
    BY <1>4, <1>5, <1>6, <2>2, Zenon
  <2>3. CASE n = Len(lines) + 1
    <3>1. Cardinality(StartsUpTo(i + 1)) = n
      BY <1>4, <1>6, <2>3, Zenon
    <3>2. lines'[n] = LineAt(i + 1)
      BY <1>5, <2>3
    <3> QED
      BY <1>4, <3>1, <3>2, Zenon
  <2> QED
    BY <2>1, <2>2, <2>3
<1>8. LinesShown'
  <2>1. Len(lines') = Cardinality(StartsUpTo(e))
    BY <1>4, <1>5, <1>6, Zenon
  <2>2. StartsUpTo(i)' = StartsUpTo(e)
    BY <1>3 DEF StartsUpTo
  <2> QED
    BY <1>3, <1>7, <2>1, <2>2, Zenon DEF LinesShown
<1>9. DumpTypeOK' /\ Size' <= MaxSize
  <2>1. /\ ptr \in Seq(TraceByte) /\ c \in 0 .. Width /\ Size <= MaxSize
    BY DEF DumpInv, DumpTypeOK
  <2>2. i' \in 0 .. SizeT - 1
    BY WidthAndSize
  <2>3. \A n \in DOMAIN lines' : lines'[n] \in Seq(32 .. 255)
    <3> DEFINE T == Seq(32 .. 255)
    <3> HIDE DEF T
    <3>1. lines' \in Seq(T)
      BY <1>5 DEF T
    <3>2. \A n \in DOMAIN lines' : lines'[n] \in T
      BY <3>1, SeqIsFunction
    <3> QED
      BY <3>2 DEF T
  <2> QED
    BY <1>1, <1>3, <2>1, <2>2, <2>3 DEF DumpTypeOK
<1>10. dump' = "line" /\ i' < Size' => i' + 1 \in LineStarts'
  BY <1>3
<1> QED
  BY <1>1, <1>5, <1>8, <1>9, <1>10, Zenon DEF DumpInv

\* The line is full or the message ends: the line is the one defined, and the
\* next one, if any, begins one width further on.
LEMMA LineFullStep ==
  ASSUME DumpInv, LineFull
  PROVE  DumpInv' /\ i' = i + Width /\ c > 0
<1> DEFINE k == i + 1
           e == i + Width
           S == Size
           W == Width
<1>1. dump = "char" /\ ~(c < W /\ Wrap(i + c) < S) /\ ShowLine(msg, i)
  BY DEF LineFull
<1>2. /\ Message /\ i \in Nat /\ c \in Nat /\ c <= W /\ msg \in Seq(32 .. 255)
      /\ k \in LineStarts /\ i + 1 <= S /\ i + c <= S /\ Len(msg) = c
      /\ NoBreak(k, i + c) /\ (c > 0 => i + c + 1 \notin LineBreaks)
      /\ \A j \in 1 .. c : msg[j] = Shown(ptr[k + j - 1])
      /\ Wrap(i + c) = i + c
  BY <1>1, CharFacts
<1>3. /\ S \in Nat /\ S + W + 2 < SizeT /\ W \in Nat \ {0}
      /\ \A b \in LineBreaks : b \in Nat \ {0} /\ b + 1 <= S
  BY <1>2, BreaksFacts
<1>4. SizeT \in Nat
  BY WidthAndSize
<1>5. c = W \/ i + c = S
  BY <1>1, <1>2, <1>3
<1>6. c > 0 /\ i + c + 1 \notin LineBreaks
  BY <1>2, <1>3, <1>5
<1>7. NoBreak(k, i + c + 1)
  <2>1. \A b \in LineBreaks : b \in Nat /\ ~(k <= b /\ b <= i + c) /\ b # i + c + 1
    BY <1>2, <1>3, <1>6 DEF NoBreak
  <2>2. \A b \in Nat : b <= i + c + 1 /\ b # i + c + 1 => b <= i + c
    BY <1>2
  <2> QED
    BY <2>1, <2>2, Zenon DEF NoBreak
<1>8. LineEnd(k) = i + c
  <2> DEFINE m == i + c
  <2>1. m \in Nat /\ m <= S /\ m <= k + W - 1 /\ k <= m + 1 /\ (m = S \/ m = k + W - 1)
    BY <1>2, <1>3, <1>5
  <2>2. NoBreak(k, m)
    BY <1>2
  <2> HIDE DEF m, k
  <2>3. LineEnd(k) = m
    BY <1>2, <2>1, <2>2, LineEndIs
  <2> QED
    BY <2>3 DEF m
<1>9. msg = LineAt(k)
  <2>1. LineEnd(k) - k + 1 = c /\ k \in Nat
    BY <1>2, <1>8
  <2> HIDE DEF k
  <2> QED
    BY <1>2, <2>1, LineIs
<1>10. i' = e /\ e \in Nat /\ e < SizeT /\ i + 1 <= e
  <2>1. e \in Nat /\ e < SizeT /\ i + 1 <= e
    BY <1>2, <1>3, <1>4
  <2>2. i' = Wrap(e)
    BY <1>1 DEF ShowLine
  <2>3. Wrap(e) = e
    BY <2>1, WrapSmall
  <2> QED
    BY <2>1, <2>2, <2>3
<1>11. \A p \in LineStarts : p <= e => p <= i + 1
  <2>1. ASSUME NEW p \in LineStarts, p <= e, ~(p <= i + 1) PROVE FALSE
    <3> DEFINE d == p - k
    <3>1. p \in Nat /\ p <= S
      BY <1>2, StartFacts
    <3>2. d \in Nat \ {0} /\ d < W /\ k + d = p /\ p - 2 <= i + c
      BY <1>2, <1>3, <1>5, <2>1, <3>1
    <3>3. NoBreak(k, k + d - 2)
      <4>1. k + d - 2 = p - 2 /\ p - 2 <= i + c /\ p - 2 \in Int /\ i + c \in Int
        BY <1>2, <3>1, <3>2
      <4> QED
        BY <1>2, <1>3, <4>1 DEF NoBreak
    <3> HIDE DEF d, k
    <3>4. k + d \notin LineStarts
      BY <1>2, <3>2, <3>3, NoStartInside
    <3> QED
      BY <2>1, <3>2, <3>4
  <2> QED
    BY <2>1
<1>12. e < S => e + 1 \in LineStarts
  <2> SUFFICES ASSUME e < S PROVE e + 1 \in LineStarts
    OBVIOUS
  <2>1. c = W /\ e + 1 = k + W /\ k + W <= S /\ i + c + 1 = k + W
    BY <1>2, <1>3, <1>5
  <2>2. NoBreak(k, k + W)
    BY <1>7, <2>1
  <2> HIDE DEF k
  <2> QED
    BY <1>2, <2>1, <2>2, StartAfterFullLine
<1>13. i' = i + Width
  BY <1>10
<1> HIDE DEF e
<1>14. DumpInv'
  BY <1>1, <1>2, <1>9, <1>10, <1>11, <1>12, LineShownStep
<1> QED
  BY <1>6, <1>13, <1>14

\* A line break at the start of a line: the line is empty, and the next one
\* begins behind the break.
LEMMA BreakBeforeStep ==
  ASSUME DumpInv, BreakBefore
  PROVE  DumpInv' /\ c = 0 /\ i' = i + 2 /\ i + 2 <= Size
<1> DEFINE k == i + 1
           e == i + 2
           S == Size
           W == Width
           at == Wrap(i + c + 2 - W)
<1>1. dump = "char" /\ c < W /\ Wrap(i + c) < S /\ CrLfAt(i + c) /\ ShowLine(msg, at)
  BY DEF BreakBefore
<1>2. /\ Message /\ i \in Nat /\ c \in Nat /\ c <= W /\ msg \in Seq(32 .. 255)
      /\ k \in LineStarts /\ i + 1 <= S /\ i + c <= S /\ Len(msg) = c
      /\ NoBreak(k, i + c) /\ (c > 0 => i + c + 1 \notin LineBreaks)
      /\ \A j \in 1 .. c : msg[j] = Shown(ptr[k + j - 1])
      /\ CrLfAt(i + c) <=> i + c + 1 \in LineBreaks
  BY <1>1, CharFacts
<1>3. /\ S \in Nat /\ S + W + 2 < SizeT /\ W \in Nat \ {0} /\ SizeT \in Nat
      /\ \A b \in LineBreaks : b \in Nat \ {0} /\ b + 1 <= S
  BY <1>2, BreaksFacts, WidthAndSize
<1>4. c = 0 /\ k \in LineBreaks /\ i + c + 2 - W = e - W
  <2>1. c = 0
    BY <1>1, <1>2
  <2>2. i + c + 1 = k /\ i + c + 2 - W = e - W
    BY <1>2, <1>3, <2>1
  <2> QED
    BY <1>1, <1>2, <2>1, <2>2
<1>5. LineEnd(k) = i
  <2>1. i <= S /\ i <= k + W - 1 /\ k <= i + 1 /\ i + 1 \in LineBreaks
    BY <1>2, <1>3, <1>4
  <2>2. NoBreak(k, i)
    BY <1>2, <1>3 DEF NoBreak
  <2> HIDE DEF k
  <2> QED
    BY <1>2, <2>1, <2>2, LineEndIs
<1>6. msg = LineAt(k)
  <2>1. LineEnd(k) - k + 1 = c /\ k \in Nat
    BY <1>2, <1>4, <1>5
  <2> HIDE DEF k
  <2> QED
    BY <1>2, <2>1, LineIs
<1>7. i' = e /\ e \in Nat /\ e < SizeT /\ i + 1 <= e
  <2>1. e \in Nat /\ e < SizeT /\ i + 1 <= e
    BY <1>2, <1>3
  <2>2. i' = Wrap(at + W) /\ at = Wrap(e - W)
    BY <1>1, <1>4 DEF ShowLine
  <2> HIDE DEF e, at
  <2>3. Wrap(Wrap(e - W) + W) = e
    BY <2>1, WrapBack
  <2> QED
    BY <2>1, <2>2, <2>3
<1>8. k + 1 \notin LineStarts /\ (k + 2 <= S => k + 2 \in LineStarts)
  BY <1>2, <1>4, StartAfterBreak
<1>9. \A p \in LineStarts : p <= e => p <= i + 1
  <2>1. \A p \in LineStarts : p \in Nat
    BY <1>2, StartFacts
  <2>2. \A p \in Nat : p <= e /\ p # k + 1 => p <= i + 1
    BY <1>2
  <2> QED
    BY <1>8, <2>1, <2>2
<1>10. e < S => e + 1 \in LineStarts
  <2>1. e + 1 = k + 2 /\ (e < S => k + 2 <= S)
    BY <1>2, <1>3
  <2> QED
    BY <1>8, <2>1
<1>11. c = 0 /\ i' = i + 2 /\ i + 2 <= Size
  <2>1. (i + 1) + 1 <= Size /\ (i + 1) + 1 = i + 2
    BY <1>2, <1>3, <1>4
  <2> QED
    BY <1>4, <1>7, <2>1
<1> HIDE DEF e, at
<1>12. DumpInv'
  BY <1>1, <1>2, <1>6, <1>7, <1>9, <1>10, LineShownStep
<1> QED
  BY <1>11, <1>12

\* A byte with a line break behind it ends its line; the next one begins behind
\* the break.
LEMMA BreakAfterStep ==
  ASSUME DumpInv, BreakAfter
  PROVE  DumpInv' /\ i' = i + c + 3 /\ i + c + 3 <= Size
<1> DEFINE k == i + 1
           m == i + c + 1
           e == i + c + 3
           S == Size
           W == Width
           at == Wrap(i + c + 3 - W)
           ch == Shown(ptr[m])
           line == Append(msg, ch)
<1>1. /\ dump = "char" /\ c < W /\ Wrap(i + c) < S
      /\ ~CrLfAt(i + c) /\ CrLfAt(i + c + 1)
      /\ ShowLine(Append(msg, Shown(ptr[Wrap(i + c) + 1])), at)
  BY DEF BreakAfter
<1>2. /\ Message /\ i \in Nat /\ c \in Nat /\ c <= W /\ msg \in Seq(32 .. 255)
      /\ k \in LineStarts /\ i + 1 <= S /\ i + c <= S /\ Len(msg) = c
      /\ NoBreak(k, i + c)
      /\ \A j \in 1 .. c : msg[j] = Shown(ptr[k + j - 1])
      /\ Wrap(i + c) = i + c
      /\ CrLfAt(i + c) <=> m \in LineBreaks
      /\ i + c < S => (CrLfAt(i + c + 1) <=> i + c + 2 \in LineBreaks)
  BY <1>1, CharFacts
<1>3. /\ S \in Nat /\ S + W + 2 < SizeT /\ W \in Nat \ {0} /\ SizeT \in Nat
      /\ \A b \in LineBreaks : b \in Nat \ {0} /\ b + 1 <= S
  BY <1>2, BreaksFacts, WidthAndSize
<1>4. m \notin LineBreaks /\ i + c + 2 \in LineBreaks /\ i + c < S /\ ShowLine(line, at)
  BY <1>1, <1>2
<1>5. m \in 1 .. S /\ m + 1 = i + c + 2 /\ m + 1 \in LineBreaks /\ e = m + 2
  BY <1>2, <1>3, <1>4
<1>6. NoBreak(k, m)
  BY <1>2, <1>3, <1>4 DEF NoBreak
<1>7. LineEnd(k) = m
  <2>1. m \in Nat /\ m <= S /\ m <= k + W - 1 /\ k <= m + 1
    BY <1>1, <1>2, <1>3, <1>5
  <2> HIDE DEF k, m
  <2> QED
    BY <1>2, <1>5, <1>6, <2>1, LineEndIs
<1>8. line \in Seq(32 .. 255) /\ line = LineAt(k)
  <2>1. ch \in 32 .. 255
    BY <1>2, <1>5, ShownIsPrintable
  <2>2. ch = Shown(ptr[k + (c + 1) - 1])
    <3>1. k + (c + 1) - 1 = m
      BY <1>2
    <3> QED
      BY <3>1
  <2> HIDE DEF ch
  <2>3. /\ line \in Seq(32 .. 255) /\ Len(line) = Len(msg) + 1
        /\ \A j \in 1 .. Len(msg) : line[j] = msg[j]
        /\ line[Len(msg) + 1] = ch
    BY <1>2, <2>1, LongerSeq
  <2>4. LineEnd(k) - k + 1 = c + 1 /\ k \in Nat /\ c + 1 \in Nat
    BY <1>2, <1>7
  <2> HIDE DEF line, k
  <2>5. \A j \in 1 .. c + 1 : line[j] = Shown(ptr[k + j - 1])
    <3>1. \A j \in 1 .. c + 1 : j \in 1 .. c \/ j = c + 1
      BY <1>2
    <3> QED
      BY <1>2, <2>2, <2>3, <3>1, Zenon
  <2>6. Len(line) = c + 1
    BY <1>2, <2>3
  <2> QED
    BY <2>3, <2>4, <2>5, <2>6, LineIs
<1>9. i' = e /\ e \in Nat /\ e < SizeT /\ i + 1 <= e
  <2>1. e \in Nat /\ e < SizeT /\ i + 1 <= e
    BY <1>2, <1>3, <1>4
  <2>2. i' = Wrap(at + W)
    BY <1>4 DEF ShowLine
  <2>3. at = Wrap(e - W)
    <3>1. i + c + 3 - W = e - W
      BY <1>2, <1>3
    <3> QED
      BY <3>1, Zenon
  <2> HIDE DEF e, at
  <2>4. Wrap(Wrap(e - W) + W) = e
    BY <2>1, WrapBack
  <2> QED
    BY <2>1, <2>2, <2>3, <2>4
<1>10. m + 1 + 1 \notin LineStarts /\ (m + 1 + 2 <= S => m + 1 + 2 \in LineStarts)
  BY <1>2, <1>5, StartAfterBreak
<1>11. \A p \in LineStarts : p <= e => p <= i + 1
  <2>1. ASSUME NEW p \in LineStarts, p <= e, ~(p <= i + 1) PROVE FALSE
    <3> DEFINE d == p - k
    <3>1. p \in Nat
      BY <1>2, StartFacts
    <3>2. p # e
      <4>1. e = m + 1 + 1
        BY <1>2
      <4> QED
        BY <1>10, <4>1
    <3>3. d \in Nat \ {0} /\ k + d = p /\ p <= m + 1
      BY <1>2, <2>1, <3>1, <3>2
    <3>4. d < W \/ k + d \in LineBreaks
      <4>1. p = m + 1 \/ d < W
        BY <1>1, <1>2, <1>3, <3>1, <3>3
      <4> QED
        BY <1>5, <3>3, <4>1
    <3>5. NoBreak(k, k + d - 2)
      <4>1. k + d - 2 <= m /\ k + d - 2 \in Int /\ m \in Int
        BY <1>2, <3>1, <3>3
      <4> QED
        BY <1>2, <1>3, <1>6, <4>1 DEF NoBreak
    <3> HIDE DEF d, k
    <3>6. k + d \notin LineStarts
      BY <1>2, <3>3, <3>4, <3>5, NoStartInside
    <3> QED
      BY <2>1, <3>3, <3>6
  <2> QED
    BY <2>1
<1>12. e < S => e + 1 \in LineStarts
  <2>1. e + 1 = m + 1 + 2 /\ (e < S => m + 1 + 2 <= S)
    BY <1>2, <1>3
  <2> QED
    BY <1>10, <2>1
<1>13. i' = i + c + 3 /\ i + c + 3 <= Size
  <2>1. (i + c + 2) + 1 <= Size /\ (i + c + 2) + 1 = i + c + 3
    BY <1>2, <1>3, <1>4
  <2> QED
    BY <1>9, <2>1
<1> HIDE DEF e, at, line
<1>14. DumpInv'
  BY <1>1, <1>4, <1>8, <1>9, <1>11, <1>12, LineShownStep
<1> QED
  BY <1>13, <1>14

\* A byte is shown and the line goes on.
LEMMA ShowByteStep ==
  ASSUME DumpInv, ShowByte
  PROVE  DumpInv'
<1> DEFINE k == i + 1
           m == i + c + 1
           S == Size
           W == Width
           ch == Shown(ptr[m])
<1>1. /\ dump = "char" /\ c < W /\ Wrap(i + c) < S
      /\ ~CrLfAt(i + c) /\ ~CrLfAt(i + c + 1)
      /\ msg' = Append(msg, Shown(ptr[Wrap(i + c) + 1])) /\ c' = c + 1
      /\ dump' = dump /\ ptr' = ptr /\ i' = i /\ lines' = lines
  BY DEF ShowByte
<1>2. /\ Message /\ i \in Nat /\ c \in Nat /\ c <= W /\ msg \in Seq(32 .. 255)
      /\ lines \in Seq(Seq(32 .. 255)) /\ LinesShown
      /\ k \in LineStarts /\ i + 1 <= S /\ i + c <= S /\ Len(msg) = c
      /\ Wrap(i + c) = i + c
      /\ CrLfAt(i + c) <=> m \in LineBreaks
      /\ i + c < S => (CrLfAt(i + c + 1) <=> i + c + 2 \in LineBreaks)
  BY <1>1, CharFacts
<1>3. S \in Nat /\ W \in Nat \ {0}
  BY <1>2, BreaksFacts
<1>4. /\ m \notin LineBreaks /\ i + c + 2 \notin LineBreaks /\ i + c < S
      /\ msg' = Append(msg, ch)
  BY <1>1, <1>2
<1>5. m \in 1 .. S /\ i + (c + 1) = m /\ i + (c + 1) + 1 = i + c + 2
  BY <1>2, <1>3, <1>4
<1>6. /\ Size' = Size /\ LineBreaks' = LineBreaks /\ LineStarts' = LineStarts
      /\ \A n : LineAt(n)' = LineAt(n) /\ StartsUpTo(n)' = StartsUpTo(n)
  BY <1>1, SameMessage
<1>7. /\ msg' \in Seq(32 .. 255) /\ Len(msg') = c + 1
      /\ \A j \in 1 .. c : msg'[j] = msg[j]
      /\ msg'[c + 1] = ch
  <2>1. ch \in 32 .. 255
    BY <1>2, <1>5, ShownIsPrintable
  <2>2. msg \in Seq(32 .. 255) /\ Len(msg) = c
    BY <1>2
  <2> HIDE DEF ch
  <2>3. /\ Append(msg, ch) \in Seq(32 .. 255) /\ Len(Append(msg, ch)) = Len(msg) + 1
        /\ \A j \in 1 .. Len(msg) : Append(msg, ch)[j] = msg[j]
        /\ Append(msg, ch)[Len(msg) + 1] = ch
    BY <2>1, <2>2, LongerSeq
  <2> QED
    BY <1>4, <2>2, <2>3, Zenon
<1>8. LineSoFar'
  <2>1. \A j \in 1 .. c : msg[j] = Shown(ptr[i + j]) /\ i + j \notin LineBreaks
    BY <1>1 DEF DumpInv, LineSoFar
  <2>2. \A j \in 1 .. c + 1 : j \in 1 .. c \/ j = c + 1
    BY <1>2
  <2>3. \A j \in 1 .. c + 1 : msg'[j] = Shown(ptr[i + j]) /\ i + j \notin LineBreaks
    BY <1>4, <1>5, <1>7, <2>1, <2>2, Zenon
  <2>4. i + (c + 1) <= S
    BY <1>5
  <2> QED
    BY <1>1, <1>2, <1>4, <1>5, <1>6, <1>7, <2>3, <2>4, Zenon DEF LineSoFar
<1>9. LinesShown'
  <2>1. StartsUpTo(i)' = StartsUpTo(i)
    BY <1>1, <1>6 DEF StartsUpTo
  <2> QED
    BY <1>1, <1>2, <1>6, <2>1, Zenon DEF LinesShown
<1>10. DumpTypeOK'
  <2>1. c' \in 0 .. Width
    BY <1>1, <1>2, <1>3
  <2> QED
    BY <1>1, <1>7, <2>1, Zenon DEF DumpInv, DumpTypeOK
<1>11. Size' <= MaxSize
  BY <1>6 DEF DumpInv
<1> QED
  BY <1>1, <1>2, <1>8, <1>9, <1>10, <1>11, Zenon DEF DumpInv

\* The outer loop begins a line.
LEMMA NextLineStep ==
  ASSUME DumpInv, NextLine
  PROVE  DumpInv'
<1>1. /\ dump = "line" /\ i < Size /\ dump' = "char" /\ c' = 0 /\ msg' = <<>>
      /\ ptr' = ptr /\ i' = i /\ lines' = lines
  BY DEF NextLine
<1>2. /\ LinesShown /\ i + 1 \in LineStarts /\ DumpTypeOK /\ Size <= MaxSize
      /\ lines \in Seq(Seq(32 .. 255))
  BY <1>1, Zenon DEF DumpInv
<1>3. /\ Size' = Size /\ LineBreaks' = LineBreaks /\ LineStarts' = LineStarts
      /\ \A n : LineAt(n)' = LineAt(n) /\ StartsUpTo(n)' = StartsUpTo(n)
  BY <1>1, SameMessage
<1>4. msg' \in Seq(32 .. 255) /\ Len(msg') = 0
  BY <1>1, EmptySeq
<1>5. c' \in 0 .. Width /\ i \in Nat /\ Size \in Nat
  <2>1. Message
    BY <1>2 DEF DumpTypeOK, Message
  <2> QED
    BY <1>1, <1>2, <2>1, BreaksFacts, WidthAndSize DEF DumpTypeOK
<1>6. DumpTypeOK'
  BY <1>1, <1>2, <1>4, <1>5, Zenon DEF DumpTypeOK
<1>7. LineSoFar'
  <2>1. i + 0 <= Size /\ (\A j \in 1 .. 0 : FALSE) /\ ~(0 > 0)
    BY <1>1, <1>5
  <2> QED
    BY <1>1, <1>2, <1>3, <1>4, <2>1, Zenon DEF LineSoFar
<1>8. LinesShown'
  <2>1. StartsUpTo(i)' = StartsUpTo(i)
    BY <1>1, <1>3 DEF StartsUpTo
  <2> QED
    BY <1>1, <1>2, <1>3, <2>1, Zenon DEF LinesShown
<1> QED
  BY <1>1, <1>2, <1>3, <1>6, <1>7, <1>8, Zenon DEF DumpInv

\* The outer loop ends: the window shows the message.
LEMMA DumpReturnStep ==
  ASSUME DumpInv, DumpReturn
  PROVE  DumpInv'
<1>1. /\ dump = "line" /\ ~(i < Size) /\ dump' = "done"
      /\ ptr' = ptr /\ i' = i /\ c' = c /\ msg' = msg /\ lines' = lines
  BY DEF DumpReturn
<1>2. LinesShown /\ DumpTypeOK /\ Size <= MaxSize /\ lines \in Seq(Seq(32 .. 255))
  BY <1>1, Zenon DEF DumpInv
<1>3. Message /\ i \in Nat
  BY <1>2, WidthAndSize DEF DumpTypeOK, Message
<1>4. lines = DumpReference
  BY <1>1, <1>2, <1>3, AllLinesShown
<1>5. Size' = Size /\ DumpReference' = DumpReference
  BY <1>1, SameMessage
<1>6. DumpTypeOK'
  BY <1>1, <1>2, Zenon DEF DumpTypeOK
<1> QED
  BY <1>1, <1>2, <1>4, <1>5, <1>6, Zenon DEF DumpInv

\* Nothing is shown of a message before its first byte.
LEMMA NothingShown ==
  ASSUME Message, i = 0, lines = <<>>
  PROVE  LinesShown
<1>1. StartsUpTo(0) = {}
  <2>1. \A p \in LineStarts : p \in Nat \ {0}
    BY StartFacts
  <2> QED
    BY <2>1 DEF StartsUpTo
<1>2. Cardinality({}) = 0
  BY FS_EmptySet
<1>3. Len(lines) = 0
  OBVIOUS
<1>4. \A n \in 1 .. 0 : FALSE
  OBVIOUS
<1> QED
  BY <1>1, <1>2, <1>3, <1>4, Zenon DEF LinesShown

\* The first line of a message begins with its first byte.
LEMMA FirstStart ==
  ASSUME Message, 0 < Size
  PROVE  1 \in LineStarts
<1>1. /\ Size \in Nat /\ Width \in Nat \ {0}
      /\ \A b \in LineBreaks : b \in Nat \ {0}
  BY BreaksFacts
<1>2. PieceStart(1) = 1
  <2>1. PieceStart(1) \in Nat \ {0} /\ PieceStart(1) <= 1
    BY PieceStartFacts
  <2> QED
    BY <2>1
<1>3. (1 - 1) % Width = 0 /\ 1 \in 1 .. Size
  BY <1>1
<1>4. \A b \in LineBreaks : 1 # b + 1
  BY <1>1
<1> QED
  BY <1>2, <1>3, <1>4, LineStartIs

\* The two facts in the state after a step, from the same in the state before
LEMMA DumpBegins == Message /\ i = 0 /\ lines = <<>> => LinesShown /\ (0 < Size => 1 \in LineStarts)
BY NothingShown, FirstStart

\* libcurl hands over a message.
LEMMA TraceStep ==
  ASSUME DumpInv, NEW n \in 0 .. MaxSize, NEW bytes \in [1 .. n -> TraceByte], my_trace(bytes)
  PROVE  DumpInv'
<1>1. /\ dump' = "line" /\ ptr' = bytes /\ i' = 0 /\ c' = 0 /\ msg' = <<>> /\ lines' = <<>>
  BY DEF my_trace
<1>2. n \in Nat /\ n <= MaxSize
  BY WidthAndSize
<1>3. ptr' \in Seq(TraceByte) /\ Len(ptr') = n
  BY <1>1, <1>2, FunctionIsSeq
<1>4. Message'
  BY <1>2, <1>3 DEF Message, Size
<1>5. LinesShown' /\ (0 < Size' => 1 \in LineStarts')
  <2>1. (Message /\ i = 0 /\ lines = <<>> => LinesShown /\ (0 < Size => 1 \in LineStarts))'
    BY DumpBegins, PTL
  <2> QED
    BY <1>1, <1>4, <2>1, Zenon
<1>6. msg' \in Seq(32 .. 255) /\ lines' \in Seq(Seq(32 .. 255)) /\ DOMAIN lines' = {}
  BY <1>1, EmptySeq
<1>7. i' \in 0 .. SizeT - 1 /\ c' \in 0 .. Width
  BY <1>1, WidthAndSize
<1>8. DumpTypeOK'
  BY <1>1, <1>3, <1>6, <1>7, Zenon DEF DumpTypeOK
<1>9. i' + 1 = 1 /\ Size' <= MaxSize
  BY <1>1, <1>4 DEF Message
<1> QED
  BY <1>1, <1>5, <1>6, <1>8, <1>9, Zenon DEF DumpInv

\* The state before a message
LEMMA DumpIdle ==
  dump = "idle" /\ ptr = <<>> /\ i = 0 /\ c = 0 /\ msg = <<>> /\ lines = <<>> => DumpInv
<1> SUFFICES ASSUME dump = "idle" /\ ptr = <<>> /\ i = 0 /\ c = 0 /\ msg = <<>> /\ lines = <<>>
             PROVE  DumpInv
  OBVIOUS
<1>1. /\ ptr \in Seq(TraceByte) /\ msg \in Seq(32 .. 255) /\ lines \in Seq(Seq(32 .. 255))
      /\ DOMAIN lines = {} /\ Size = 0
  BY EmptySeq DEF Size
<1>2. i \in 0 .. SizeT - 1 /\ c \in 0 .. Width /\ Size <= MaxSize
  BY <1>1, WidthAndSize
<1>3. DumpTypeOK
  BY <1>1, <1>2, Zenon DEF DumpTypeOK
<1> QED
  BY <1>1, <1>2, <1>3, Zenon DEF DumpInv

\* The state at the start is such a state.
LEMMA DumpStart == DumpInit => DumpInv
BY DumpIdle DEF DumpInit

\* libcurl goes on.
LEMMA TraceNextStep == TraceNext => DumpInv'
<1> SUFFICES ASSUME TraceNext PROVE DumpInv'
  OBVIOUS
<1>1. (dump = "idle" /\ ptr = <<>> /\ i = 0 /\ c = 0 /\ msg = <<>> /\ lines = <<>>)'
  BY DEF TraceNext
<1>2. (dump = "idle" /\ ptr = <<>> /\ i = 0 /\ c = 0 /\ msg = <<>> /\ lines = <<>> => DumpInv)'
  BY DumpIdle, PTL
<1> QED
  BY <1>1, <1>2, Zenon

\* Nothing of the dump changes.
LEMMA DumpStutter == DumpInv /\ UNCHANGED dumpVars => DumpInv'
<1> SUFFICES ASSUME DumpInv, UNCHANGED dumpVars PROVE DumpInv'
  OBVIOUS
<1>1. dump' = dump /\ ptr' = ptr /\ i' = i /\ c' = c /\ msg' = msg /\ lines' = lines
  BY DEF dumpVars
<1>2. /\ Size' = Size /\ LineBreaks' = LineBreaks /\ LineStarts' = LineStarts
      /\ \A n : LineAt(n)' = LineAt(n) /\ StartsUpTo(n)' = StartsUpTo(n)
      /\ DumpReference' = DumpReference
  BY <1>1, SameMessage
<1>3. StartsUpTo(i)' = StartsUpTo(i)
  BY <1>1, <1>2 DEF StartsUpTo
<1>4. DumpTypeOK' <=> DumpTypeOK
  BY <1>1, Zenon DEF DumpTypeOK
<1>5. LinesShown' <=> LinesShown
  BY <1>1, <1>2, <1>3, Zenon DEF LinesShown
<1>6. LineSoFar' <=> LineSoFar
  BY <1>1, <1>2, Zenon DEF LineSoFar
<1> QED
  BY <1>1, <1>2, <1>4, <1>5, <1>6, Zenon DEF DumpInv

\* Every step of the dump keeps the invariant.
LEMMA DumpInvStep == DumpInv /\ DumpNext => DumpInv'
<1> SUFFICES ASSUME DumpInv, DumpNext PROVE DumpInv'
  OBVIOUS
<1>1. CASE \E n \in 0 .. MaxSize : \E bytes \in [1 .. n -> TraceByte] : my_trace(bytes)
  BY <1>1, TraceStep
<1>2. CASE NextLine
  BY <1>2, NextLineStep
<1>3. CASE LineFull
  BY <1>3, LineFullStep
<1>4. CASE BreakBefore
  BY <1>4, BreakBeforeStep
<1>5. CASE BreakAfter
  BY <1>5, BreakAfterStep
<1>6. CASE ShowByte
  BY <1>6, ShowByteStep
<1>7. CASE DumpReturn
  BY <1>7, DumpReturnStep
<1>8. CASE TraceNext
  BY <1>8, TraceNextStep
<1> QED
  BY <1>1, <1>2, <1>3, <1>4, <1>5, <1>6, <1>7, <1>8 DEF DumpNext, DumpStep

-----------------------------------------------------------------------------
(* The dump: how much is left to do *)

\* Rounds for the bytes from offset q on, three to a byte
Left(q) == IF q < Size THEN 3 * (Size - q) ELSE 0

\* An upper bound of the number of steps before the dump returns
Remaining ==
  IF dump = "char" THEN Left(i + c) + (IF c > 0 THEN 3 ELSE 1)
  ELSE IF dump = "line" THEN Left(i) + 2
  ELSE 0

\* Left is a number that does not grow.
LEMMA LeftFalls ==
  ASSUME Size \in Nat, NEW q \in Nat, NEW r \in Nat, q <= r
  PROVE  /\ Left(q) \in Nat /\ Left(r) \in Nat /\ Left(r) <= Left(q)
         /\ q < r /\ r <= Size => Left(r) + 3 * (r - q) = Left(q)
<1> DEFINE S == Size
<1>1. S \in Nat
  OBVIOUS
<1>2. /\ Left(q) = IF q < S THEN 3 * (S - q) ELSE 0
      /\ Left(r) = IF r < S THEN 3 * (S - r) ELSE 0
  BY DEF Left
<1> HIDE DEF S
<1>3. /\ Left(q) \in Nat /\ Left(r) \in Nat /\ Left(r) <= Left(q)
      /\ q < r /\ r <= S => Left(r) + 3 * (r - q) = Left(q)
  BY <1>1, <1>2
<1> QED
  BY <1>3 DEF S

\* Every step of the dump leaves fewer to do.
LEMMA RemainingFalls ==
  ASSUME DumpInv, DumpStep
  PROVE  Remaining' \in Nat /\ Remaining' < Remaining
<1>1. DumpTypeOK /\ Message
  BY DEF DumpInv, DumpTypeOK, Message
<1>2. i \in Nat /\ c \in Nat /\ Width \in Nat \ {0} /\ Size \in Nat
  BY <1>1, BreaksFacts, WidthAndSize DEF DumpTypeOK
<1>3. ptr' = ptr
  BY DEF DumpStep, NextLine, LineFull, BreakBefore, BreakAfter, ShowByte, DumpReturn, ShowLine
<1>4. Size' = Size
  BY <1>3 DEF Size
<1>5. \A q : Left(q)' = Left(q)
  BY <1>4 DEF Left
<1> DEFINE z == IF c > 0 THEN 3 ELSE 1
<1>6. z \in {1, 3} /\ (c > 0 => z = 3)
  OBVIOUS
<1>7. CASE NextLine
  <2>1. dump = "line" /\ dump' = "char" /\ c' = 0 /\ i' = i
    BY <1>7 DEF NextLine
  <2>2. Remaining = Left(i) + 2
    BY <2>1 DEF Remaining
  <2>3. Remaining' = Left(i + c)' + 1
    BY <2>1 DEF Remaining
  <2>4. Left(i + c)' = Left(i)
    <3>1. i' + c' = i
      BY <1>2, <2>1
    <3> QED
      BY <1>4, <3>1 DEF Left
  <2>5. Left(i) \in Nat
    BY <1>2, LeftFalls
  <2> QED
    BY <2>2, <2>3, <2>4, <2>5
<1>8. ASSUME dump = "char", dump' = "line", NEW r \in Nat, i' = r, i + c <= r,
             c > 0 \/ (i + c < r /\ r <= Size)
      PROVE  Remaining' \in Nat /\ Remaining' < Remaining
  <2>1. Remaining = Left(i + c) + z
    BY <1>8 DEF Remaining
  <2>2. Remaining' = Left(r) + 2
    <3>1. Remaining' = Left(i)' + 2
      BY <1>8 DEF Remaining
    <3>2. Left(i)' = Left(r)
      BY <1>4, <1>8 DEF Left
    <3> QED
      BY <3>1, <3>2
  <2> DEFINE q == i + c
             x == Left(q)
             y == Left(r)
  <2>3. q \in Nat /\ q <= r
    BY <1>2, <1>8
  <2> HIDE DEF q, z
  <2>4. x \in Nat /\ y \in Nat /\ y <= x /\ (q < r /\ r <= Size => y + 3 * (r - q) = x)
    BY <1>2, <2>3, LeftFalls
  <2>5. c > 0 \/ (q < r /\ r <= Size)
    BY <1>8 DEF q
  <2> HIDE DEF x, y
  <2>6. y + 2 < x + z
    BY <1>6, <2>3, <2>4, <2>5
  <2> QED
    BY <2>1, <2>2, <2>4, <2>6 DEF x, y, q
<1>9. CASE LineFull
  <2>1. dump = "char" /\ dump' = "line"
    BY <1>9 DEF LineFull, ShowLine
  <2>2. i' = i + Width /\ c > 0 /\ c <= Width
    BY <1>9, <2>1, LineFullStep, CharFacts
  <2> DEFINE r == i + Width
  <2>3. r \in Nat /\ i' = r /\ i + c <= r
    BY <1>2, <2>2
  <2> HIDE DEF r
  <2> QED
    BY <1>8, <2>1, <2>2, <2>3
<1>10. CASE BreakBefore
  <2>1. dump = "char" /\ dump' = "line"
    BY <1>10 DEF BreakBefore, ShowLine
  <2>2. c = 0 /\ i' = i + 2 /\ i + 2 <= Size
    BY <1>10, BreakBeforeStep
  <2> DEFINE r == i + 2
  <2>3. r \in Nat /\ i' = r /\ i + c <= r /\ i + c < r /\ r <= Size
    BY <1>2, <2>2
  <2> HIDE DEF r
  <2> QED
    BY <1>8, <2>1, <2>3
<1>11. CASE BreakAfter
  <2>1. dump = "char" /\ dump' = "line"
    BY <1>11 DEF BreakAfter, ShowLine
  <2>2. i' = i + c + 3 /\ i + c + 3 <= Size
    BY <1>11, BreakAfterStep
  <2> DEFINE r == i + c + 3
  <2>3. r \in Nat /\ i' = r /\ i + c <= r /\ i + c < r /\ r <= Size
    BY <1>2, <2>2
  <2> HIDE DEF r
  <2> QED
    BY <1>8, <2>1, <2>3
<1>12. CASE ShowByte
  <2> DEFINE q == i + c
             r == i + c + 1
             x == Left(q)
             y == Left(r)
  <2>1. /\ dump = "char" /\ dump' = "char" /\ c' = c + 1 /\ i' = i
        /\ Wrap(i + c) < Size
    BY <1>12 DEF ShowByte
  <2>2. Wrap(i + c) = i + c
    BY <2>1, CharFacts
  <2>3. q \in Nat /\ r \in Nat /\ q < r /\ r <= Size /\ q <= r /\ r - q = 1
    BY <1>2, <2>1, <2>2
  <2>4. Remaining = x + z
    BY <2>1 DEF Remaining
  <2>5. Remaining' = y + 3
    <3>1. c + 1 > 0 /\ i' + c' = r
      BY <1>2, <2>1
    <3>2. Remaining' = Left(i + c)' + 3
      BY <2>1, <3>1 DEF Remaining
    <3>3. Left(i + c)' = y
      BY <1>4, <3>1 DEF Left
    <3> QED
      BY <3>2, <3>3
  <2> HIDE DEF q, r, z
  <2>6. x \in Nat /\ y \in Nat /\ y + 3 * (r - q) = x
    BY <1>2, <2>3, LeftFalls
  <2> HIDE DEF x, y
  <2>7. y + 3 < x + z
    BY <1>6, <2>3, <2>6
  <2> QED
    BY <2>4, <2>5, <2>6, <2>7
<1>13. CASE DumpReturn
  <2>1. dump = "line" /\ dump' = "done"
    BY <1>13 DEF DumpReturn
  <2>2. Remaining = Left(i) + 2 /\ Remaining' = 0
    BY <2>1 DEF Remaining
  <2>3. Left(i) \in Nat
    BY <1>2, LeftFalls
  <2> QED
    BY <2>2, <2>3
<1> QED
  BY <1>7, <1>9, <1>10, <1>11, <1>12, <1>13 DEF DumpStep

-----------------------------------------------------------------------------
(* The theorems *)

\* The inductive invariant of the two conversions
ConversionsInv == Base64Inv /\ DumpInv

\* It holds in every state.
LEMMA ConversionsInvHolds == ConversionsSpec => []ConversionsInv
<1>1. ConversionsInit => ConversionsInv
  BY Base64Start, DumpStart DEF ConversionsInit, ConversionsInv
<1>2. ConversionsInv /\ [ConversionsNext]_conversionVars => ConversionsInv'
  <2> SUFFICES ASSUME ConversionsInv, [ConversionsNext]_conversionVars PROVE ConversionsInv'
    OBVIOUS
  <2>1. Base64Inv /\ DumpInv
    BY DEF ConversionsInv
  <2>2. CASE dump = "idle" /\ UNCHANGED dumpVars /\ Next
    BY <2>1, <2>2, Base64Step, DumpStutter DEF ConversionsInv
  <2>3. CASE Base64Fresh /\ UNCHANGED vars /\ DumpNext
    BY <2>1, <2>3, Base64Stutter, DumpInvStep DEF ConversionsInv
  <2>4. CASE UNCHANGED conversionVars
    <3>1. UNCHANGED vars /\ UNCHANGED dumpVars
      BY <2>4 DEF conversionVars
    <3> QED
      BY <2>1, <3>1, Base64Stutter, DumpStutter DEF ConversionsInv
  <2> QED
    BY <2>2, <2>3, <2>4 DEF ConversionsNext
<1> QED
  BY <1>1, <1>2, PTL DEF ConversionsSpec

\* Both conversions stay within their types, for all bytes and lengths: in
\* particular i of my_trace_dump is a size_t in every round, although it is set
\* back by a width and may pass zero.
THEOREM ConversionsTypeCorrect == ConversionsSpec => []ConversionsTypeOK
<1>1. ConversionsInv => ConversionsTypeOK
  BY DEF ConversionsInv, Base64Inv, DumpInv, ConversionsTypeOK
<1> QED
  BY <1>1, ConversionsInvHolds, PTL

\* Base64::Encode writes inside the string that EncodedLength sized, for every
\* text of every length, and Base64::Decode inside the one that DecodedLength
\* sized, for every text with proper padding or none, whether it is Base64 or
\* not.
THEOREM WritesAlwaysFit == ConversionsSpec => []WritesFit
<1>1. ConversionsInv => WritesFit
  BY DEF ConversionsInv, Base64Inv
<1> QED
  BY <1>1, ConversionsInvHolds, PTL

\* ToBase64 answers Base64 of the text, bit for bit, for every text of every
\* length and whatever the static string held before.
THEOREM EncodesAsDefined == ConversionsSpec => []EncodedAsDefined
<1>1. ConversionsInv => EncodedAsDefined
  BY DEF ConversionsInv, Base64Inv, LoopsOK, EncodedAsDefined
<1> QED
  BY <1>1, ConversionsInvHolds, PTL

\* FromBase64 of what ToBase64 gave, with its padding or without, is the text.
THEOREM DecodesWhatWasEncoded == ConversionsSpec => []RoundTrip
<1>1. ConversionsInv => RoundTrip
  BY DEF ConversionsInv, Base64Inv, LoopsOK, RoundTrip, OfText
<1> QED
  BY <1>1, ConversionsInvHolds, PTL

\* my_trace_dump shows every message exactly as it is defined, for every width
\* of a line and every message that is shorter than what size_t can count.
THEOREM DumpsAsDefined == ConversionsSpec => []DumpAsDefined
<1>1. ConversionsInv => DumpAsDefined
  BY DEF ConversionsInv, DumpInv, DumpAsDefined
<1> QED
  BY <1>1, ConversionsInvHolds, PTL

\* Every step of the two loops of my_trace_dump makes a natural number smaller,
\* so neither loop can go on for ever: what DumpReturns needs besides fairness.
THEOREM DumpAdvances ==
  ConversionsSpec => [][DumpStep => Remaining' \in Nat /\ Remaining' < Remaining]_dumpVars
<1>1. ConversionsInv /\ [ConversionsNext]_conversionVars
        => [DumpStep => Remaining' \in Nat /\ Remaining' < Remaining]_dumpVars
  BY RemainingFalls DEF ConversionsInv
<1> QED
  BY <1>1, ConversionsInvHolds, PTL DEF ConversionsSpec

=============================================================================
