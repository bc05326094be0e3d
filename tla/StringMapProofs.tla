--------------------------- MODULE StringMapProofs ----------------------------
(***************************************************************************)
(* Proofs about StringMap for all keys, values and hash functions, and for  *)
(* every choice of its sizes.                                               *)
(***************************************************************************)
EXTENDS StringMap, Induction, SequenceTheorems, FiniteSetTheorems

-----------------------------------------------------------------------------
(* The inductive invariant *)

\* The bucket of a cell in a table of that size
BucketIn(a, c, size) == a[c].nHashValue % size

\* The cells D are chained in the buckets of their hashes, each once.
ChainsHold(b, size, a, D) ==
  /\ b \in [0 .. size - 1 -> Seq(D)]
  /\ \A j \in 0 .. size - 1 : IsInjective(b[j])
  /\ \A j \in 0 .. size - 1 : \A c \in D :
       c \in Range(b[j]) <=> BucketIn(a, c, size) = j

Association == [key : Key, value : Value, nHashValue : Nat]

\* A cell in use has the hash of its key, and no other cell has that key.
CellsOK ==
  /\ assoc \in [DOMAIN assoc -> Association]
  /\ \A c \in DOMAIN assoc : assoc[c].nHashValue = HashKey[assoc[c].key]
  /\ \A c, d \in DOMAIN assoc : assoc[c].key = assoc[d].key => c = d

\* A cell of the blocks is in use or in the free list.
PoolOK ==
  /\ cells \in Nat /\ m_pFreeList \in Seq(1 .. cells) /\ IsInjective(m_pFreeList)
  /\ DOMAIN assoc \cup Range(m_pFreeList) = 1 .. cells
  /\ DOMAIN assoc \cap Range(m_pFreeList) = {}
  /\ m_nCount = Cardinality(DOMAIN assoc)

\* The cells in use are in the table, if there is one.
TableOK ==
  /\ m_nHashTableSize \in Nat \ {0} /\ m_nBlockSize \in Nat
  /\ HasTable => /\ ChainsHold(m_pHashTable, m_nHashTableSize, assoc, DOMAIN assoc)
                 /\ m_nCount < m_nHashTableSize /\ m_nHashTableSize >= 2
                 /\ m_nBlockSize > 0
  /\ ~HasTable => DOMAIN assoc = {}

\* The order of an iteration: bucket by bucket, each from the head on
Before(d, c) ==
  LET b == BucketIn(assoc, c, m_nHashTableSize)
      chain == m_pHashTable[b] IN
  \/ BucketIn(assoc, d, m_nHashTableSize) < b
  \/ \E k, l \in DOMAIN chain : k < l /\ chain[k] = d /\ chain[l] = c

KeysOf(D) == {assoc[d].key : d \in D}
Passed(c) == {d \in DOMAIN assoc : Before(d, c)}

\* An iteration has returned the keys of the cells before its position.
IterationOK ==
  /\ iterating \in BOOLEAN /\ visited \in Seq(Key) /\ IsInjective(visited)
  /\ ~iterating => pos = NULL
  /\ iterating =>
       /\ DOMAIN assoc # {}
       /\ \/ pos = BEFORE_START_POSITION /\ visited = <<>>
          \/ pos = NULL /\ Range(visited) = KeysOf(DOMAIN assoc)
          \/ pos \in DOMAIN assoc /\ Range(visited) = KeysOf(Passed(pos))

Inv == CellsOK /\ PoolOK /\ TableOK /\ IterationOK

-----------------------------------------------------------------------------
(* Sequences without repetitions *)

\* The elements of a sequence
LEMMA SeqFacts ==
  ASSUME NEW S, NEW s \in Seq(S)
  PROVE  /\ Len(s) \in Nat /\ DOMAIN s = 1 .. Len(s)
         /\ Range(s) \subseteq S
         /\ \A k \in 1 .. Len(s) : s[k] \in Range(s) /\ s[k] \in S
         /\ \A x \in Range(s) : \E k \in 1 .. Len(s) : s[k] = x
<1>1. Len(s) \in Nat /\ DOMAIN s = 1 .. Len(s) /\ s \in [1 .. Len(s) -> S]
  BY LenProperties
<1> QED
  BY <1>1 DEF Range

\* Two different sequences, one behind the other
LEMMA ConcatOnce ==
  ASSUME NEW S, NEW s \in Seq(S), NEW t \in Seq(S), IsInjective(s), IsInjective(t),
         Range(s) \cap Range(t) = {}
  PROVE  /\ s \o t \in Seq(S) /\ IsInjective(s \o t)
         /\ Range(s \o t) = Range(s) \cup Range(t)
<1> DEFINE m == Len(s)
           n == Len(t)
           c == s \o t
<1>1. /\ m \in Nat /\ DOMAIN s = 1 .. m
      /\ \A k \in 1 .. m : s[k] \in Range(s)
      /\ \A x \in Range(s) : \E k \in 1 .. m : s[k] = x
  BY SeqFacts
<1>2. /\ n \in Nat /\ DOMAIN t = 1 .. n
      /\ \A k \in 1 .. n : t[k] \in Range(t)
      /\ \A x \in Range(t) : \E k \in 1 .. n : t[k] = x
  BY SeqFacts
<1>3. /\ c \in Seq(S) /\ Len(c) = m + n
      /\ \A i \in 1 .. m + n : c[i] = IF i <= m THEN s[i] ELSE t[i - m]
  BY ConcatProperties
<1> HIDE DEF m, n, c
<1>4. DOMAIN c = 1 .. m + n
  BY <1>3, LenProperties
<1>5. ASSUME NEW i \in 1 .. m + n
      PROVE  \/ i \in 1 .. m /\ c[i] = s[i] /\ c[i] \in Range(s)
             \/ i - m \in 1 .. n /\ c[i] = t[i - m] /\ c[i] \in Range(t)
  <2>1. CASE i <= m
    BY <1>1, <1>3, <2>1
  <2>2. CASE ~(i <= m)
    <3>1. i - m \in 1 .. n
      BY <1>1, <1>2, <2>2
    <3> QED
      BY <1>2, <1>3, <2>2, <3>1
  <2> QED
    BY <2>1, <2>2
<1>6. IsInjective(c)
  <2> SUFFICES ASSUME NEW i \in 1 .. m + n, NEW j \in 1 .. m + n, c[i] = c[j]
               PROVE  i = j
    BY <1>4 DEF IsInjective
  <2>1. CASE i \in 1 .. m /\ c[i] = s[i] /\ c[i] \in Range(s)
    <3>1. j \in 1 .. m /\ c[j] = s[j]
      BY <1>5, <2>1
    <3> QED
      BY <1>1, <2>1, <3>1 DEF IsInjective
  <2>2. CASE i - m \in 1 .. n /\ c[i] = t[i - m] /\ c[i] \in Range(t)
    <3>1. j - m \in 1 .. n /\ c[j] = t[j - m]
      BY <1>5, <2>2
    <3>2. i - m = j - m
      BY <1>2, <2>2, <3>1 DEF IsInjective
    <3> QED
      BY <1>1, <1>2, <3>2
  <2> QED
    BY <1>5, <2>1, <2>2
<1>7. ASSUME NEW x \in Range(c) PROVE x \in Range(s) \cup Range(t)
  <2>1. PICK i \in 1 .. m + n : c[i] = x
    BY <1>4 DEF Range
  <2> QED
    BY <1>5, <2>1
<1>8. ASSUME NEW x \in Range(s) PROVE x \in Range(c)
  <2>1. PICK k \in 1 .. m : s[k] = x
    BY <1>1
  <2>2. k \in 1 .. m + n /\ k <= m
    BY <1>1, <1>2
  <2>3. c[k] = x /\ k \in DOMAIN c
    BY <1>3, <1>4, <2>1, <2>2
  <2> QED
    BY <2>3 DEF Range
<1>9. ASSUME NEW x \in Range(t) PROVE x \in Range(c)
  <2>1. PICK k \in 1 .. n : t[k] = x
    BY <1>2
  <2> DEFINE i == k + m
  <2>2. i \in 1 .. m + n /\ ~(i <= m) /\ i - m = k
    BY <1>1, <1>2
  <2> HIDE DEF i
  <2>3. c[i] = t[i - m]
    BY <1>3, <2>2
  <2>4. c[i] = x /\ i \in DOMAIN c
    BY <1>4, <2>1, <2>2, <2>3
  <2> QED
    BY <2>4 DEF Range
<1>10. Range(c) = Range(s) \cup Range(t)
  BY <1>7, <1>8, <1>9
<1> QED
  BY <1>3, <1>6, <1>10 DEF c

\* One more element in front
LEMMA ConsOnce ==
  ASSUME NEW S, NEW s \in Seq(S), NEW e \in S, IsInjective(s), e \notin Range(s)
  PROVE  /\ Cons(e, s) \in Seq(S) /\ IsInjective(Cons(e, s))
         /\ Range(Cons(e, s)) = {e} \cup Range(s)
<1> DEFINE b == <<e>>
<1>1. b \in Seq(S) /\ DOMAIN b = 1 .. 1 /\ b[1] = e
  OBVIOUS
<1> HIDE DEF b
<1>2. IsInjective(b) /\ Range(b) = {e}
  BY <1>1 DEF IsInjective, Range
<1>3. Range(b) \cap Range(s) = {}
  BY <1>2
<1>4. b \o s \in Seq(S) /\ IsInjective(b \o s) /\ Range(b \o s) = Range(b) \cup Range(s)
  BY <1>1, <1>2, <1>3, ConcatOnce
<1> QED
  BY <1>2, <1>4 DEF Cons, b

\* One element less
LEMMA RemoveOnce ==
  ASSUME NEW S, NEW s \in Seq(S), IsInjective(s), NEW i \in 1 .. Len(s)
  PROVE  /\ RemoveAt(s, i) \in Seq(S) /\ IsInjective(RemoveAt(s, i))
         /\ Range(RemoveAt(s, i)) = Range(s) \ {s[i]}
<1> DEFINE n == Len(s)
           a == SubSeq(s, 1, i - 1)
           b == SubSeq(s, i + 1, n)
<1>1. /\ n \in Nat /\ DOMAIN s = 1 .. n /\ \A k \in 1 .. n : s[k] \in S
      /\ \A k \in 1 .. n : s[k] \in Range(s)
      /\ \A x \in Range(s) : \E k \in 1 .. n : s[k] = x
  BY SeqFacts
<1>2. i \in 1 .. n
  OBVIOUS
<1> HIDE DEF n
<1>3. /\ a \in Seq(S) /\ Len(a) = i - 1
      /\ \A k \in 1 .. i - 1 : a[k] = s[k]
  <2>1. 1 \in Int /\ i - 1 \in Int /\ \A k \in 1 .. i - 1 : s[k] \in S
    BY <1>1, <1>2
  <2> QED
    BY <1>1, <1>2, <2>1, SubSeqProperties
<1>4. /\ b \in Seq(S) /\ Len(b) = n - i
      /\ \A k \in 1 .. n - i : b[k] = s[k + i]
  <2>1. i + 1 \in Int /\ n \in Int /\ \A k \in i + 1 .. n : s[k] \in S
    BY <1>1, <1>2
  <2>2. /\ b \in Seq(S) /\ Len(b) = IF i + 1 <= n THEN n - (i + 1) + 1 ELSE 0
        /\ \A k \in 1 .. n - (i + 1) + 1 : b[k] = s[i + 1 + k - 1]
    BY <2>1, SubSeqProperties
  <2>3. Len(b) = n - i
    BY <1>1, <1>2, <2>2
  <2>4. \A k \in 1 .. n - i : b[k] = s[k + i]
    <3> SUFFICES ASSUME NEW k \in 1 .. n - i PROVE b[k] = s[k + i]
      OBVIOUS
    <3>1. k \in 1 .. n - (i + 1) + 1 /\ i + 1 + k - 1 = k + i
      BY <1>1, <1>2
    <3> QED
      BY <2>2, <3>1
  <2> QED
    BY <2>2, <2>3, <2>4
<1> HIDE DEF a, b
<1>5. DOMAIN a = 1 .. i - 1 /\ DOMAIN b = 1 .. n - i
  BY <1>3, <1>4, LenProperties
<1>6. IsInjective(a)
  <2> SUFFICES ASSUME NEW k \in 1 .. i - 1, NEW l \in 1 .. i - 1, a[k] = a[l]
               PROVE  k = l
    BY <1>5 DEF IsInjective
  <2>1. k \in DOMAIN s /\ l \in DOMAIN s
    BY <1>1, <1>2
  <2>2. s[k] = s[l]
    BY <1>3
  <2> QED
    BY <2>1, <2>2 DEF IsInjective
<1>7. IsInjective(b)
  <2> SUFFICES ASSUME NEW k \in 1 .. n - i, NEW l \in 1 .. n - i, b[k] = b[l]
               PROVE  k = l
    BY <1>5 DEF IsInjective
  <2>1. k + i \in DOMAIN s /\ l + i \in DOMAIN s
    BY <1>1, <1>2
  <2>2. s[k + i] = s[l + i]
    BY <1>4
  <2>3. k + i = l + i
    BY <2>1, <2>2 DEF IsInjective
  <2> QED
    BY <1>1, <1>2, <2>3
<1>8. ASSUME NEW x
      PROVE  /\ x \in Range(a) <=> \E k \in 1 .. i - 1 : s[k] = x
             /\ x \in Range(b) <=> \E k \in i + 1 .. n : s[k] = x
  <2>1. x \in Range(a) <=> \E k \in 1 .. i - 1 : s[k] = x
    BY <1>3, <1>5 DEF Range
  <2>2. ASSUME x \in Range(b) PROVE \E k \in i + 1 .. n : s[k] = x
    <3>1. PICK l \in 1 .. n - i : b[l] = x
      BY <1>5, <2>2 DEF Range
    <3>2. l + i \in i + 1 .. n
      BY <1>1, <1>2
    <3> QED
      BY <1>4, <3>1, <3>2
  <2>3. ASSUME NEW k \in i + 1 .. n, s[k] = x PROVE x \in Range(b)
    <3>1. k - i \in 1 .. n - i /\ k - i + i = k
      BY <1>1, <1>2
    <3>2. b[k - i] = x /\ k - i \in DOMAIN b
      BY <1>4, <1>5, <2>3, <3>1
    <3> QED
      BY <3>2 DEF Range
  <2> QED
    BY <2>1, <2>2, <2>3
<1>9. Range(a) \cap Range(b) = {}
  <2> SUFFICES ASSUME NEW x, x \in Range(a), x \in Range(b) PROVE FALSE
    OBVIOUS
  <2>1. PICK k \in 1 .. i - 1 : s[k] = x
    BY <1>8
  <2>2. PICK l \in i + 1 .. n : s[l] = x
    BY <1>8
  <2>3. k \in DOMAIN s /\ l \in DOMAIN s /\ k # l
    BY <1>1, <1>2
  <2> QED
    BY <2>1, <2>2, <2>3 DEF IsInjective
<1>10. /\ a \o b \in Seq(S) /\ IsInjective(a \o b)
       /\ Range(a \o b) = Range(a) \cup Range(b)
  BY <1>3, <1>4, <1>6, <1>7, <1>9, ConcatOnce
<1>11. Range(a) \cup Range(b) = Range(s) \ {s[i]}
  <2>1. ASSUME NEW x, x \in Range(a) \cup Range(b) PROVE x \in Range(s) \ {s[i]}
    <3>1. PICK k \in 1 .. n : s[k] = x /\ k # i
      BY <1>1, <1>2, <1>8, <2>1
    <3> QED
      BY <1>1, <1>2, <3>1 DEF IsInjective
  <2>2. ASSUME NEW x, x \in Range(s) \ {s[i]} PROVE x \in Range(a) \cup Range(b)
    <3>1. PICK k \in 1 .. n : s[k] = x
      BY <1>1, <2>2
    <3>2. k # i
      BY <2>2, <3>1
    <3>3. k \in 1 .. i - 1 \/ k \in i + 1 .. n
      BY <1>1, <1>2, <3>2
    <3> QED
      BY <1>8, <3>1, <3>3
  <2> QED
    BY <2>1, <2>2
<1> QED
  BY <1>10, <1>11 DEF RemoveAt, a, b, n

\* Such a sequence is as long as the set of its elements.
LEMMA LenOnce ==
  ASSUME NEW S, NEW s \in Seq(S), IsInjective(s)
  PROVE  IsFiniteSet(Range(s)) /\ Cardinality(Range(s)) = Len(s)
<1> DEFINE n == Len(s)
           T == Range(s)
<1>1. n \in Nat /\ DOMAIN s = 1 .. n /\ s \in [1 .. n -> S]
  BY LenProperties
<1>2. s \in [1 .. n -> T] /\ \A x \in T : \E k \in 1 .. n : s[k] = x
  BY <1>1, SeqFacts
<1> HIDE DEF n, T
<1>3. IsFiniteSet(1 .. n) /\ Cardinality(1 .. n) = n
  <2>1. 1 \in Int /\ n \in Int
    BY <1>1
  <2>2. IsFiniteSet(1 .. n) /\ Cardinality(1 .. n) = IF 1 > n THEN 0 ELSE n - 1 + 1
    BY <2>1, FS_Interval
  <2> QED
    BY <1>1, <2>2
<1>4. s \in Bijection(1 .. n, T)
  BY <1>2 DEF Bijection, Injection, Surjection
<1>5. ExistsBijection(1 .. n, T)
  BY <1>4 DEF ExistsBijection
<1>6. IsFiniteSet(T) /\ Cardinality(T) = n
  BY <1>3, <1>5, FS_Bijection
<1> QED
  BY <1>6 DEF n, T

-----------------------------------------------------------------------------
(* The cells of a table *)

\* A sequence of sequences without common elements, one behind the other
LEMMA FlattenOnce ==
  ASSUME NEW D, NEW N \in Nat \ {0}, NEW s \in [1 .. N -> Seq(D)],
         \A i \in 1 .. N : IsInjective(s[i]),
         \A i, j \in 1 .. N : i # j => Range(s[i]) \cap Range(s[j]) = {}
  PROVE  /\ FlattenSeq(s) \in Seq(D) /\ IsInjective(FlattenSeq(s))
         /\ \A x : x \in Range(FlattenSeq(s)) <=> \E i \in 1 .. N : x \in Range(s[i])
<1> DEFINE Flat(f) == [i \in 1 .. N |-> IF i = 1 THEN s[i] ELSE f[i - 1] \o s[i]]
           F == [n \in 1 .. N |-> [q \in Seq(D) |-> q \o s[n]]]
           flatten == CHOOSE f : f = Flat(f)
<1>1. Len(s) = N
  OBVIOUS
<1>2. N \in 1 .. N /\ 1 \in 1 .. N /\ N # 0
  OBVIOUS
<1>3. FlattenSeq(s) = flatten[N]
  BY <1>1, <1>2 DEF FlattenSeq
<1>4. \E f : f = Flat(f)
  <2>1. F \in [1 .. N -> [Seq(D) -> Seq(D)]]
    <3> SUFFICES ASSUME NEW n \in 1 .. N, NEW q \in Seq(D) PROVE q \o s[n] \in Seq(D)
      OBVIOUS
    <3>1. s[n] \in Seq(D)
      OBVIOUS
    <3> QED
      BY <3>1, ConcatProperties
  <2>2. \A n \in 1 .. N : \A q \in Seq(D) : F[n][q] = q \o s[n]
    OBVIOUS
  <2> DEFINE T == Seq(D)
             base == <<>>
  <2>3. base \in T /\ F \in [1 .. N -> [T -> T]] /\ N \in Nat
    BY <2>1
  <2> HIDE DEF F, T, base
  <2>4. PICK f : Rounds(f, T, N, base, F)
    BY <2>3, Recursion
  <2> USE DEF Rounds, T, base
  <2> DEFINE g == [i \in 1 .. N |-> f[i]]
  <2>5. ASSUME NEW i \in 1 .. N
        PROVE  g[i] = IF i = 1 THEN s[i] ELSE g[i - 1] \o s[i]
    <3>1. i - 1 \in 0 .. N /\ i \in 0 .. N
      OBVIOUS
    <3>2. f[i] = f[i - 1] \o s[i]
      BY <2>2, <2>4, <3>1
    <3>3. CASE i = 1
      <4>1. i - 1 = 0 /\ s[i] \in Seq(D)
        BY <3>3
      <4>2. f[i] = <<>> \o s[i]
        BY <2>4, <3>2, <4>1
      <4> HIDE <3>2
      <4>3. <<>> \o s[i] = s[i]
        BY <4>1, ConcatEmptySeq
      <4> QED
        BY <3>3, <4>2, <4>3
    <3>4. CASE i # 1
      <4>1. i - 1 \in 1 .. N
        BY <3>4
      <4>2. g[i] = f[i] /\ g[i - 1] = f[i - 1]
        BY <4>1
      <4> QED
        BY <3>2, <3>4, <4>2
    <3> QED
      BY <3>3, <3>4
  <2>6. g = [i \in 1 .. N |-> g[i]]
    OBVIOUS
  <2> HIDE DEF g
  <2>7. g = Flat(g)
    BY <2>5, <2>6
  <2> QED
    BY <2>7
<1>5. flatten = Flat(flatten)
  BY <1>4
<1> HIDE DEF flatten
<1>6. /\ flatten[1] = s[1]
      /\ \A i \in 1 .. N : i # 1 => flatten[i] = flatten[i - 1] \o s[i]
  BY <1>2, <1>5
<1> DEFINE P(i) == /\ flatten[i] \in Seq(D) /\ IsInjective(flatten[i])
                   /\ \A x : x \in Range(flatten[i])
                               <=> \E j \in 1 .. i : x \in Range(s[j])
           Z == {n \in Nat : n + 1 \in 1 .. N => P(n + 1)}
<1>7. P(1)
  <2>1. \A x : x \in Range(s[1]) <=> \E j \in 1 .. 1 : x \in Range(s[j])
    OBVIOUS
  <2> QED
    BY <1>2, <1>6, <2>1
<1>8. 0 \in Z
  BY <1>7
<1>9. ASSUME NEW n \in Nat, n \in Z PROVE n + 1 \in Z
  <2> DEFINE i == n + 1
             k == i + 1
  <2> SUFFICES ASSUME k \in 1 .. N PROVE P(k)
    OBVIOUS
  <2>1. i \in 1 .. N /\ k \in 1 .. N /\ k # 1 /\ k - 1 = i /\ i \in Nat /\ k = i + 1
    OBVIOUS
  <2>2. P(i)
    BY <1>9, <2>1
  <2>3. flatten[k] = flatten[i] \o s[k]
    BY <1>6, <2>1
  <2>4. s[k] \in Seq(D) /\ IsInjective(s[k])
    BY <2>1
  <2> HIDE DEF i, k
  <2>5. Range(flatten[i]) \cap Range(s[k]) = {}
    <3> SUFFICES ASSUME NEW x, x \in Range(flatten[i]), x \in Range(s[k]) PROVE FALSE
      OBVIOUS
    <3>1. PICK j \in 1 .. i : x \in Range(s[j])
      BY <2>2
    <3>2. j \in 1 .. N /\ j # k
      BY <2>1
    <3> QED
      BY <2>1, <3>1, <3>2
  <2>6. /\ flatten[k] \in Seq(D) /\ IsInjective(flatten[k])
        /\ Range(flatten[k]) = Range(flatten[i]) \cup Range(s[k])
    BY <2>2, <2>3, <2>4, <2>5, ConcatOnce
  <2>7. ASSUME NEW x
        PROVE  x \in Range(flatten[k]) <=> \E j \in 1 .. k : x \in Range(s[j])
    <3>1. \A j \in 1 .. k : j \in 1 .. i \/ j = k
      BY <2>1
    <3>2. k \in 1 .. k /\ \A j \in 1 .. i : j \in 1 .. k
      BY <2>1
    <3> QED
      BY <2>2, <2>6, <3>1, <3>2
  <2> QED
    BY <2>6, <2>7
<1> HIDE DEF Z
<1>10. Nat \subseteq Z
  BY <1>8, <1>9, SetInduction
<1>11. N - 1 \in Nat /\ (N - 1) + 1 = N
  OBVIOUS
<1>12. P(N)
  BY <1>2, <1>10, <1>11 DEF Z
<1> QED
  BY <1>3, <1>12

\* The bucket of a cell is one of the table's.
LEMMA BucketInTable ==
  ASSUME NEW a, NEW c, NEW size \in Nat \ {0}, a[c].nHashValue \in Nat
  PROVE  BucketIn(a, c, size) \in 0 .. size - 1
BY DEF BucketIn

\* The traversal of a table meets every cell of it once.
LEMMA TraversalOnce ==
  ASSUME NEW D, NEW a, NEW b, NEW size \in Nat \ {0}, ChainsHold(b, size, a, D),
         \A c \in D : a[c].nHashValue \in Nat
  PROVE  /\ Traversal(b) \in Seq(D) /\ IsInjective(Traversal(b))
         /\ Range(Traversal(b)) = D
<1> DEFINE s == [j \in 1 .. size |-> b[j - 1]]
<1>1. /\ b \in [0 .. size - 1 -> Seq(D)]
      /\ \A j \in 0 .. size - 1 : IsInjective(b[j])
      /\ \A j \in 0 .. size - 1 : \A c \in D :
           c \in Range(b[j]) <=> BucketIn(a, c, size) = j
  BY DEF ChainsHold
<1>2. \A j \in 0 .. size - 1 : b[j] \in Seq(D)
  BY <1>1
<1>3. \A j \in 0 .. size - 1 : Range(b[j]) \subseteq D
  BY <1>2, SeqFacts
<1>4. Traversal(b) = FlattenSeq(s)
  <2>1. DOMAIN b = 0 .. size - 1
    BY <1>1
  <2>2. 0 \in Int /\ size - 1 \in Int
    OBVIOUS
  <2>3. Cardinality(0 .. size - 1) = IF 0 > size - 1 THEN 0 ELSE size - 1 - 0 + 1
    BY <2>2, FS_Interval
  <2>4. Cardinality(DOMAIN b) = size
    BY <2>1, <2>3
  <2> QED
    BY <2>4 DEF Traversal
<1>5. \A i \in 1 .. size : i - 1 \in 0 .. size - 1 /\ s[i] = b[i - 1]
  OBVIOUS
<1>6. s \in [1 .. size -> Seq(D)]
  BY <1>2, <1>5
<1> HIDE DEF s
<1>7. \A i \in 1 .. size : IsInjective(s[i])
  BY <1>1, <1>5
<1>8. \A i, j \in 1 .. size : i # j => Range(s[i]) \cap Range(s[j]) = {}
  <2> SUFFICES ASSUME NEW i \in 1 .. size, NEW j \in 1 .. size, i # j,
                      NEW x, x \in Range(s[i]), x \in Range(s[j])
               PROVE  FALSE
    OBVIOUS
  <2>1. x \in Range(b[i - 1]) /\ x \in Range(b[j - 1]) /\ x \in D
    BY <1>3, <1>5
  <2>2. BucketIn(a, x, size) = i - 1 /\ BucketIn(a, x, size) = j - 1
    BY <1>1, <1>5, <2>1
  <2> QED
    BY <2>2
<1>9. /\ FlattenSeq(s) \in Seq(D) /\ IsInjective(FlattenSeq(s))
      /\ \A x : x \in Range(FlattenSeq(s)) <=> \E i \in 1 .. size : x \in Range(s[i])
  BY <1>6, <1>7, <1>8, FlattenOnce
<1>10. ASSUME NEW x \in D PROVE x \in Range(FlattenSeq(s))
  <2> DEFINE j == BucketIn(a, x, size)
             i == j + 1
  <2>1. j \in 0 .. size - 1
    BY BucketInTable
  <2>2. x \in Range(b[j])
    BY <1>1, <2>1
  <2> HIDE DEF j
  <2>3. i \in 1 .. size /\ i - 1 = j
    BY <2>1
  <2> HIDE DEF i
  <2>4. x \in Range(s[i])
    BY <1>5, <2>2, <2>3
  <2> QED
    BY <1>9, <2>3, <2>4
<1>11. ASSUME NEW x \in Range(FlattenSeq(s)) PROVE x \in D
  BY <1>9, SeqFacts
<1>12. Range(FlattenSeq(s)) = D
  BY <1>10, <1>11
<1> QED
  BY <1>4, <1>9, <1>12

\* Without a table there is nothing to traverse.
LEMMA TraversalOfNothing ==
  ASSUME NEW b, DOMAIN b = {}
  PROVE  Traversal(b) = <<>>
<1>1. Cardinality(DOMAIN b) = 0
  BY FS_EmptySet
<1>2. Traversal(b) = FlattenSeq([j \in 1 .. 0 |-> b[j - 1]])
  BY <1>1 DEF Traversal
<1>3. [j \in 1 .. 0 |-> b[j - 1]] = <<>>
  OBVIOUS
<1> QED
  BY <1>2, <1>3 DEF FlattenSeq

\* Rehash puts every cell into the bucket it has in the new table.
LEMMA RehashOnce ==
  ASSUME NEW D, NEW b, NEW size \in Nat \ {0},
         Traversal(b) \in Seq(D), IsInjective(Traversal(b)), Range(Traversal(b)) = D,
         \A c \in D : assoc[c].nHashValue \in Nat
  PROVE  ChainsHold(Rehash(b, size), size, assoc, D)
<1> DEFINE moving == Traversal(b)
           L == Len(moving)
           T == [0 .. size - 1 -> Seq(D)]
           empty == [j \in 0 .. size - 1 |-> <<>>]
           to(n) == BucketIn(assoc, moving[n], size)
           Moved(f) == [n \in 0 .. L |->
                          IF n = 0 THEN empty
                          ELSE [f[n - 1] EXCEPT ![to(n)] = Cons(moving[n], @)]]
           new == CHOOSE f : f = Moved(f)
           F == [n \in 1 .. L |-> [t \in T |-> [t EXCEPT ![to(n)] = Cons(moving[n], @)]]]
<1>1. Rehash(b, size) = new[L]
  BY DEF Rehash, BucketIn
<1>2. /\ L \in Nat /\ DOMAIN moving = 1 .. L
      /\ \A k \in 1 .. L : moving[k] \in D
      /\ \A x \in D : \E k \in 1 .. L : moving[k] = x
      /\ \A k, l \in 1 .. L : moving[k] = moving[l] => k = l
  BY SeqFacts, SMTT(60) DEF IsInjective
<1> HIDE DEF L, moving
<1>3. \A n \in 1 .. L : to(n) \in 0 .. size - 1
  BY <1>2, BucketInTable
<1>4. empty \in T
  OBVIOUS
<1>5. ASSUME NEW t \in T, NEW n \in 1 .. L
      PROVE  [t EXCEPT ![to(n)] = Cons(moving[n], @)] \in T
  <2>1. t[to(n)] \in Seq(D) /\ moving[n] \in D
    BY <1>2, <1>3
  <2>2. <<moving[n]>> \in Seq(D)
    BY <2>1
  <2>3. Cons(moving[n], t[to(n)]) \in Seq(D)
    BY <2>1, <2>2, ConcatProperties DEF Cons
  <2> QED
    BY <1>3, <2>3
<1>6. \E f : f = Moved(f)
  <2>1. F \in [1 .. L -> [T -> T]]
    BY <1>5
  <2>2. \A n \in 1 .. L : \A t \in T : F[n][t] = [t EXCEPT ![to(n)] = Cons(moving[n], @)]
    OBVIOUS
  <2> HIDE DEF F, T, empty
  <2>3. PICK f : Rounds(f, T, L, empty, F)
    BY <1>2, <1>4, <2>1, Recursion
  <2>4. /\ f \in [0 .. L -> T] /\ f[0] = empty
        /\ \A n \in 1 .. L : f[n] = F[n][f[n - 1]]
    BY <2>3 DEF Rounds
  <2>5. ASSUME NEW n \in 0 .. L, n # 0
        PROVE  f[n] = [f[n - 1] EXCEPT ![to(n)] = Cons(moving[n], @)]
    <3>1. n \in 1 .. L /\ n - 1 \in 0 .. L
      BY <1>2, <2>5
    <3>2. f[n - 1] \in T /\ f[n] = F[n][f[n - 1]]
      BY <2>4, <3>1
    <3> QED
      BY <2>2, <3>1, <3>2
  <2>6. f = Moved(f)
    BY <2>4, <2>5
  <2> QED
    BY <2>6
<1>7. new = Moved(new)
  BY <1>6
<1> HIDE DEF new
<1>8. /\ new[0] = empty
      /\ \A n \in 1 .. L :
           new[n] = [new[n - 1] EXCEPT ![to(n)] = Cons(moving[n], @)]
  <2>1. 0 \in 0 .. L /\ \A n \in 1 .. L : n \in 0 .. L /\ n # 0
    BY <1>2
  <2> QED
    BY <1>7, <2>1
<1> DEFINE P(n) == /\ new[n] \in T
                   /\ \A j \in 0 .. size - 1 : IsInjective(new[n][j])
                   /\ \A j \in 0 .. size - 1 : \A x :
                        x \in Range(new[n][j])
                          <=> \E k \in 1 .. n : moving[k] = x /\ to(k) = j
           Z == {n \in Nat : n \in 0 .. L => P(n)}
<1> HIDE DEF P
<1>9. 0 \in Z
  <2>1. \A j \in 0 .. size - 1 : new[0][j] = <<>>
    BY <1>8
  <2>2. IsInjective(<<>>) /\ Range(<<>>) = {}
    BY DEF IsInjective, Range
  <2>3. \A j \in 0 .. size - 1 : \A x :
          x \in Range(new[0][j]) <=> \E k \in 1 .. 0 : moving[k] = x /\ to(k) = j
    BY <2>1, <2>2
  <2>4. \A j \in 0 .. size - 1 : IsInjective(new[0][j])
    BY <2>1, <2>2
  <2>5. P(0)
    BY <1>4, <1>8, <2>3, <2>4 DEF P
  <2> QED
    BY <2>5
<1>10. ASSUME NEW m \in Nat, m \in Z PROVE m + 1 \in Z
  <2> DEFINE n == m + 1
             t == new[m]
             h == to(n)
             e == moving[n]
             r == Cons(e, t[h])
  <2> SUFFICES ASSUME n \in 0 .. L PROVE P(n)
    OBVIOUS
  <2>1. n \in 1 .. L /\ m \in 0 .. L /\ n - 1 = m
    BY <1>2
  <2>2. /\ t \in T
        /\ \A j \in 0 .. size - 1 : IsInjective(t[j])
        /\ \A j \in 0 .. size - 1 : \A x :
             x \in Range(t[j]) <=> \E k \in 1 .. m : moving[k] = x /\ to(k) = j
    BY <1>10, <2>1 DEF P
  <2>3. h \in 0 .. size - 1 /\ e \in D
    BY <1>2, <1>3, <2>1
  <2>4. t \in T /\ t[h] \in Seq(D) /\ IsInjective(t[h])
    BY <2>2, <2>3
  <2>5. new[n] = [t EXCEPT ![h] = r]
    BY <1>8, <2>1
  <2>6. e = moving[n] /\ h = to(n)
    OBVIOUS
  <2> HIDE DEF t, h, e
  <2>6A. e \notin Range(t[h])
    <3> SUFFICES ASSUME e \in Range(t[h]) PROVE FALSE
      OBVIOUS
    <3>1. PICK k \in 1 .. m : moving[k] = e
      BY <2>2, <2>3
    <3>2. k \in 1 .. L /\ k # n
      BY <1>2, <2>1
    <3> QED
      BY <1>2, <2>1, <2>6, <3>1, <3>2
  <2> HIDE DEF r
  <2>7. /\ r \in Seq(D) /\ IsInjective(r)
        /\ Range(r) = {e} \cup Range(t[h])
    BY <2>3, <2>4, <2>6A, ConsOnce DEF r
  <2>8. new[n] \in T
    BY <2>3, <2>4, <2>5, <2>7
  <2>9. \A j \in 0 .. size - 1 : new[n][j] = IF j = h THEN r ELSE t[j]
    BY <2>3, <2>4, <2>5
  <2>10. \A j \in 0 .. size - 1 : IsInjective(new[n][j])
    BY <2>2, <2>7, <2>9
  <2>11. ASSUME NEW j \in 0 .. size - 1, NEW x
         PROVE  x \in Range(new[n][j])
                  <=> \E k \in 1 .. n : moving[k] = x /\ to(k) = j
    <3>1. n \in 1 .. n /\ (\A k \in 1 .. m : k \in 1 .. n)
          /\ \A k \in 1 .. n : k \in 1 .. m \/ k = n
      BY <2>1
    <3>2. x \in Range(t[j]) <=> \E k \in 1 .. m : moving[k] = x /\ to(k) = j
      BY <2>2
    <3>3. CASE j = h
      BY <2>6, <2>7, <2>9, <3>1, <3>2, <3>3
    <3>4. CASE j # h
      BY <2>6, <2>9, <3>1, <3>2, <3>4
    <3> QED
      BY <3>3, <3>4
  <2> QED
    BY <2>8, <2>10, <2>11 DEF P
<1> HIDE DEF Z
<1>11. Nat \subseteq Z
  BY <1>9, <1>10, SetInduction
<1>12. P(L)
  <2>1. L \in Nat /\ L \in 0 .. L
    BY <1>2
  <2> QED
    BY <1>11, <2>1 DEF Z
<1> USE DEF P
<1>13. ASSUME NEW j \in 0 .. size - 1, NEW c \in D
       PROVE  c \in Range(new[L][j]) <=> BucketIn(assoc, c, size) = j
  BY <1>2, <1>12, ZenonT(60)
<1> QED
  BY <1>1, <1>12, <1>13 DEF ChainsHold

-----------------------------------------------------------------------------
(* InitHashTable *)

\* The loop of InitHashTable ends with a number that is not below n.
LEMMA PowerIsAbove ==
  ASSUME NEW n \in Nat
  PROVE  PowerAbove(n) \in Nat \ {0} /\ PowerAbove(n) >= n
<1> DEFINE T == Nat \ {0}
           Doubled(f) == [k \in 0 .. n |->
                            IF k = 0 THEN 1
                            ELSE IF f[k - 1] < n THEN f[k - 1] * 2 ELSE f[k - 1]]
           b2 == CHOOSE f : f = Doubled(f)
           F == [k \in 1 .. n |-> [x \in T |-> IF x < n THEN x * 2 ELSE x]]
<1>1. PowerAbove(n) = b2[n]
  BY DEF PowerAbove
<1>2. \E f : f = Doubled(f)
  <2>1. F \in [1 .. n -> [T -> T]]
    OBVIOUS
  <2>2. \A k \in 1 .. n : \A x \in T : F[k][x] = IF x < n THEN x * 2 ELSE x
    OBVIOUS
  <2>3. 1 \in T
    OBVIOUS
  <2> HIDE DEF F, T
  <2>4. PICK f : Rounds(f, T, n, 1, F)
    BY <2>1, <2>3, Recursion
  <2>5. /\ f \in [0 .. n -> T] /\ f[0] = 1
        /\ \A k \in 1 .. n : f[k] = F[k][f[k - 1]]
    BY <2>4 DEF Rounds
  <2>6. ASSUME NEW k \in 0 .. n, k # 0
        PROVE  f[k] = IF f[k - 1] < n THEN f[k - 1] * 2 ELSE f[k - 1]
    <3>1. k \in 1 .. n /\ k - 1 \in 0 .. n
      BY <2>6
    <3>2. f[k - 1] \in T /\ f[k] = F[k][f[k - 1]]
      BY <2>5, <3>1
    <3> QED
      BY <2>2, <3>1, <3>2
  <2>7. f = Doubled(f)
    BY <2>5, <2>6
  <2> QED
    BY <2>7
<1>3. b2 = Doubled(b2)
  BY <1>2
<1> HIDE DEF b2
<1>4. /\ b2[0] = 1
      /\ \A k \in 1 .. n : b2[k] = IF b2[k - 1] < n THEN b2[k - 1] * 2 ELSE b2[k - 1]
  <2>1. 0 \in 0 .. n /\ \A k \in 1 .. n : k \in 0 .. n /\ k # 0
    OBVIOUS
  <2> QED
    BY <1>3, <2>1
<1> DEFINE P(k) == b2[k] \in Nat \ {0} /\ (b2[k] >= n \/ b2[k] > k)
           Z == {k \in Nat : k <= n => P(k)}
<1>5. 0 \in Z
  BY <1>4
<1>6. ASSUME NEW k \in Nat, k \in Z PROVE k + 1 \in Z
  <2> SUFFICES ASSUME k + 1 <= n PROVE P(k + 1)
    OBVIOUS
  <2> DEFINE x == b2[k]
  <2>1. x \in Nat \ {0} /\ (x >= n \/ x > k)
    BY <1>6
  <2>2. k + 1 \in 1 .. n /\ (k + 1) - 1 = k
    OBVIOUS
  <2>3. b2[k + 1] = IF x < n THEN x * 2 ELSE x
    BY <1>4, <2>2
  <2> HIDE DEF x
  <2> QED
    BY <2>1, <2>3
<1> HIDE DEF Z
<1>7. Nat \subseteq Z
  BY <1>5, <1>6, SetInduction
<1>8. P(n)
  BY <1>7 DEF Z
<1> QED
  BY <1>1, <1>8

\* Max and Min of two numbers
LEMMA MaxOfTwo ==
  ASSUME NEW x \in Nat, NEW y \in Nat
  PROVE  Max({x, y}) \in Nat /\ Max({x, y}) >= x /\ Max({x, y}) >= y
<1>1. \E m \in {x, y} : \A k \in {x, y} : m >= k
  BY x >= y \/ y >= x
<1> QED
  BY <1>1 DEF Max

\* The same for Min
LEMMA MinOfTwo ==
  ASSUME NEW x \in Nat, NEW y \in Nat
  PROVE  Min({x, y}) = x \/ Min({x, y}) = y
<1>1. \E m \in {x, y} : \A k \in {x, y} : m =< k
  BY x =< y \/ y =< x
<1> QED
  BY <1>1 DEF Min

\* The sizes that InitHashTable computes
LEMMA NewSizes ==
  ASSUME NEW n \in Nat
  PROVE  /\ NewSize(n) \in Nat /\ NewSize(n) > n /\ NewSize(n) >= 2
         /\ BlockSize(NewSize(n)) \in Nat /\ BlockSize(NewSize(n)) > 0
<1> DEFINE m == Max({n, DEFAULT_HASH_TABLE_SIZE})
           p == PowerAbove(m)
           s == NewSize(n)
           q == s \div DEFAULT_BLOCK_SIZE_RATIO
<1>1. m \in Nat /\ m >= n /\ m >= DEFAULT_HASH_TABLE_SIZE
  BY MaxOfTwo, SizesArePositive
<1> HIDE DEF m
<1>2. p \in Nat \ {0} /\ p >= m
  BY <1>1, PowerIsAbove
<1> HIDE DEF p
<1>3. s = p + 1
  BY DEF NewSize, p, m
<1>4. s \in Nat /\ s > n /\ s >= 2 /\ s > DEFAULT_HASH_TABLE_SIZE
  BY <1>1, <1>2, <1>3, SizesArePositive
<1> HIDE DEF s
<1>5. q \in Nat /\ q > 0
  <2> DEFINE r == DEFAULT_BLOCK_SIZE_RATIO
  <2>1. r \in Nat \ {0} /\ s >= r
    BY <1>4, SizesArePositive
  <2> HIDE DEF r
  <2>2. s \div r \in Nat /\ s \div r > 0
    BY <1>4, <2>1
  <2> QED
    BY <2>2 DEF r
<1> HIDE DEF q
<1>6. Min({DEFAULT_MAX_BLOCK_SIZE, q}) = DEFAULT_MAX_BLOCK_SIZE
      \/ Min({DEFAULT_MAX_BLOCK_SIZE, q}) = q
  BY <1>5, MinOfTwo, SizesArePositive
<1>7. BlockSize(s) \in Nat /\ BlockSize(s) > 0
  BY <1>5, <1>6, SizesArePositive DEF BlockSize, q
<1> QED
  BY <1>4, <1>7 DEF s

\* A table that holds the cells D and is large enough for them
TableFor(t, count, D) ==
  /\ t.size \in Nat /\ t.size >= 2 /\ count < t.size
  /\ t.block \in Nat /\ t.block > 0
  /\ ChainsHold(t.buckets, t.size, assoc, D)

\* A table that is rebuilt
LEMMA Rebuilt ==
  ASSUME NEW n \in Nat, NEW count \in Nat, NEW D, NEW b,
         Traversal(b) \in Seq(D), IsInjective(Traversal(b)), Range(Traversal(b)) = D,
         \A c \in D : assoc[c].nHashValue \in Nat,
         m_nHashTableSize \in Nat, count < m_nHashTableSize,
         n > count \/ n > m_nHashTableSize
  PROVE  TableFor(InitHashTable(n, b, count), count, D)
<1> DEFINE s == NewSize(n)
           t == InitHashTable(n, b, count)
<1>1. s \in Nat /\ s > n /\ s >= 2 /\ BlockSize(s) \in Nat /\ BlockSize(s) > 0
  BY NewSizes
<1>2. t = [buckets |-> Rehash(b, s), size |-> s, block |-> BlockSize(s)]
  BY DEF InitHashTable
<1> HIDE DEF s
<1>3. s \in Nat \ {0} /\ count < s
  BY <1>1
<1>4. ChainsHold(Rehash(b, s), s, assoc, D)
  BY <1>3, RehashOnce
<1> HIDE DEF t
<1>5. t.size = s /\ t.block = BlockSize(s) /\ t.buckets = Rehash(b, s)
  BY <1>2
<1>6. TableFor(t, count, D)
  BY <1>1, <1>3, <1>4, <1>5 DEF TableFor
<1> QED
  BY <1>6 DEF t

\* InitHashTable of a table keeps it or rebuilds it.
LEMMA InitOK ==
  ASSUME NEW n \in Nat, NEW count \in Nat, NEW D, NEW b,
         ChainsHold(b, m_nHashTableSize, assoc, D),
         \A c \in D : assoc[c].nHashValue \in Nat,
         m_nHashTableSize \in Nat, m_nHashTableSize >= 2, count < m_nHashTableSize,
         m_nBlockSize \in Nat, m_nBlockSize > 0
  PROVE  /\ TableFor(Kept(b), count, D)
         /\ TableFor(InitHashTable(n, b, count), count, D)
<1>1. TableFor(Kept(b), count, D)
  BY DEF TableFor, Kept
<1>2. CASE n > count \/ n > m_nHashTableSize
  <2>1. m_nHashTableSize \in Nat \ {0}
    OBVIOUS
  <2>2. /\ Traversal(b) \in Seq(D) /\ IsInjective(Traversal(b))
        /\ Range(Traversal(b)) = D
    BY <2>1, TraversalOnce
  <2> QED
    BY <1>1, <1>2, <2>2, Rebuilt
<1>3. CASE ~(n > count \/ n > m_nHashTableSize)
  BY <1>1, <1>3 DEF InitHashTable
<1> QED
  BY <1>2, <1>3

\* The first table
LEMMA FirstTable ==
  ASSUME NEW n \in Nat, NEW b, DOMAIN b = {}, m_nHashTableSize \in Nat \ {0}, n > 0
  PROVE  TableFor(InitHashTable(n, b, 0), 0, {})
<1>1. Traversal(b) = <<>>
  BY TraversalOfNothing
<1>2. <<>> \in Seq({}) /\ IsInjective(<<>>) /\ Range(<<>>) = {}
  BY DEF IsInjective, Range
<1>3. 0 \in Nat /\ 0 < m_nHashTableSize /\ m_nHashTableSize \in Nat
  OBVIOUS
<1>4. \A c \in {} : assoc[c].nHashValue \in Nat
  OBVIOUS
<1> QED
  BY <1>1, <1>2, <1>3, <1>4, Rebuilt

-----------------------------------------------------------------------------
(* GetAssocAt *)

\* What the invariant says of a cell in use
LEMMA CellFacts ==
  ASSUME Inv, NEW c \in DOMAIN assoc
  PROVE  /\ assoc[c].key \in Key /\ assoc[c].value \in Value
         /\ assoc[c].nHashValue \in Nat
         /\ assoc[c].nHashValue = HashKey[assoc[c].key]
         /\ c \in 1 .. cells /\ c # NULL
         /\ HasTable
<1>1. assoc[c] \in Association
  BY DEF Inv, CellsOK
<1>2. c \in 1 .. cells /\ cells \in Nat
  BY DEF Inv, PoolOK
<1> QED
  BY <1>1, <1>2 DEF Inv, CellsOK, TableOK, Association, NULL

\* The table when there is one
LEMMA TableFacts ==
  ASSUME Inv, HasTable
  PROVE  /\ m_nHashTableSize \in Nat \ {0} /\ m_nHashTableSize >= 2
         /\ m_nCount \in Nat /\ m_nCount < m_nHashTableSize
         /\ m_nBlockSize \in Nat /\ m_nBlockSize > 0
         /\ DOMAIN m_pHashTable = 0 .. m_nHashTableSize - 1
         /\ ChainsHold(m_pHashTable, m_nHashTableSize, assoc, DOMAIN assoc)
<1>1. m_nCount \in Nat
  <2>1. DOMAIN assoc \subseteq 1 .. cells /\ 1 \in Int /\ cells \in Int
    BY DEF Inv, PoolOK
  <2>2. IsFiniteSet(1 .. cells)
    BY <2>1, FS_Interval
  <2>3. IsFiniteSet(DOMAIN assoc)
    BY <2>1, <2>2, FS_Subset
  <2> QED
    BY <2>3, FS_CardinalityType DEF Inv, PoolOK
<1>2. DOMAIN m_pHashTable = 0 .. m_nHashTableSize - 1
  BY DEF Inv, TableOK, ChainsHold
<1> QED
  BY <1>1, <1>2 DEF Inv, TableOK

\* A chain of the table
LEMMA ChainFacts ==
  ASSUME Inv, HasTable, NEW j \in 0 .. m_nHashTableSize - 1
  PROVE  /\ m_pHashTable[j] \in Seq(DOMAIN assoc) /\ IsInjective(m_pHashTable[j])
         /\ \A c \in DOMAIN assoc :
              c \in Range(m_pHashTable[j]) <=> BucketIn(assoc, c, m_nHashTableSize) = j
BY TableFacts DEF ChainsHold

\* Where a key's chain is
LEMMA KeyBucket ==
  ASSUME Inv, HasTable, NEW key \in Key
  PROVE  Bucket(HashKey[key]) \in 0 .. m_nHashTableSize - 1
<1>1. HashKey[key] \in Nat /\ m_nHashTableSize \in Nat \ {0}
  BY HashIsNatural, TableFacts
<1> QED
  BY <1>1 DEF Bucket

\* A key with a cell is found in its chain.
LEMMA Found ==
  ASSUME Inv, NEW c \in DOMAIN assoc
  PROVE  LET key == assoc[c].key
             chain == m_pHashTable[Bucket(HashKey[key])]
             k == Position(chain, key) IN
         GetAssocAt(key) = c /\ k \in 1 .. Len(chain) /\ chain[k] = c
<1> DEFINE key == assoc[c].key
           j == Bucket(HashKey[key])
           chain == m_pHashTable[j]
           k == Position(chain, key)
           I == {i \in 1 .. Len(chain) : Matches(chain[i], key)}
<1>1. HasTable /\ key \in Key /\ assoc[c].nHashValue = HashKey[key]
  BY CellFacts
<1>2. j \in 0 .. m_nHashTableSize - 1
  BY <1>1, KeyBucket
<1>3. BucketIn(assoc, c, m_nHashTableSize) = j
  BY <1>1 DEF BucketIn, Bucket
<1>4. key = assoc[c].key
  OBVIOUS
<1>5. k = IF I # {} THEN Min(I) ELSE 0
  BY DEF Position, SelectInSeq
<1>6. GetAssocAt(key) = IF k = 0 THEN NULL ELSE chain[k]
  BY <1>1 DEF GetAssocAt
<1> HIDE DEF key, j
<1>7. chain \in Seq(DOMAIN assoc) /\ c \in Range(chain)
  BY <1>1, <1>2, <1>3, ChainFacts
<1>8. /\ Len(chain) \in Nat /\ \A i \in 1 .. Len(chain) : chain[i] \in DOMAIN assoc
      /\ \E i \in 1 .. Len(chain) : chain[i] = c
  BY <1>7, SeqFacts
<1> HIDE DEF chain, k
<1>9. PICK i \in 1 .. Len(chain) : chain[i] = c
  BY <1>8
<1>10. I \subseteq Nat /\ i \in I
  BY <1>1, <1>4, <1>8, <1>9 DEF Matches
<1> HIDE DEF I
<1>11. k \in I
  BY <1>5, <1>10, MinIsLeast
<1>12. k \in 1 .. Len(chain) /\ assoc[chain[k]].key = key
  BY <1>11 DEF I, Matches
<1>13. chain[k] = c
  BY <1>4, <1>8, <1>12 DEF Inv, CellsOK
<1>14. k # 0
  BY <1>12
<1>15. GetAssocAt(key) = c
  BY <1>6, <1>13, <1>14
<1> QED
  BY <1>12, <1>13, <1>15 DEF key, j, chain, k

\* A key without a cell is not found.
LEMMA Absent ==
  ASSUME Inv, NEW key \in Key, \A c \in DOMAIN assoc : assoc[c].key # key
  PROVE  GetAssocAt(key) = NULL
<1>1. CASE ~HasTable
  BY <1>1 DEF GetAssocAt
<1>2. CASE HasTable
  <2> DEFINE j == Bucket(HashKey[key])
             chain == m_pHashTable[j]
             k == Position(chain, key)
             I == {i \in 1 .. Len(chain) : Matches(chain[i], key)}
  <2>1. k = IF I # {} THEN Min(I) ELSE 0
    BY DEF Position, SelectInSeq
  <2>2. GetAssocAt(key) = IF k = 0 THEN NULL ELSE chain[k]
    BY <1>2 DEF GetAssocAt
  <2>3. j \in 0 .. m_nHashTableSize - 1
    BY <1>2, KeyBucket
  <2> HIDE DEF j
  <2>4. chain \in Seq(DOMAIN assoc)
    BY <1>2, <2>3, ChainFacts
  <2>5. \A i \in 1 .. Len(chain) : chain[i] \in DOMAIN assoc
    BY <2>4, SeqFacts
  <2>6. I = {}
    BY <2>5 DEF Matches
  <2> QED
    BY <2>1, <2>2, <2>6
<1> QED
  BY <1>1, <1>2

\* Both together: GetAssocAt answers the cell of the key, if there is one.
LEMMA Lookup ==
  ASSUME Inv, NEW key \in Key
  PROVE  \/ /\ GetAssocAt(key) \in DOMAIN assoc /\ assoc[GetAssocAt(key)].key = key
            /\ GetAssocAt(key) # NULL
         \/ /\ GetAssocAt(key) = NULL
            /\ \A c \in DOMAIN assoc : assoc[c].key # key
<1>1. CASE \A c \in DOMAIN assoc : assoc[c].key # key
  BY <1>1, Absent
<1>2. ASSUME NEW c \in DOMAIN assoc, assoc[c].key = key
      PROVE  /\ GetAssocAt(key) \in DOMAIN assoc /\ assoc[GetAssocAt(key)].key = key
             /\ GetAssocAt(key) # NULL
  <2>1. GetAssocAt(assoc[c].key) = c
    BY Found
  <2>2. c # NULL
    BY CellFacts
  <2> QED
    BY <1>2, <2>1, <2>2
<1> QED
  BY <1>1, <1>2

-----------------------------------------------------------------------------
(* The actions *)

\* The chains depend on the hashes of the cells only.
LEMMA SameChains ==
  ASSUME NEW b, NEW size, NEW a, NEW a2, NEW D, ChainsHold(b, size, a, D),
         \A d \in D : a2[d].nHashValue = a[d].nHashValue
  PROVE  ChainsHold(b, size, a2, D)
<1>1. \A d \in D : BucketIn(a2, d, size) = BucketIn(a, d, size)
  BY DEF BucketIn
<1> QED
  BY <1>1 DEF ChainsHold

\* A sequence is one over any set that has its elements.
LEMMA SeqOver ==
  ASSUME NEW S, NEW s \in Seq(S), NEW U, Range(s) \subseteq U
  PROVE  s \in Seq(U)
<1>1. Len(s) \in Nat /\ DOMAIN s = 1 .. Len(s) /\ s \in [1 .. Len(s) -> S]
  BY LenProperties
<1>2. \A k \in 1 .. Len(s) : s[k] \in U
  BY SeqFacts
<1> DEFINE n == Len(s)
<1> HIDE DEF n
<1>3. n \in Nat /\ s \in [1 .. n -> U]
  BY <1>1, <1>2 DEF n
<1> QED
  BY <1>3, SeqDef

\* The initial state
LEMMA InitInv ==
  ASSUME Init
  PROVE  Inv
<1>1. DOMAIN m_pHashTable = {} /\ DOMAIN assoc = {}
  BY DEF Init
<1>2. CellsOK
  BY <1>1 DEF Init, CellsOK
<1>3. <<>> \in Seq(1 .. 0) /\ IsInjective(<<>>) /\ Range(<<>>) = {}
  BY DEF IsInjective, Range
<1>4. Cardinality({}) = 0
  BY FS_EmptySet
<1>5. PoolOK
  BY <1>1, <1>3, <1>4 DEF Init, PoolOK
<1>6. TableOK
  BY <1>1, SizesArePositive DEF Init, TableOK, HasTable
<1>7. IterationOK
  <2>1. <<>> \in Seq(Key)
    OBVIOUS
  <2> QED
    BY <1>3, <2>1 DEF Init, IterationOK
<1> QED
  BY <1>2, <1>5, <1>6, <1>7 DEF Inv

\* No iteration, and none afterwards
LEMMA NoIteration ==
  ASSUME Inv, ~iterating, UNCHANGED iteration
  PROVE  IterationOK'
<1>1. iterating' = iterating /\ pos' = pos /\ visited' = visited
  BY Zenon DEF iteration
<1>2. /\ iterating \in BOOLEAN /\ visited \in Seq(Key) /\ IsInjective(visited)
      /\ pos = NULL
  BY DEF Inv, IterationOK
<1>3. IsInjective(visited')
  BY <1>1, <1>2
<1>4. NULL' = NULL
  BY DEF NULL
<1>5. iterating' = FALSE
  BY <1>1, <1>2
<1> QED
  BY <1>1, <1>2, <1>3, <1>4, <1>5 DEF IterationOK

\* Cells that keep their key and hash, in a table that stays as it is
LEMMA SameCells ==
  ASSUME Inv, UNCHANGED <<table, pool>>, DOMAIN assoc' = DOMAIN assoc,
         assoc' \in [DOMAIN assoc -> Association],
         \A d \in DOMAIN assoc : /\ assoc'[d].key = assoc[d].key
                                 /\ assoc'[d].nHashValue = assoc[d].nHashValue
  PROVE  /\ CellsOK' /\ PoolOK' /\ TableOK'
         /\ \A c \in DOMAIN assoc : Passed(c)' = Passed(c)
         /\ \A D \in SUBSET DOMAIN assoc : KeysOf(D)' = KeysOf(D)
<1> DEFINE D == DOMAIN assoc
<1>1. /\ m_pHashTable' = m_pHashTable /\ m_nHashTableSize' = m_nHashTableSize
      /\ m_nBlockSize' = m_nBlockSize /\ m_nCount' = m_nCount
      /\ m_pFreeList' = m_pFreeList /\ cells' = cells
  BY Zenon DEF table, pool
<1>2. CellsOK'
  BY DEF Inv, CellsOK, Association
<1>3. PoolOK'
  BY <1>1 DEF Inv, PoolOK
<1>4. HasTable' <=> HasTable
  BY <1>1 DEF HasTable
<1>5. HasTable => ChainsHold(m_pHashTable', m_nHashTableSize', assoc', DOMAIN assoc')
  BY <1>1, SameChains DEF Inv, TableOK
<1>6. TableOK'
  BY <1>1, <1>4, <1>5 DEF Inv, TableOK
<1>7. \A d \in D : BucketIn(assoc, d, m_nHashTableSize)'
                     = BucketIn(assoc, d, m_nHashTableSize)
  BY <1>1 DEF BucketIn
<1>8. \A c, d \in D : Before(d, c)' <=> Before(d, c)
  BY <1>1, <1>7 DEF Before
<1>9. \A c \in D : Passed(c)' = Passed(c)
  BY <1>8 DEF Passed
<1>10. \A E \in SUBSET D : KeysOf(E)' = KeysOf(E)
  BY DEF KeysOf
<1> QED
  BY <1>2, <1>3, <1>6, <1>9, <1>10

\* SetAt of a key that is present
LEMMA SetExistingKeeps ==
  ASSUME Inv, NEW key \in Key, NEW value \in Value, SetExisting(key, value)
  PROVE  Inv'
<1> DEFINE c == GetAssocAt(key)
           D == DOMAIN assoc
<1>1. c \in D
  BY Lookup DEF SetExisting
<1>2. assoc' = [assoc EXCEPT ![c].value = value]
  BY DEF SetExisting
<1>3. UNCHANGED <<table, pool>> /\ UNCHANGED iteration
  BY DEF SetExisting
<1> HIDE DEF c
<1>4. assoc \in [D -> Association]
  BY DEF Inv, CellsOK
<1>5. /\ DOMAIN assoc' = D
      /\ assoc' \in [D -> Association]
      /\ \A d \in D : /\ assoc'[d].key = assoc[d].key
                      /\ assoc'[d].nHashValue = assoc[d].nHashValue
  BY <1>1, <1>2, <1>4 DEF Association
<1>6. /\ CellsOK' /\ PoolOK' /\ TableOK'
      /\ \A d \in D : Passed(d)' = Passed(d)
      /\ \A E \in SUBSET D : KeysOf(E)' = KeysOf(E)
  BY <1>3, <1>5, SameCells
<1>7. IterationOK'
  <2>1. iterating' = iterating /\ pos' = pos /\ visited' = visited
    BY <1>3, Zenon DEF iteration
  <2>2. /\ iterating' \in BOOLEAN /\ visited' \in Seq(Key) /\ IsInjective(visited')
        /\ ~iterating' => pos' = NULL'
    BY <2>1 DEF Inv, IterationOK, NULL
  <2>3. ASSUME iterating'
        PROVE  /\ DOMAIN assoc' # {}
               /\ \/ pos' = BEFORE_START_POSITION' /\ visited' = <<>>
                  \/ pos' = NULL' /\ Range(visited') = KeysOf(DOMAIN assoc)'
                  \/ pos' \in DOMAIN assoc' /\ Range(visited') = KeysOf(Passed(pos))'
    <3>1. iterating
      BY <2>1, <2>3
    <3>2. KeysOf(DOMAIN assoc)' = KeysOf(DOMAIN assoc)
      BY <1>5, <1>6
    <3>3. pos \in D => KeysOf(Passed(pos))' = KeysOf(Passed(pos))
      <4> SUFFICES ASSUME pos \in D PROVE KeysOf(Passed(pos))' = KeysOf(Passed(pos))
        OBVIOUS
      <4>1. Passed(pos) \in SUBSET D
        BY DEF Passed
      <4>2. Passed(pos)' = Passed(pos)
        BY <1>6, <2>1 DEF Passed, Before
      <4> QED
        BY <1>6, <2>1, <4>1, <4>2 DEF KeysOf
    <3> QED
      BY <1>5, <2>1, <3>1, <3>2, <3>3 DEF Inv, IterationOK, NULL, BEFORE_START_POSITION
  <2> QED
    BY <2>2, <2>3 DEF IterationOK
<1> QED
  BY <1>6, <1>7 DEF Inv

\* The first element of a sequence and the others
LEMMA TailOnce ==
  ASSUME NEW S, NEW s \in Seq(S), IsInjective(s), s # <<>>
  PROVE  /\ Head(s) \in Range(s)
         /\ Tail(s) \in Seq(S) /\ IsInjective(Tail(s))
         /\ Range(Tail(s)) = Range(s) \ {Head(s)}
<1> DEFINE n == Len(s)
           t == Tail(s)
<1>1. /\ n \in Nat /\ DOMAIN s = 1 .. n
      /\ \A k \in 1 .. n : s[k] \in Range(s)
      /\ \A x \in Range(s) : \E k \in 1 .. n : s[k] = x
  BY SeqFacts
<1>2. /\ Head(s) = s[1] /\ t \in Seq(S) /\ Len(t) = n - 1
      /\ \A k \in 1 .. Len(t) : t[k] = s[k + 1]
  BY HeadTailProperties
<1>3. n >= 1
  BY <1>1, EmptySeq
<1> HIDE DEF n, t
<1>4. DOMAIN t = 1 .. n - 1
  BY <1>2, LenProperties
<1>5. IsInjective(t)
  <2> SUFFICES ASSUME NEW k \in 1 .. n - 1, NEW l \in 1 .. n - 1, t[k] = t[l]
               PROVE  k = l
    BY <1>4 DEF IsInjective
  <2>1. k + 1 \in DOMAIN s /\ l + 1 \in DOMAIN s
    BY <1>1
  <2>2. s[k + 1] = s[l + 1]
    BY <1>2
  <2>3. k + 1 = l + 1
    BY <2>1, <2>2 DEF IsInjective
  <2> QED
    BY <1>1, <2>3
<1>6. ASSUME NEW x \in Range(t) PROVE x \in Range(s) \ {s[1]}
  <2>1. PICK k \in 1 .. n - 1 : t[k] = x
    BY <1>4 DEF Range
  <2>2. k + 1 \in 1 .. n /\ k + 1 # 1 /\ 1 \in 1 .. n
    BY <1>1
  <2>3. s[k + 1] = x
    BY <1>2, <2>1
  <2>4. s[k + 1] # s[1]
    BY <1>1, <2>2 DEF IsInjective
  <2> QED
    BY <1>1, <2>2, <2>3, <2>4
<1>7. ASSUME NEW x \in Range(s) \ {s[1]} PROVE x \in Range(t)
  <2>1. PICK k \in 1 .. n : s[k] = x
    BY <1>1
  <2> DEFINE l == k - 1
  <2>2. l \in 1 .. n - 1 /\ l + 1 = k
    BY <1>1, <2>1
  <2> HIDE DEF l
  <2>3. t[l] = x /\ l \in DOMAIN t
    BY <1>2, <1>4, <2>1, <2>2
  <2> QED
    BY <2>3 DEF Range
<1>8. Range(t) = Range(s) \ {s[1]}
  BY <1>6, <1>7
<1>9. s[1] \in Range(s)
  BY <1>1, <1>3
<1> QED
  BY <1>2, <1>5, <1>8, <1>9 DEF t

\* The cells in use are finitely many.
LEMMA CountFacts ==
  ASSUME Inv
  PROVE  /\ IsFiniteSet(DOMAIN assoc) /\ m_nCount = Cardinality(DOMAIN assoc)
         /\ m_nCount \in Nat
<1>1. DOMAIN assoc \subseteq 1 .. cells /\ 1 \in Int /\ cells \in Int
  BY DEF Inv, PoolOK
<1>2. IsFiniteSet(1 .. cells)
  BY <1>1, FS_Interval
<1>3. IsFiniteSet(DOMAIN assoc)
  BY <1>1, <1>2, FS_Subset
<1> QED
  BY <1>3, FS_CardinalityType DEF Inv, PoolOK

\* The table that a new key is added to has room for it.
LEMMA GrownOK ==
  ASSUME Inv
  PROVE  TableFor(Grown, m_nCount + 1, DOMAIN assoc)
<1> DEFINE D == DOMAIN assoc
           size == m_nHashTableSize
           count == m_nCount
<1>1. count \in Nat /\ size \in Nat \ {0}
  BY CountFacts DEF Inv, TableOK
<1>2. \A c \in D : assoc[c].nHashValue \in Nat
  BY CellFacts
<1>3. CASE ~HasTable
  <2>1. D = {} /\ count = 0
    BY <1>3, FS_EmptySet DEF Inv, TableOK, PoolOK
  <2>2. DOMAIN m_pHashTable = {} /\ size \in Nat /\ size > 0
    BY <1>1, <1>3 DEF HasTable
  <2>3. TableFor(InitHashTable(size, m_pHashTable, 0), 0, {})
    BY <2>2, FirstTable
  <2>4. Grown = InitHashTable(size, m_pHashTable, 0)
    BY <1>3, <2>1 DEF Grown
  <2> QED
    BY <2>1, <2>3, <2>4 DEF TableFor
<1>4. CASE HasTable
  <2>1. /\ size >= 2 /\ count < size /\ m_nBlockSize \in Nat /\ m_nBlockSize > 0
        /\ ChainsHold(m_pHashTable, size, assoc, D)
    BY <1>4, TableFacts
  <2>2. CASE count * 2 >= size
    <3> DEFINE n == size * 2
               t == InitHashTable(n, m_pHashTable, count)
    <3>1. n \in Nat /\ n > count /\ n > count + 1
      BY <1>1, <2>1
    <3>2. Grown = t
      BY <1>4, <2>2 DEF Grown
    <3>3. TableFor(t, count, D)
      BY <1>1, <1>2, <2>1, <3>1, InitOK
    <3>4. t.size = NewSize(n)
      BY <3>1 DEF InitHashTable
    <3>5. NewSize(n) \in Nat /\ NewSize(n) > n
      BY <3>1, NewSizes
    <3> HIDE DEF n, t
    <3>6. count + 1 < t.size
      BY <1>1, <3>1, <3>4, <3>5
    <3> QED
      BY <3>2, <3>3, <3>6 DEF TableFor
  <2>3. CASE ~(count * 2 >= size)
    <3>1. count + 1 < size
      BY <1>1, <2>1, <2>3
    <3>2. Grown = Kept(m_pHashTable)
      BY <1>4, <2>3 DEF Grown
    <3> QED
      BY <1>1, <2>1, <3>1, <3>2 DEF TableFor, Kept
  <2> QED
    BY <2>2, <2>3
<1> QED
  BY <1>3, <1>4

\* The free list that a cell is taken from
LEMMA ReplenishedOK ==
  ASSUME Inv, NEW block \in Nat, block > 0
  PROVE  LET free == Replenished(block)
             all == IF m_pFreeList = <<>> THEN cells + block ELSE cells IN
         /\ all \in Nat /\ free \in Seq(1 .. all) /\ IsInjective(free) /\ free # <<>>
         /\ DOMAIN assoc \cup Range(free) = 1 .. all
         /\ DOMAIN assoc \cap Range(free) = {}
<1> DEFINE D == DOMAIN assoc
<1>1. /\ cells \in Nat /\ m_pFreeList \in Seq(1 .. cells) /\ IsInjective(m_pFreeList)
      /\ D \cup Range(m_pFreeList) = 1 .. cells
      /\ D \cap Range(m_pFreeList) = {}
  BY DEF Inv, PoolOK
<1>2. CASE m_pFreeList # <<>>
  BY <1>1, <1>2 DEF Replenished
<1>3. CASE m_pFreeList = <<>>
  <2> DEFINE free == [k \in 1 .. block |-> cells + k]
             all == cells + block
  <2>1. Replenished(block) = free
    BY <1>3 DEF Replenished
  <2>2. Range(m_pFreeList) = {}
    BY <1>3 DEF Range
  <2>3. D = 1 .. cells
    BY <1>1, <2>2
  <2>4. all \in Nat /\ \A k \in 1 .. block : cells + k \in 1 .. all
    BY <1>1
  <2>5. free \in [1 .. block -> 1 .. all]
    BY <2>4
  <2>6. DOMAIN free = 1 .. block /\ \A k \in 1 .. block : free[k] = cells + k
    OBVIOUS
  <2> HIDE DEF free, all
  <2>7. free \in Seq(1 .. all)
    BY <2>5, SeqDef
  <2>8. IsInjective(free)
    BY <1>1, <2>6 DEF IsInjective
  <2>9. free # <<>>
    <3>1. 1 \in DOMAIN free
      BY <2>6
    <3> QED
      BY <3>1
  <2>10. \A x : x \in Range(free) <=> x \in cells + 1 .. all
    <3>1. ASSUME NEW x, x \in Range(free) PROVE x \in cells + 1 .. all
      <4>1. PICK k \in 1 .. block : x = cells + k
        BY <2>6, <3>1 DEF Range
      <4> QED
        BY <1>1, <4>1 DEF all
    <3>2. ASSUME NEW x \in cells + 1 .. all PROVE x \in Range(free)
      <4> DEFINE k == x - cells
      <4>1. k \in 1 .. block /\ cells + k = x
        BY <1>1 DEF all
      <4> HIDE DEF k
      <4>2. k \in DOMAIN free /\ free[k] = x
        BY <2>6, <4>1
      <4> QED
        BY <4>2 DEF Range
    <3> QED
      BY <3>1, <3>2
  <2>11. D \cup Range(free) = 1 .. all
    <3>1. \A x : x \in 1 .. all <=> x \in 1 .. cells \/ x \in cells + 1 .. all
      BY <1>1 DEF all
    <3> QED
      BY <2>3, <2>10, <3>1
  <2>12. D \cap Range(free) = {}
    <3>1. \A x : ~(x \in 1 .. cells /\ x \in cells + 1 .. all)
      BY <1>1, <2>4
    <3> QED
      BY <2>3, <2>10, <3>1
  <2> QED
    BY <1>3, <2>1, <2>4, <2>7, <2>8, <2>9, <2>11, <2>12 DEF all
<1> QED
  BY <1>2, <1>3

\* A new cell at the head of its chain
LEMMA CellLinked ==
  ASSUME NEW b, NEW size \in Nat \ {0}, NEW a, NEW a2, NEW D, NEW c, c \notin D,
         ChainsHold(b, size, a, D), a2[c].nHashValue \in Nat,
         \A d \in D : a2[d].nHashValue = a[d].nHashValue
  PROVE  ChainsHold([b EXCEPT ![BucketIn(a2, c, size)] = Cons(c, @)], size, a2,
                    D \cup {c})
<1> DEFINE h == BucketIn(a2, c, size)
           E == D \cup {c}
           r == Cons(c, b[h])
           n == [b EXCEPT ![h] = r]
<1>1. h \in 0 .. size - 1
  BY BucketInTable
<1>2. h = BucketIn(a2, c, size)
  OBVIOUS
<1> HIDE DEF h
<1>3. ChainsHold(b, size, a2, D)
  BY SameChains
<1>4. /\ b \in [0 .. size - 1 -> Seq(D)]
      /\ \A j \in 0 .. size - 1 : IsInjective(b[j])
      /\ \A j \in 0 .. size - 1 : \A d \in D :
           d \in Range(b[j]) <=> BucketIn(a2, d, size) = j
  BY <1>3 DEF ChainsHold
<1>5. \A j \in 0 .. size - 1 : b[j] \in Seq(D)
  BY <1>4
<1>6. \A j \in 0 .. size - 1 : Range(b[j]) \subseteq D
  BY <1>5, SeqFacts
<1>7. \A j \in 0 .. size - 1 : b[j] \in Seq(E)
  <2> SUFFICES ASSUME NEW j \in 0 .. size - 1 PROVE b[j] \in Seq(E)
    OBVIOUS
  <2>1. b[j] \in Seq(D) /\ Range(b[j]) \subseteq E
    BY <1>5, <1>6
  <2> HIDE DEF E
  <2> QED
    BY <2>1, SeqOver
<1>8. c \in E /\ c \notin Range(b[h])
  BY <1>1, <1>6
<1>8A. b[h] \in Seq(E) /\ IsInjective(b[h])
  BY <1>1, <1>4, <1>7
<1> HIDE DEF E
<1>9. r \in Seq(E) /\ IsInjective(r) /\ Range(r) = {c} \cup Range(b[h])
  BY <1>8, <1>8A, ConsOnce
<1> HIDE DEF r
<1>10. n \in [0 .. size - 1 -> Seq(E)]
  BY <1>1, <1>4, <1>7, <1>9
<1>11. \A j \in 0 .. size - 1 : n[j] = IF j = h THEN r ELSE b[j]
  BY <1>1, <1>4
<1> HIDE DEF n
<1>12. \A j \in 0 .. size - 1 : IsInjective(n[j])
  BY <1>4, <1>9, <1>11
<1>13. ASSUME NEW j \in 0 .. size - 1, NEW d \in E
       PROVE  d \in Range(n[j]) <=> BucketIn(a2, d, size) = j
  <2>1. CASE d = c
    <3>1. c \notin Range(b[j])
      BY <1>6
    <3>2. CASE j = h
      BY <1>2, <1>9, <1>11, <2>1, <3>2
    <3>3. CASE j # h
      BY <1>2, <1>11, <2>1, <3>1, <3>3
    <3> QED
      BY <3>2, <3>3
  <2>2. CASE d # c
    <3>1. d \in D
      BY <2>2 DEF E
    <3>2. d \in Range(b[j]) <=> BucketIn(a2, d, size) = j
      BY <1>4, <3>1
    <3>3. d \in Range(n[j]) <=> d \in Range(b[j])
      BY <1>9, <1>11, <2>2
    <3> QED
      BY <3>2, <3>3
  <2> QED
    BY <2>1, <2>2
<1>14. ChainsHold(n, size, a2, E)
  BY <1>10, <1>12, <1>13 DEF ChainsHold
<1> QED
  BY <1>14 DEF n, r, h, E

\* A cell taken out of its chain
LEMMA CellUnlinked ==
  ASSUME NEW b, NEW size \in Nat \ {0}, NEW a, NEW D, NEW c \in D,
         ChainsHold(b, size, a, D), NEW j \in 0 .. size - 1,
         BucketIn(a, c, size) = j, NEW k \in 1 .. Len(b[j]), b[j][k] = c
  PROVE  ChainsHold([b EXCEPT ![j] = RemoveAt(@, k)], size, a, D \ {c})
<1> DEFINE E == D \ {c}
           r == RemoveAt(b[j], k)
           n == [b EXCEPT ![j] = r]
<1>1. /\ b \in [0 .. size - 1 -> Seq(D)]
      /\ \A i \in 0 .. size - 1 : IsInjective(b[i])
      /\ \A i \in 0 .. size - 1 : \A d \in D :
           d \in Range(b[i]) <=> BucketIn(a, d, size) = i
  BY DEF ChainsHold
<1>2. \A i \in 0 .. size - 1 : b[i] \in Seq(D)
  BY <1>1
<1>3. \A i \in 0 .. size - 1 : Range(b[i]) \subseteq D
  BY <1>2, SeqFacts
<1>4. r \in Seq(D) /\ IsInjective(r) /\ Range(r) = Range(b[j]) \ {c}
  <2> DEFINE s == b[j]
  <2>1. s \in Seq(D) /\ IsInjective(s) /\ k \in 1 .. Len(s) /\ s[k] = c
    BY <1>1, <1>2
  <2> HIDE DEF s
  <2>2. /\ RemoveAt(s, k) \in Seq(D) /\ IsInjective(RemoveAt(s, k))
        /\ Range(RemoveAt(s, k)) = Range(s) \ {s[k]}
    BY <2>1, RemoveOnce
  <2> QED
    BY <2>1, <2>2 DEF s
<1> HIDE DEF r
<1>5. \A i \in 0 .. size - 1 : n[i] = IF i = j THEN r ELSE b[i]
  BY <1>1
<1>6. DOMAIN n = 0 .. size - 1 /\ n = [i \in 0 .. size - 1 |-> n[i]]
  BY <1>1
<1> HIDE DEF n
<1>7. ASSUME NEW i \in 0 .. size - 1
      PROVE  n[i] \in Seq(D) /\ IsInjective(n[i]) /\ Range(n[i]) = Range(b[i]) \ {c}
  <2>1. CASE i = j
    BY <1>4, <1>5, <2>1
  <2>2. CASE i # j
    <3>1. c \notin Range(b[i])
      BY <1>1, <2>2
    <3> QED
      BY <1>1, <1>2, <1>5, <2>2, <3>1
  <2> QED
    BY <2>1, <2>2
<1>8. ASSUME NEW i \in 0 .. size - 1 PROVE n[i] \in Seq(E)
  <2>1. n[i] \in Seq(D) /\ Range(n[i]) \subseteq E
    BY <1>3, <1>7
  <2> HIDE DEF E
  <2> QED
    BY <2>1, SeqOver
<1>9. n \in [0 .. size - 1 -> Seq(E)]
  BY <1>6, <1>8
<1>10. ASSUME NEW i \in 0 .. size - 1, NEW d \in E
       PROVE  d \in Range(n[i]) <=> BucketIn(a, d, size) = i
  BY <1>1, <1>7
<1>11. \A i \in 0 .. size - 1 : IsInjective(n[i])
  BY <1>7
<1>12. ChainsHold(n, size, a, E)
  BY <1>9, <1>10, <1>11 DEF ChainsHold
<1> QED
  BY <1>12 DEF n, r, E

\* The table of the next state
LEMMA NewTableOK ==
  ASSUME NEW t, NewTable(t), NEW count, NEW D,
         t.size \in Nat, t.size >= 2, count < t.size, t.block \in Nat, t.block > 0,
         ChainsHold(t.buckets, t.size, assoc', D),
         DOMAIN assoc' = D, m_nCount' = count
  PROVE  TableOK'
<1>1. /\ m_pHashTable' = t.buckets /\ m_nHashTableSize' = t.size
      /\ m_nBlockSize' = t.block
  BY DEF NewTable
<1>2. DOMAIN m_pHashTable' = 0 .. t.size - 1
  BY <1>1 DEF ChainsHold
<1>3. HasTable'
  <2>1. 0 \in 0 .. t.size - 1
    OBVIOUS
  <2> QED
    BY <1>2, <2>1 DEF HasTable
<1> QED
  BY <1>1, <1>3 DEF TableOK

\* What Grown gives is a record.
LEMMA GrownRecord ==
  Grown = [buckets |-> Grown.buckets, size |-> Grown.size, block |-> Grown.block]
BY DEF Grown, InitHashTable, Kept

\* SetAt of a new key
LEMMA SetNewKeeps ==
  ASSUME Inv, NEW key \in Key, NEW value \in Value, SetNew(key, value)
  PROVE  Inv'
<1> DEFINE D == DOMAIN assoc
           t == Grown
           free == Replenished(t.block)
           all == IF m_pFreeList = <<>> THEN cells + t.block ELSE cells
           c == Head(free)
           cell == [key |-> key, value |-> value, nHashValue |-> HashKey[key]]
           h == HashKey[key] % t.size
           n == [t.buckets EXCEPT ![h] = Cons(c, @)]
           t2 == [t EXCEPT !.buckets[h] = Cons(c, @)]
<1>1. TableFor(t, m_nCount + 1, D)
  BY GrownOK
<1>2. /\ t.size \in Nat \ {0} /\ t.size >= 2 /\ m_nCount + 1 < t.size
      /\ t.block \in Nat /\ t.block > 0 /\ ChainsHold(t.buckets, t.size, assoc, D)
  BY <1>1 DEF TableFor
<1>3. ~iterating /\ GetAssocAt(key) = NULL /\ UNCHANGED iteration
      /\ m_nCount' = m_nCount + 1
  BY DEF SetNew
<1>4. /\ NewTable(t2) /\ m_pFreeList' = Tail(free) /\ cells' = all
      /\ assoc' = [d \in D \cup {c} |-> IF d = c THEN cell ELSE assoc[d]]
  BY DEF SetNew
<1>5. t2.buckets = n /\ t2.size = t.size /\ t2.block = t.block
  BY GrownRecord
<1>6. /\ all \in Nat /\ free \in Seq(1 .. all) /\ IsInjective(free) /\ free # <<>>
      /\ D \cup Range(free) = 1 .. all /\ D \cap Range(free) = {}
  <2> HIDE DEF t
  <2> QED
    BY <1>2, ReplenishedOK
<1> HIDE DEF t, free, all
<1>7. /\ c \in Range(free) /\ Tail(free) \in Seq(1 .. all) /\ IsInjective(Tail(free))
      /\ Range(Tail(free)) = Range(free) \ {c}
  BY <1>6, TailOnce
<1>8. c \notin D
  BY <1>6, <1>7
<1> HIDE DEF c
<1>9. cell \in Association /\ cell.key = key /\ cell.nHashValue = HashKey[key]
      /\ HashKey[key] \in Nat
  BY HashIsNatural DEF Association
<1> HIDE DEF cell
<1>10. /\ DOMAIN assoc' = D \cup {c} /\ assoc'[c] = cell
       /\ \A d \in D : assoc'[d] = assoc[d]
       /\ assoc' = [d \in D \cup {c} |-> assoc'[d]]
  BY <1>4, <1>8
<1>11. CellsOK'
  <2>1. \A d \in D : assoc[d] \in Association
    BY DEF Inv, CellsOK
  <2>2. \A d \in D : assoc[d].key # key
    <3> SUFFICES ASSUME NEW d \in D, assoc[d].key = key PROVE FALSE
      OBVIOUS
    <3>1. GetAssocAt(assoc[d].key) = d
      BY Found
    <3>2. d # NULL
      BY CellFacts
    <3> QED
      BY <1>3, <3>1, <3>2
  <2>3. assoc' \in [DOMAIN assoc' -> Association]
    BY <1>9, <1>10, <2>1
  <2>4. \A d \in DOMAIN assoc' : assoc'[d].nHashValue = HashKey[assoc'[d].key]
    BY <1>9, <1>10 DEF Inv, CellsOK
  <2>5. \A d, e \in DOMAIN assoc' : assoc'[d].key = assoc'[e].key => d = e
    BY <1>9, <1>10, <2>2 DEF Inv, CellsOK
  <2> QED
    BY <2>3, <2>4, <2>5 DEF CellsOK
<1>12. m_nCount' = Cardinality(D \cup {c})
  BY <1>3, <1>8, CountFacts, FS_AddElement
<1>13. PoolOK'
  <2>1. (D \cup {c}) \cup Range(Tail(free)) = 1 .. all
    BY <1>6, <1>7
  <2>2. (D \cup {c}) \cap Range(Tail(free)) = {}
    BY <1>6, <1>7
  <2> QED
    BY <1>4, <1>6, <1>7, <1>10, <1>12, <2>1, <2>2 DEF PoolOK
<1>14. ChainsHold(n, t.size, assoc', D \cup {c})
  <2> DEFINE a2 == assoc'
  <2>1. a2[c].nHashValue \in Nat /\ BucketIn(a2, c, t.size) = h
    BY <1>9, <1>10 DEF BucketIn
  <2>2. \A d \in D : a2[d].nHashValue = assoc[d].nHashValue
    BY <1>10
  <2> HIDE DEF a2
  <2> DEFINE size == t.size
             b == t.buckets
  <2>3. size \in Nat \ {0} /\ ChainsHold(b, size, assoc, D)
    BY <1>2
  <2>4. BucketIn(a2, c, size) = h /\ b = t.buckets /\ size = t.size
    BY <2>1
  <2> HIDE DEF size, b, h
  <2>5. ChainsHold([b EXCEPT ![BucketIn(a2, c, size)] = Cons(c, @)], size, a2,
                   D \cup {c})
    BY <1>8, <2>1, <2>2, <2>3, CellLinked
  <2> QED
    BY <2>4, <2>5 DEF a2
<1> HIDE DEF n, t2
<1>15. TableOK'
  BY <1>2, <1>3, <1>4, <1>5, <1>10, <1>14, NewTableOK
<1>16. IterationOK'
  BY <1>3, NoIteration
<1> QED
  BY <1>11, <1>13, <1>15, <1>16 DEF Inv

\* The table after RemoveKey
LEMMA ShrunkOK ==
  ASSUME Inv, HasTable, NEW b, NEW count \in Nat, count < m_nHashTableSize,
         NEW D, D \subseteq DOMAIN assoc, ChainsHold(b, m_nHashTableSize, assoc, D)
  PROVE  TableFor(Shrunk(b, count), count, D)
<1> DEFINE n == m_nHashTableSize \div 2
<1>1. /\ m_nHashTableSize \in Nat /\ m_nHashTableSize >= 2
      /\ m_nBlockSize \in Nat /\ m_nBlockSize > 0
  BY TableFacts
<1>2. n \in Nat
  BY <1>1
<1>3. \A c \in D : assoc[c].nHashValue \in Nat
  BY CellFacts
<1> HIDE DEF n
<1>4. /\ TableFor(Kept(b), count, D)
      /\ TableFor(InitHashTable(n, b, count), count, D)
  BY <1>1, <1>2, <1>3, InitOK
<1>5. Shrunk(b, count) = Kept(b) \/ Shrunk(b, count) = InitHashTable(n, b, count)
  BY DEF Shrunk, n
<1> QED
  BY <1>4, <1>5

\* RemoveKey
LEMMA RemoveKeyKeeps ==
  ASSUME Inv, NEW key \in Key, RemoveKey(key)
  PROVE  Inv'
<1> DEFINE D == DOMAIN assoc
           size == m_nHashTableSize
           c == GetAssocAt(key)
           j == Bucket(HashKey[key])
           k == Position(m_pHashTable[j], key)
           unlinked == [m_pHashTable EXCEPT ![j] = RemoveAt(@, Position(@, key))]
           t == Shrunk(unlinked, m_nCount - 1)
           E == D \ {c}
<1>1. /\ ~iterating /\ UNCHANGED iteration /\ m_nCount' = m_nCount - 1
      /\ cells' = cells /\ NewTable(t) /\ m_pFreeList' = Cons(c, m_pFreeList)
      /\ assoc' = [d \in E |-> assoc[d]]
  BY DEF RemoveKey, FreeAssoc, Restrict
<1>2. c \in D /\ assoc[c].key = key
  BY Lookup DEF RemoveKey
<1>3. HasTable /\ assoc[c].nHashValue = HashKey[key] /\ c \in 1 .. cells
  BY <1>2, CellFacts
<1>4. j \in 0 .. size - 1 /\ BucketIn(assoc, c, size) = j
  BY <1>3, KeyBucket DEF BucketIn, Bucket
<1>5. k \in 1 .. Len(m_pHashTable[j]) /\ m_pHashTable[j][k] = c
  <2> DEFINE e == c
  <2>1. e \in D /\ assoc[e].key = key
    BY <1>2
  <2> HIDE DEF e
  <2>2. LET y == assoc[e].key
            chain == m_pHashTable[Bucket(HashKey[y])]
            i == Position(chain, y) IN
        GetAssocAt(y) = e /\ i \in 1 .. Len(chain) /\ chain[i] = e
    BY <2>1, Found
  <2> QED
    BY <2>1, <2>2
<1>6. /\ size \in Nat \ {0} /\ m_nCount < size /\ m_nCount \in Nat
      /\ ChainsHold(m_pHashTable, size, assoc, D)
  BY <1>3, TableFacts
<1>7. unlinked = [m_pHashTable EXCEPT ![j] = RemoveAt(@, k)]
  OBVIOUS
<1> HIDE DEF c, j, k
<1>8. ChainsHold(unlinked, size, assoc, E)
  <2> DEFINE b == m_pHashTable
             m == [b EXCEPT ![j] = RemoveAt(@, k)]
  <2>1. unlinked = m
    BY <1>7
  <2> HIDE DEF unlinked
  <2>2. ChainsHold(m, size, assoc, E)
    BY <1>2, <1>4, <1>5, <1>6, CellUnlinked
  <2> QED
    BY <2>1, <2>2
<1> HIDE DEF unlinked
<1>9. /\ IsFiniteSet(D) /\ m_nCount = Cardinality(D)
      /\ Cardinality(D \ {c}) = Cardinality(D) - 1
  BY <1>2, CountFacts, FS_RemoveElement
<1>10. m_nCount - 1 \in Nat /\ m_nCount - 1 < size /\ m_nCount' = Cardinality(E)
  <2>1. IsFiniteSet(E)
    BY <1>9, FS_Subset
  <2>2. Cardinality(E) \in Nat
    BY <2>1, FS_CardinalityType
  <2> QED
    BY <1>1, <1>6, <1>9, <2>2
<1>11. TableFor(t, m_nCount - 1, E)
  <2> DEFINE count == m_nCount - 1
  <2>1. count \in Nat /\ count < size
    BY <1>10
  <2> HIDE DEF count
  <2>2. E \subseteq DOMAIN assoc
    OBVIOUS
  <2> HIDE DEF E
  <2>3. TableFor(Shrunk(unlinked, count), count, E)
    BY <1>3, <1>8, <2>1, <2>2, ShrunkOK
  <2> QED
    BY <2>3 DEF count
<1>12. /\ t.size \in Nat /\ t.size >= 2 /\ m_nCount - 1 < t.size
       /\ t.block \in Nat /\ t.block > 0 /\ ChainsHold(t.buckets, t.size, assoc, E)
  BY <1>11 DEF TableFor
<1> HIDE DEF t
<1>13. DOMAIN assoc' = E /\ \A d \in E : assoc'[d] = assoc[d]
  BY <1>1
<1>14. ChainsHold(t.buckets, t.size, assoc', E)
  <2> DEFINE a2 == assoc'
  <2>1. \A d \in E : a2[d].nHashValue = assoc[d].nHashValue
    BY <1>13
  <2> HIDE DEF a2
  <2>2. ChainsHold(t.buckets, t.size, a2, E)
    BY <1>12, <2>1, SameChains
  <2> QED
    BY <2>2 DEF a2
<1>15. TableOK'
  BY <1>1, <1>12, <1>13, <1>14, NewTableOK
<1>16. CellsOK'
  <2>1. \A d \in D : assoc[d] \in Association
    BY DEF Inv, CellsOK
  <2>2. assoc' \in [DOMAIN assoc' -> Association]
    BY <1>1, <2>1
  <2> QED
    BY <1>13, <2>2 DEF Inv, CellsOK
<1>17. PoolOK'
  <2>1. /\ cells \in Nat /\ m_pFreeList \in Seq(1 .. cells) /\ IsInjective(m_pFreeList)
        /\ D \cup Range(m_pFreeList) = 1 .. cells
        /\ D \cap Range(m_pFreeList) = {}
    BY DEF Inv, PoolOK
  <2>2. c \notin Range(m_pFreeList)
    BY <1>2, <2>1
  <2>3. /\ Cons(c, m_pFreeList) \in Seq(1 .. cells)
        /\ IsInjective(Cons(c, m_pFreeList))
        /\ Range(Cons(c, m_pFreeList)) = {c} \cup Range(m_pFreeList)
    BY <1>3, <2>1, <2>2, ConsOnce
  <2>4. E \cup ({c} \cup Range(m_pFreeList)) = 1 .. cells
    BY <1>2, <2>1
  <2>5. E \cap ({c} \cup Range(m_pFreeList)) = {}
    BY <2>1
  <2> QED
    BY <1>1, <1>10, <1>13, <2>1, <2>3, <2>4, <2>5 DEF PoolOK
<1>18. IterationOK'
  BY <1>1, NoIteration
<1> QED
  BY <1>15, <1>16, <1>17, <1>18 DEF Inv

\* RemoveAll
LEMMA RemoveAllKeeps ==
  ASSUME Inv, RemoveAll
  PROVE  Inv'
<1>1. DOMAIN m_pHashTable' = {} /\ DOMAIN assoc' = {}
  BY DEF RemoveAll
<1>2. CellsOK'
  BY <1>1 DEF RemoveAll, CellsOK
<1>3. <<>> \in Seq(1 .. 0) /\ IsInjective(<<>>) /\ Range(<<>>) = {}
  BY DEF IsInjective, Range
<1>4. Cardinality({}) = 0
  BY FS_EmptySet
<1>5. PoolOK'
  BY <1>1, <1>3, <1>4 DEF RemoveAll, PoolOK
<1>6. TableOK'
  BY <1>1, SizesArePositive DEF RemoveAll, Inv, TableOK, HasTable
<1>7. IterationOK'
  BY NoIteration DEF RemoveAll
<1> QED
  BY <1>2, <1>5, <1>6, <1>7 DEF Inv

\* InitHashTable
LEMMA ResizeKeeps ==
  ASSUME Inv, NEW n \in Wanted, Resize(n)
  PROVE  Inv'
<1> DEFINE t == InitHashTable(n, m_pHashTable, m_nCount)
           D == DOMAIN assoc
<1>1. /\ ~iterating /\ NewTable(t) /\ UNCHANGED iteration /\ assoc' = assoc
      /\ m_nCount' = m_nCount /\ m_pFreeList' = m_pFreeList /\ cells' = cells
  BY DEF Resize, pool
<1>2. n \in Nat /\ m_nCount \in Nat /\ m_nHashTableSize \in Nat \ {0}
  BY WantedSizes, CountFacts DEF Inv, TableOK
<1>3. CellsOK' /\ PoolOK'
  BY <1>1 DEF Inv, CellsOK, PoolOK
<1>4. ASSUME TableFor(t, m_nCount, D) PROVE TableOK'
  <2>1. /\ t.size \in Nat /\ t.size >= 2 /\ m_nCount < t.size
        /\ t.block \in Nat /\ t.block > 0 /\ ChainsHold(t.buckets, t.size, assoc', D)
    BY <1>1, <1>4 DEF TableFor
  <2> HIDE DEF t
  <2> QED
    BY <1>1, <2>1, NewTableOK
<1>5. TableOK'
  <2>1. CASE HasTable
    <3>1. /\ m_nHashTableSize >= 2 /\ m_nCount < m_nHashTableSize
          /\ m_nBlockSize \in Nat /\ m_nBlockSize > 0
          /\ ChainsHold(m_pHashTable, m_nHashTableSize, assoc, D)
      BY <2>1, TableFacts
    <3>2. \A c \in D : assoc[c].nHashValue \in Nat
      BY CellFacts
    <3>3. TableFor(t, m_nCount, D)
      BY <1>2, <3>1, <3>2, InitOK
    <3> QED
      BY <1>4, <3>3
  <2>2. CASE ~HasTable
    <3>1. D = {} /\ m_nCount = 0 /\ DOMAIN m_pHashTable = {}
      BY <2>2, FS_EmptySet DEF Inv, TableOK, PoolOK, HasTable
    <3>2. CASE n > 0
      <4>1. TableFor(InitHashTable(n, m_pHashTable, 0), 0, {})
        BY <1>2, <3>1, <3>2, FirstTable
      <4> QED
        BY <1>4, <3>1, <4>1
    <3>3. CASE ~(n > 0)
      <4>1. t = Kept(m_pHashTable)
        BY <1>2, <3>1, <3>3 DEF InitHashTable
      <4>2. /\ m_pHashTable' = m_pHashTable /\ m_nHashTableSize' = m_nHashTableSize
            /\ m_nBlockSize' = m_nBlockSize
        BY <1>1, <4>1 DEF NewTable, Kept
      <4> QED
        BY <1>1, <2>2, <4>2 DEF Inv, TableOK, HasTable
    <3> QED
      BY <3>2, <3>3
  <2> QED
    BY <2>1, <2>2
<1>6. IterationOK'
  BY <1>1, NoIteration
<1> QED
  BY <1>3, <1>5, <1>6 DEF Inv

\* A step that leaves the table and its cells alone
LEMMA SameTable ==
  ASSUME Inv, UNCHANGED <<table, pool, assoc>>
  PROVE  /\ CellsOK' /\ PoolOK' /\ TableOK'
         /\ \A c \in DOMAIN assoc : Passed(c)' = Passed(c)
         /\ \A D \in SUBSET DOMAIN assoc : KeysOf(D)' = KeysOf(D)
<1>1. UNCHANGED <<table, pool>> /\ assoc' = assoc
  BY Zenon
<1>2. assoc \in [DOMAIN assoc -> Association]
  BY DEF Inv, CellsOK
<1> QED
  BY <1>1, <1>2, SameCells

\* The beginning of an iteration
LEMMA GetStartPositionKeeps ==
  ASSUME Inv, GetStartPosition
  PROVE  Inv'
<1>1. /\ m_nCount # 0 /\ iterating' = TRUE /\ pos' = BEFORE_START_POSITION
      /\ visited' = <<>> /\ UNCHANGED <<table, pool, assoc>> /\ assoc' = assoc
  BY DEF GetStartPosition
<1>2. CellsOK' /\ PoolOK' /\ TableOK'
  BY <1>1, SameTable
<1>3. DOMAIN assoc # {}
  BY <1>1, FS_EmptySet DEF Inv, PoolOK
<1>4. <<>> \in Seq(Key) /\ IsInjective(<<>>)
  BY DEF IsInjective
<1>5. IterationOK'
  BY <1>1, <1>3, <1>4 DEF IterationOK, BEFORE_START_POSITION
<1> QED
  BY <1>2, <1>5 DEF Inv

\* The end of an iteration
LEMMA EndIterationKeeps ==
  ASSUME Inv, EndIteration
  PROVE  Inv'
<1>1. /\ pos = NULL /\ iterating' = FALSE /\ pos' = pos
      /\ visited' = <<>> /\ UNCHANGED <<table, pool, assoc>>
  BY DEF EndIteration
<1>2. CellsOK' /\ PoolOK' /\ TableOK'
  BY <1>1, SameTable
<1>3. <<>> \in Seq(Key) /\ IsInjective(<<>>)
  BY DEF IsInjective
<1>4. IterationOK'
  BY <1>1, <1>3 DEF IterationOK, NULL
<1> QED
  BY <1>2, <1>4 DEF Inv

-----------------------------------------------------------------------------
(* The order of an iteration *)

\* One more element at the end
LEMMA AppendOnce ==
  ASSUME NEW S, NEW s \in Seq(S), NEW e \in S, IsInjective(s), e \notin Range(s)
  PROVE  /\ Append(s, e) \in Seq(S) /\ IsInjective(Append(s, e))
         /\ Range(Append(s, e)) = Range(s) \cup {e}
<1> DEFINE b == <<e>>
<1>1. b \in Seq(S) /\ DOMAIN b = 1 .. 1 /\ b[1] = e
  OBVIOUS
<1>2. Append(s, e) = s \o b
  BY AppendIsConcat
<1> HIDE DEF b
<1>3. IsInjective(b) /\ Range(b) = {e}
  BY <1>1 DEF IsInjective, Range
<1>4. Range(s) \cap Range(b) = {}
  BY <1>3
<1>5. s \o b \in Seq(S) /\ IsInjective(s \o b) /\ Range(s \o b) = Range(s) \cup Range(b)
  BY <1>1, <1>3, <1>4, ConcatOnce
<1> QED
  BY <1>2, <1>3, <1>5

\* The cell at a place of the table
IsAt(c, j, k) ==
  /\ j \in 0 .. m_nHashTableSize - 1 /\ k \in 1 .. Len(m_pHashTable[j])
  /\ m_pHashTable[j][k] = c

\* Every cell in use has a place.
LEMMA HasPlace ==
  ASSUME Inv, NEW c \in DOMAIN assoc
  PROVE  \E j, k : IsAt(c, j, k)
<1> DEFINE j == BucketIn(assoc, c, m_nHashTableSize)
<1>1. HasTable /\ assoc[c].nHashValue \in Nat
  BY CellFacts
<1>2. j \in 0 .. m_nHashTableSize - 1
  BY <1>1, BucketInTable, TableFacts
<1>3. j = BucketIn(assoc, c, m_nHashTableSize)
  OBVIOUS
<1> HIDE DEF j
<1>4. m_pHashTable[j] \in Seq(DOMAIN assoc) /\ c \in Range(m_pHashTable[j])
  BY <1>1, <1>2, <1>3, ChainFacts
<1>5. \E k \in 1 .. Len(m_pHashTable[j]) : m_pHashTable[j][k] = c
  BY <1>4, SeqFacts
<1> QED
  BY <1>2, <1>5 DEF IsAt

\* What a place says of its cell
LEMMA PlaceFacts ==
  ASSUME Inv, HasTable, NEW c, NEW j, NEW k, IsAt(c, j, k)
  PROVE  /\ j \in Nat /\ k \in Nat /\ k >= 1 /\ k <= Len(m_pHashTable[j])
         /\ Len(m_pHashTable[j]) \in Nat
         /\ j \in 0 .. m_nHashTableSize - 1 /\ m_nHashTableSize \in Nat
         /\ c \in DOMAIN assoc /\ BucketIn(assoc, c, m_nHashTableSize) = j
<1>1. j \in 0 .. m_nHashTableSize - 1 /\ k \in 1 .. Len(m_pHashTable[j])
      /\ m_pHashTable[j][k] = c
  BY DEF IsAt
<1>2. m_nHashTableSize \in Nat
  BY TableFacts
<1>3. m_pHashTable[j] \in Seq(DOMAIN assoc)
  BY <1>1, ChainFacts
<1>4. Len(m_pHashTable[j]) \in Nat /\ c \in Range(m_pHashTable[j]) /\ c \in DOMAIN assoc
  BY <1>1, <1>3, SeqFacts
<1>5. BucketIn(assoc, c, m_nHashTableSize) = j
  BY <1>1, <1>4, ChainFacts
<1> QED
  BY <1>1, <1>2, <1>4, <1>5

\* A cell has one place.
LEMMA OnePlace ==
  ASSUME Inv, HasTable, NEW c, NEW j, NEW k, NEW i, NEW l, IsAt(c, j, k), IsAt(c, i, l)
  PROVE  i = j /\ l = k
<1>1. i = j
  BY PlaceFacts
<1>2. IsInjective(m_pHashTable[j]) /\ m_pHashTable[j] \in Seq(DOMAIN assoc)
  BY PlaceFacts, ChainFacts
<1>3. DOMAIN m_pHashTable[j] = 1 .. Len(m_pHashTable[j])
  BY <1>2, SeqFacts
<1>4. /\ k \in 1 .. Len(m_pHashTable[j]) /\ l \in 1 .. Len(m_pHashTable[j])
      /\ m_pHashTable[j][k] = m_pHashTable[j][l]
  BY <1>1 DEF IsAt
<1>5. l = k
  BY <1>2, <1>3, <1>4 DEF IsInjective
<1> QED
  BY <1>1, <1>5

\* The order of the cells is the order of their places.
LEMMA BeforeByPlace ==
  ASSUME Inv, HasTable, NEW c, NEW j, NEW k, IsAt(c, j, k),
         NEW d, NEW i, NEW l, IsAt(d, i, l)
  PROVE  Before(d, c) <=> i < j \/ (i = j /\ l < k)
<1> DEFINE chain == m_pHashTable[j]
<1>1. /\ BucketIn(assoc, c, m_nHashTableSize) = j
      /\ BucketIn(assoc, d, m_nHashTableSize) = i
  BY PlaceFacts
<1>2. Before(d, c) <=> \/ i < j
                       \/ \E x, y \in DOMAIN chain : x < y /\ chain[x] = d /\ chain[y] = c
  BY <1>1 DEF Before
<1>3. j \in 0 .. m_nHashTableSize - 1 /\ chain \in Seq(DOMAIN assoc)
  BY PlaceFacts, ChainFacts
<1>4. DOMAIN chain = 1 .. Len(chain)
  BY <1>3, SeqFacts
<1>5. ASSUME NEW x \in DOMAIN chain, NEW y \in DOMAIN chain, x < y, chain[x] = d,
             chain[y] = c
      PROVE  i = j /\ l < k
  <2>1. IsAt(d, j, x) /\ IsAt(c, j, y)
    BY <1>3, <1>4, <1>5 DEF IsAt
  <2>2. i = j /\ l = x
    BY <2>1, OnePlace
  <2>3. k = y
    BY <2>1, OnePlace
  <2> QED
    BY <1>5, <2>2, <2>3
<1>6. ASSUME i = j, l < k
      PROVE  \E x, y \in DOMAIN chain : x < y /\ chain[x] = d /\ chain[y] = c
  <2>1. k \in DOMAIN chain /\ l \in DOMAIN chain /\ chain[l] = d /\ chain[k] = c
    BY <1>4, <1>6 DEF IsAt
  <2> QED
    BY <1>6, <2>1
<1> HIDE DEF chain
<1> QED
  BY <1>2, <1>5, <1>6

\* Where the search for the next chain ends
LEMMA FirstFromFacts ==
  ASSUME Inv, HasTable, NEW b \in 0 .. m_nHashTableSize
  PROVE  \/ /\ FirstFrom(b) = NULL
            /\ \A i \in b .. m_nHashTableSize - 1 : m_pHashTable[i] = <<>>
         \/ \E i \in b .. m_nHashTableSize - 1 :
              /\ IsAt(FirstFrom(b), i, 1)
              /\ \A h \in b .. i - 1 : m_pHashTable[h] = <<>>
<1> DEFINE size == m_nHashTableSize
           used == {j \in b .. size - 1 : m_pHashTable[j] # <<>>}
<1>1. size \in Nat /\ b \in Nat
  BY TableFacts
<1>2. FirstFrom(b) = IF used = {} THEN NULL ELSE Head(m_pHashTable[Min(used)])
  BY DEF FirstFrom
<1>3. CASE used = {}
  <2>1. \A i \in b .. size - 1 : m_pHashTable[i] = <<>>
    BY <1>3
  <2> QED
    BY <1>2, <1>3, <2>1
<1>4. CASE used # {}
  <2> DEFINE i == Min(used)
  <2>1. used \subseteq Nat
    BY <1>1
  <2>2. i \in used /\ \A y \in used : i <= y
    <3> HIDE DEF used
    <3> QED
      BY <1>4, <2>1, MinIsLeast
  <2> HIDE DEF i
  <2>3. i \in b .. size - 1 /\ m_pHashTable[i] # <<>> /\ i \in 0 .. size - 1
    BY <1>1, <2>2
  <2>4. m_pHashTable[i] \in Seq(DOMAIN assoc)
    BY <2>3, ChainFacts
  <2>5. Head(m_pHashTable[i]) = m_pHashTable[i][1] /\ 1 \in 1 .. Len(m_pHashTable[i])
    <3> DEFINE s == m_pHashTable[i]
    <3>1. s \in Seq(DOMAIN assoc) /\ s # <<>>
      BY <2>3, <2>4
    <3> HIDE DEF s
    <3>2. Len(s) \in Nat /\ Len(s) # 0
      BY <3>1, EmptySeq, LenProperties
    <3>3. Head(s) = s[1]
      BY <3>1, HeadTailProperties
    <3> QED
      BY <3>2, <3>3 DEF s
  <2>6. FirstFrom(b) = Head(m_pHashTable[i])
    BY <1>2, <1>4 DEF i
  <2>7. IsAt(FirstFrom(b), i, 1)
    BY <2>3, <2>5, <2>6 DEF IsAt
  <2>8. ASSUME NEW h \in b .. i - 1 PROVE m_pHashTable[h] = <<>>
    <3>1. h \in b .. size - 1 /\ ~(i <= h)
      BY <1>1, <2>3
    <3> QED
      BY <2>2, <3>1
  <2> QED
    BY <2>3, <2>7, <2>8
<1> QED
  BY <1>3, <1>4

\* The next cell of the chain, or the head of the next chain
LEMMA NextOfFacts ==
  ASSUME Inv, HasTable, NEW c, NEW j, NEW k, IsAt(c, j, k)
  PROVE  NextOf(c) = IF k < Len(m_pHashTable[j]) THEN m_pHashTable[j][k + 1]
                     ELSE FirstFrom(j + 1)
<1> DEFINE chain == m_pHashTable[j]
           I == {i \in 1 .. Len(chain) : chain[i] = c}
           p == SelectInSeq(chain, LAMBDA d : d = c)
<1>1. Bucket(assoc[c].nHashValue) = j
  BY PlaceFacts DEF Bucket, BucketIn
<1>2. p = IF I # {} THEN Min(I) ELSE 0
  BY DEF SelectInSeq
<1>3. NextOf(c) = IF p < Len(chain) THEN chain[p + 1] ELSE FirstFrom(j + 1)
  BY <1>1 DEF NextOf
<1>4. I \subseteq Nat /\ k \in I
  BY PlaceFacts DEF IsAt
<1>5. Min(I) \in I
  <2> HIDE DEF I
  <2> QED
    BY <1>4, MinIsLeast
<1>6. p \in I
  BY <1>2, <1>4, <1>5
<1> HIDE DEF p
<1>7. IsAt(c, j, p)
  BY <1>6 DEF IsAt
<1>8. p = k
  BY <1>7, OnePlace
<1> QED
  BY <1>3, <1>8

\* A cell whose place is not later than another's is that cell or before it.
LEMMA PassedUpTo ==
  ASSUME Inv, NEW c \in DOMAIN assoc, NEW j, NEW k, IsAt(c, j, k), NEW d \in DOMAIN assoc
  PROVE  d \in Passed(c) \cup {c}
           <=> \E i, l : IsAt(d, i, l) /\ (i < j \/ (i = j /\ l <= k))
<1>1. HasTable
  BY CellFacts
<1>2. PICK i, l : IsAt(d, i, l)
  BY HasPlace
<1>3. /\ i \in Nat /\ l \in Nat /\ j \in Nat /\ k \in Nat
      /\ \A x, y : IsAt(d, x, y) => x = i /\ y = l
  BY <1>1, <1>2, PlaceFacts, OnePlace
<1>4. Before(d, c) <=> i < j \/ (i = j /\ l < k)
  BY <1>1, <1>2, BeforeByPlace
<1>5. d = c <=> i = j /\ l = k
  <2>1. ASSUME d = c PROVE i = j /\ l = k
    BY <1>3, <2>1
  <2>2. ASSUME i = j, l = k PROVE d = c
    BY <1>2, <2>2 DEF IsAt
  <2> QED
    BY <2>1, <2>2
<1>6. d \in Passed(c) \cup {c} <=> i < j \/ (i = j /\ l <= k)
  BY <1>3, <1>4, <1>5 DEF Passed
<1> QED
  BY <1>2, <1>3, <1>6

\* No cell is before itself.
LEMMA NotBeforeItself ==
  ASSUME Inv, NEW c \in DOMAIN assoc
  PROVE  c \notin Passed(c)
<1>1. HasTable
  BY CellFacts
<1>2. PICK j, k : IsAt(c, j, k)
  BY HasPlace
<1>3. Before(c, c) <=> j < j \/ (j = j /\ k < k)
  BY <1>1, <1>2, BeforeByPlace
<1>4. j \in Nat /\ k \in Nat
  BY <1>1, <1>2, PlaceFacts
<1> QED
  BY <1>3, <1>4 DEF Passed

\* Before the first cell there is none.
LEMMA FirstCell ==
  ASSUME Inv, DOMAIN assoc # {}
  PROVE  FirstFrom(0) \in DOMAIN assoc /\ Passed(FirstFrom(0)) = {}
<1> DEFINE f == FirstFrom(0)
<1>1. HasTable
  BY CellFacts
<1>2. m_nHashTableSize \in Nat
  BY <1>1, TableFacts
<1>3. 0 \in 0 .. m_nHashTableSize
  BY <1>2
<1>4. ASSUME NEW d \in DOMAIN assoc
      PROVE  \E i, l : IsAt(d, i, l) /\ i \in 0 .. m_nHashTableSize - 1
                         /\ m_pHashTable[i] # <<>> /\ l \in Nat /\ l >= 1
  <2>1. PICK i, l : IsAt(d, i, l)
    BY HasPlace
  <2>2. /\ i \in 0 .. m_nHashTableSize - 1 /\ l \in Nat /\ l >= 1
        /\ l <= Len(m_pHashTable[i])
    BY <1>1, <2>1, PlaceFacts
  <2>3. m_pHashTable[i] # <<>>
    BY <2>2
  <2> QED
    BY <2>1, <2>2, <2>3
<1>5. PICK i \in 0 .. m_nHashTableSize - 1 :
        IsAt(f, i, 1) /\ \A h \in 0 .. i - 1 : m_pHashTable[h] = <<>>
  <2>1. \E i \in 0 .. m_nHashTableSize - 1 : m_pHashTable[i] # <<>>
    BY <1>4
  <2> QED
    BY <1>1, <1>3, <2>1, FirstFromFacts
<1> HIDE DEF f
<1>6. f \in DOMAIN assoc /\ i \in Nat
  BY <1>1, <1>5, PlaceFacts
<1>7. ASSUME NEW d \in DOMAIN assoc PROVE ~Before(d, f)
  <2>1. PICK h, l : IsAt(d, h, l) /\ h \in 0 .. m_nHashTableSize - 1
                      /\ m_pHashTable[h] # <<>> /\ l \in Nat /\ l >= 1
    BY <1>4
  <2>2. h \in Nat /\ ~(h \in 0 .. i - 1)
    BY <1>2, <1>5, <2>1
  <2>3. Before(d, f) <=> h < i \/ (h = i /\ l < 1)
    BY <1>1, <1>5, <2>1, BeforeByPlace
  <2> QED
    BY <1>6, <2>1, <2>2, <2>3
<1>8. Passed(f) = {}
  BY <1>7 DEF Passed
<1> QED
  BY <1>6, <1>8 DEF f

\* An iteration goes from a cell to the next one in the order, or it ends when
\* there is none.
LEMMA Successor ==
  ASSUME Inv, NEW c \in DOMAIN assoc
  PROVE  \/ NextOf(c) = NULL /\ Passed(c) \cup {c} = DOMAIN assoc
         \/ NextOf(c) \in DOMAIN assoc /\ Passed(NextOf(c)) = Passed(c) \cup {c}
<1> DEFINE D == DOMAIN assoc
           n == NextOf(c)
           size == m_nHashTableSize
<1>1. HasTable
  BY CellFacts
<1>2. PICK j, k : IsAt(c, j, k)
  BY HasPlace
<1>3. /\ j \in 0 .. size - 1 /\ size \in Nat /\ j \in Nat /\ k \in Nat /\ k >= 1
      /\ k <= Len(m_pHashTable[j]) /\ Len(m_pHashTable[j]) \in Nat
  BY <1>1, <1>2, PlaceFacts
<1>4. n = IF k < Len(m_pHashTable[j]) THEN m_pHashTable[j][k + 1] ELSE FirstFrom(j + 1)
  BY <1>1, <1>2, NextOfFacts
<1> HIDE DEF n
<1>5. Passed(c) \subseteq D
  BY DEF Passed
<1>6. ASSUME NEW d \in D
      PROVE  \E i, l : /\ IsAt(d, i, l) /\ i \in 0 .. size - 1 /\ l \in Nat /\ l >= 1
                       /\ l <= Len(m_pHashTable[i]) /\ m_pHashTable[i] # <<>>
                       /\ (d \in Passed(c) \cup {c} <=> i < j \/ (i = j /\ l <= k))
  <2>1. PICK i, l : IsAt(d, i, l)
    BY HasPlace
  <2>2. /\ i \in 0 .. size - 1 /\ l \in Nat /\ l >= 1
        /\ l <= Len(m_pHashTable[i])
    BY <1>1, <2>1, PlaceFacts
  <2>3. m_pHashTable[i] # <<>>
    BY <2>2
  <2>4. \A x, y : IsAt(d, x, y) => x = i /\ y = l
    BY <1>1, <2>1, OnePlace
  <2>5. d \in Passed(c) \cup {c} <=> i < j \/ (i = j /\ l <= k)
    BY <1>2, <2>1, <2>4, PassedUpTo
  <2> QED
    BY <2>1, <2>2, <2>3, <2>5
\* the next cell of the chain
<1>7. CASE k < Len(m_pHashTable[j])
  <2> DEFINE m == k + 1
  <2>1. m \in 1 .. Len(m_pHashTable[j]) /\ m \in Nat /\ m = k + 1
    BY <1>3, <1>7
  <2> HIDE DEF m
  <2>2. IsAt(n, j, m)
    BY <1>3, <1>4, <1>7, <2>1 DEF IsAt
  <2>3. n \in D
    BY <1>1, <2>2, PlaceFacts
  <2>4. ASSUME NEW d \in D PROVE Before(d, n) <=> d \in Passed(c) \cup {c}
    <3>1. PICK i, l : /\ IsAt(d, i, l) /\ i \in 0 .. size - 1 /\ l \in Nat
                      /\ (d \in Passed(c) \cup {c} <=> i < j \/ (i = j /\ l <= k))
      BY <1>6
    <3>2. Before(d, n) <=> i < j \/ (i = j /\ l < m)
      BY <1>1, <2>2, <3>1, BeforeByPlace
    <3>3. l < m <=> l <= k
      BY <1>3, <2>1, <3>1
    <3> QED
      BY <3>1, <3>2, <3>3
  <2>5. Passed(n) = Passed(c) \cup {c}
    BY <1>5, <2>4 DEF Passed
  <2> QED
    BY <2>3, <2>5 DEF n
\* another chain
<1>8. CASE ~(k < Len(m_pHashTable[j]))
  <2> DEFINE b == j + 1
  <2>1. b \in 0 .. size /\ b \in Nat /\ b = j + 1 /\ k = Len(m_pHashTable[j])
    BY <1>3, <1>8
  <2>2. n = FirstFrom(b)
    BY <1>4, <1>8
  <2> HIDE DEF b
  <2>3. CASE n = NULL /\ \A i \in b .. size - 1 : m_pHashTable[i] = <<>>
    <3>1. ASSUME NEW d \in D PROVE d \in Passed(c) \cup {c}
      <4>1. PICK i, l : /\ IsAt(d, i, l) /\ i \in 0 .. size - 1 /\ l \in Nat
                        /\ l <= Len(m_pHashTable[i]) /\ m_pHashTable[i] # <<>>
                        /\ (d \in Passed(c) \cup {c} <=> i < j \/ (i = j /\ l <= k))
        BY <1>6
      <4>2. ~(i \in b .. size - 1)
        BY <2>3, <4>1
      <4>3. i < j \/ i = j
        BY <1>3, <2>1, <4>1, <4>2
      <4> QED
        BY <2>1, <4>1, <4>3
    <3>2. Passed(c) \cup {c} = D
      BY <1>5, <3>1
    <3> QED
      BY <2>3, <3>2 DEF n
  <2>4. ASSUME NEW h \in b .. size - 1, IsAt(n, h, 1),
               \A g \in b .. h - 1 : m_pHashTable[g] = <<>>
        PROVE  n \in D /\ Passed(n) = Passed(c) \cup {c}
    <3>1. n \in D /\ h \in Nat
      BY <1>1, <2>4, PlaceFacts
    <3>2. ASSUME NEW d \in D PROVE Before(d, n) <=> d \in Passed(c) \cup {c}
      <4>1. PICK i, l : /\ IsAt(d, i, l) /\ i \in 0 .. size - 1 /\ l \in Nat /\ l >= 1
                        /\ l <= Len(m_pHashTable[i]) /\ m_pHashTable[i] # <<>>
                        /\ (d \in Passed(c) \cup {c} <=> i < j \/ (i = j /\ l <= k))
        BY <1>6
      <4>2. Before(d, n) <=> i < h \/ (i = h /\ l < 1)
        BY <1>1, <2>4, <4>1, BeforeByPlace
      <4>3. i \in Nat /\ ~(i \in b .. h - 1)
        BY <1>3, <2>4, <4>1
      <4>4. i < h <=> i < j \/ i = j
        BY <1>3, <2>1, <3>1, <4>3
      <4>5. ~(l < 1)
        BY <4>1
      <4>6. i = j => l <= k
        BY <2>1, <4>1
      <4> QED
        BY <4>1, <4>2, <4>4, <4>5, <4>6
    <3>3. Passed(n) = Passed(c) \cup {c}
      BY <1>5, <3>2 DEF Passed
    <3> QED
      BY <3>1, <3>3
  <2>5. \/ n = NULL /\ \A i \in b .. size - 1 : m_pHashTable[i] = <<>>
        \/ \E h \in b .. size - 1 :
             IsAt(n, h, 1) /\ \A g \in b .. h - 1 : m_pHashTable[g] = <<>>
    BY <1>1, <2>1, <2>2, FirstFromFacts
  <2> QED
    BY <2>3, <2>4, <2>5 DEF n
<1> QED
  BY <1>7, <1>8

\* GetNextAssoc
LEMMA GetNextAssocKeeps ==
  ASSUME Inv, GetNextAssoc
  PROVE  Inv'
<1> DEFINE D == DOMAIN assoc
           c == IF pos = BEFORE_START_POSITION THEN FirstFrom(0) ELSE pos
           key == assoc[c].key
<1>1. /\ iterating /\ pos # NULL /\ pos' = NextOf(c) /\ visited' = Append(visited, key)
      /\ UNCHANGED <<table, pool, assoc>> /\ iterating' = iterating /\ assoc' = assoc
  BY DEF GetNextAssoc
<1>2. /\ CellsOK' /\ PoolOK' /\ TableOK'
      /\ \A d \in D : Passed(d)' = Passed(d)
      /\ \A E \in SUBSET D : KeysOf(E)' = KeysOf(E)
  BY <1>1, SameTable
<1>3. /\ D # {} /\ visited \in Seq(Key) /\ IsInjective(visited) /\ iterating = TRUE
      /\ \/ pos = BEFORE_START_POSITION /\ visited = <<>>
         \/ pos \in D /\ Range(visited) = KeysOf(Passed(pos))
  BY <1>1 DEF Inv, IterationOK
<1>4. c \in D /\ Range(visited) = KeysOf(Passed(c))
  <2>1. CASE pos = BEFORE_START_POSITION
    <3>1. pos \notin D
      <4>1. ASSUME pos \in D PROVE FALSE
        <5>1. pos \in 1 .. cells
          BY <4>1, CellFacts
        <5> QED
          BY <2>1, <5>1 DEF BEFORE_START_POSITION
      <4> QED
        BY <4>1
    <3>2. Range(visited) = {}
      BY <1>3, <3>1 DEF Range
    <3>3. c \in D /\ Passed(c) = {}
      BY <1>3, <2>1, FirstCell
    <3> QED
      BY <3>2, <3>3 DEF KeysOf
  <2>2. CASE pos # BEFORE_START_POSITION
    BY <1>3, <2>2
  <2> QED
    BY <2>1, <2>2
<1> HIDE DEF c
<1>5. key \in Key
  BY <1>4, CellFacts
<1>6. key \notin Range(visited)
  <2> SUFFICES ASSUME key \in KeysOf(Passed(c)) PROVE FALSE
    BY <1>4
  <2>1. PICK d \in Passed(c) : assoc[d].key = key
    BY DEF KeysOf
  <2>2. d \in D
    BY DEF Passed
  <2>3. d = c
    BY <1>4, <2>1, <2>2 DEF Inv, CellsOK
  <2> QED
    BY <1>4, <2>3, NotBeforeItself
<1>7. /\ visited' \in Seq(Key) /\ IsInjective(visited')
      /\ Range(visited') = Range(visited) \cup {key}
  <2> HIDE DEF key
  <2>1. /\ Append(visited, key) \in Seq(Key) /\ IsInjective(Append(visited, key))
        /\ Range(Append(visited, key)) = Range(visited) \cup {key}
    BY <1>3, <1>5, <1>6, AppendOnce
  <2> QED
    BY <1>1, <2>1
<1>8. Range(visited') = KeysOf(Passed(c) \cup {c})
  <2>1. KeysOf(Passed(c) \cup {c}) = KeysOf(Passed(c)) \cup {key}
    BY DEF KeysOf
  <2> QED
    BY <1>4, <1>7, <2>1
<1>9. \/ pos' = NULL /\ Passed(c) \cup {c} = D
      \/ pos' \in D /\ Passed(NextOf(c)) = Passed(c) \cup {c}
  BY <1>1, <1>4, Successor
<1>10. CASE pos' = NULL /\ Passed(c) \cup {c} = D
  <2>1. KeysOf(DOMAIN assoc)' = KeysOf(D)
    BY <1>1, <1>2 DEF KeysOf
  <2>2. Range(visited') = KeysOf(DOMAIN assoc)'
    BY <1>8, <1>10, <2>1
  <2>3. IterationOK'
    BY <1>1, <1>3, <1>7, <1>10, <2>2 DEF IterationOK, NULL
  <2> QED
    BY <1>2, <2>3 DEF Inv
<1>11. CASE pos' \in D /\ Passed(NextOf(c)) = Passed(c) \cup {c}
  <2> DEFINE n == NextOf(c)
  <2>1. n \in D /\ pos' = n /\ Passed(n) = Passed(c) \cup {c}
    BY <1>1, <1>11
  <2> HIDE DEF n
  <2>2. Passed(pos)' = Passed(n)
    <3>1. /\ m_pHashTable' = m_pHashTable /\ m_nHashTableSize' = m_nHashTableSize
          /\ assoc' = assoc
      BY <1>1, Zenon DEF table
    <3> QED
      BY <2>1, <3>1 DEF Passed, Before, BucketIn
  <2>3. KeysOf(Passed(pos))' = KeysOf(Passed(n))
    BY <1>1, <2>2 DEF KeysOf
  <2>4. Range(visited') = KeysOf(Passed(pos))'
    BY <1>8, <2>1, <2>3
  <2>5. pos' \in DOMAIN assoc' /\ D # {}
    BY <1>1, <1>3, <2>1
  <2>6. IterationOK'
    BY <1>1, <1>3, <1>7, <2>4, <2>5 DEF IterationOK
  <2> QED
    BY <1>2, <2>6 DEF Inv
<1> QED
  BY <1>9, <1>10, <1>11

\* No step breaks the invariant.
LEMMA StepInv ==
  ASSUME Inv, [Next]_vars
  PROVE  Inv'
<1>1. ASSUME NEW key \in Key, NEW value \in Value, SetExisting(key, value) PROVE Inv'
  BY <1>1, SetExistingKeeps
<1>2. ASSUME NEW key \in Key, NEW value \in Value, SetNew(key, value) PROVE Inv'
  BY <1>2, SetNewKeeps
<1>3. ASSUME NEW key \in Key, RemoveKey(key) PROVE Inv'
  BY <1>3, RemoveKeyKeeps
<1>4. CASE RemoveAll
  BY <1>4, RemoveAllKeeps
<1>5. ASSUME NEW n \in Wanted, Resize(n) PROVE Inv'
  BY <1>5, ResizeKeeps
<1>6. CASE GetStartPosition
  BY <1>6, GetStartPositionKeeps
<1>7. CASE GetNextAssoc
  BY <1>7, GetNextAssocKeeps
<1>8. CASE EndIteration
  BY <1>8, EndIterationKeeps
<1>9. CASE UNCHANGED vars
  <2>1. /\ m_pHashTable' = m_pHashTable /\ m_nHashTableSize' = m_nHashTableSize
        /\ m_nBlockSize' = m_nBlockSize /\ m_nCount' = m_nCount
        /\ m_pFreeList' = m_pFreeList /\ cells' = cells /\ assoc' = assoc
        /\ iterating' = iterating /\ pos' = pos /\ visited' = visited
    BY <1>9, Zenon DEF vars, table, pool, iteration
  <2>2. CellsOK' /\ PoolOK'
    BY <2>1 DEF Inv, CellsOK, PoolOK
  <2>3. TableOK'
    BY <2>1 DEF Inv, TableOK, HasTable
  <2>4. IterationOK'
    BY <2>1 DEF Inv, IterationOK, KeysOf, Passed, Before, BucketIn, NULL,
                BEFORE_START_POSITION
  <2> QED
    BY <2>2, <2>3, <2>4 DEF Inv
<1> QED
  BY <1>1, <1>2, <1>3, <1>4, <1>5, <1>6, <1>7, <1>8, <1>9 DEF Next

\* The invariant holds in every state of the map, whatever its keys hash to.
THEOREM Invariance == Spec => []Inv
<1>1. Init => Inv
  BY InitInv
<1>2. Inv /\ [Next]_vars => Inv'
  BY StepInv
<1> QED
  BY <1>1, <1>2, PTL DEF Spec

-----------------------------------------------------------------------------
(* The properties *)

\* The chains of all buckets together: every cell in use once
LEMMA ChainedOnce ==
  ASSUME Inv
  PROVE  /\ Chained \in Seq(1 .. cells) /\ IsInjective(Chained)
         /\ Range(Chained) = DOMAIN assoc
<1> DEFINE D == DOMAIN assoc
<1>1. Chained \in Seq(D) /\ IsInjective(Chained) /\ Range(Chained) = D
  <2>1. CASE HasTable
    <3>1. \A c \in D : assoc[c].nHashValue \in Nat
      BY CellFacts
    <3>2. /\ m_nHashTableSize \in Nat \ {0}
          /\ ChainsHold(m_pHashTable, m_nHashTableSize, assoc, D)
      BY <2>1, TableFacts
    <3> QED
      BY <3>1, <3>2, TraversalOnce DEF Chained
  <2>2. CASE ~HasTable
    <3>1. D = {} /\ DOMAIN m_pHashTable = {}
      BY <2>2 DEF Inv, TableOK, HasTable
    <3>2. Chained = <<>>
      BY <3>1, TraversalOfNothing DEF Chained
    <3>3. <<>> \in Seq(D) /\ IsInjective(<<>>) /\ Range(<<>>) = {}
      BY DEF IsInjective, Range
    <3> QED
      BY <3>1, <3>2, <3>3
  <2> QED
    BY <2>1, <2>2
<1>2. D \subseteq 1 .. cells
  BY CellFacts
<1>3. Chained \in Seq(1 .. cells)
  <2> HIDE DEF D
  <2> QED
    BY <1>1, <1>2, SeqOver
<1> QED
  BY <1>1, <1>3

\* The variables of the map keep their types: the buckets are those of the
\* current size and hold cells of the blocks.
THEOREM TypeCorrect == Spec => []TypeOK
<1>1. ASSUME Inv PROVE TypeOK
  <2>1. /\ m_nHashTableSize \in Nat \ {0} /\ m_nBlockSize \in Nat
        /\ m_nCount \in Nat /\ cells \in Nat /\ m_pFreeList \in Seq(1 .. cells)
    BY <1>1, CountFacts DEF Inv, TableOK, PoolOK
  <2>2. HasTable => DOMAIN m_pHashTable = 0 .. m_nHashTableSize - 1
    BY <1>1, TableFacts
  <2>3. ASSUME NEW j \in DOMAIN m_pHashTable PROVE m_pHashTable[j] \in Seq(1 .. cells)
    <3>1. HasTable
      BY DEF HasTable
    <3>2. j \in 0 .. m_nHashTableSize - 1
      BY <2>2, <3>1
    <3>3. m_pHashTable[j] \in Seq(DOMAIN assoc)
      BY <1>1, <3>1, <3>2, ChainFacts
    <3>4. Range(m_pHashTable[j]) \subseteq 1 .. cells
      <4>1. DOMAIN assoc \subseteq 1 .. cells
        BY <1>1, CellFacts
      <4> QED
        BY <3>3, <4>1, SeqFacts
    <3> QED
      BY <3>3, <3>4, SeqOver
  <2>4. \A c \in DOMAIN assoc :
          assoc[c] \in [key : Key, value : Value, nHashValue : Nat]
    BY <1>1 DEF Inv, CellsOK, Association
  <2>5. iterating \in BOOLEAN /\ visited \in Seq(Key)
    BY <1>1 DEF Inv, IterationOK
  <2>6. pos \in -1 .. cells
    <3>1. pos = BEFORE_START_POSITION \/ pos = NULL \/ pos \in DOMAIN assoc
      BY <1>1 DEF Inv, IterationOK
    <3>2. pos \in DOMAIN assoc => pos \in 1 .. cells
      BY <1>1, CellFacts
    <3> QED
      BY <2>1, <3>1, <3>2 DEF BEFORE_START_POSITION, NULL
  <2> QED
    BY <2>1, <2>2, <2>3, <2>4, <2>5, <2>6 DEF TypeOK
<1>2. Inv => TypeOK
  BY <1>1
<1> QED
  BY <1>2, Invariance, PTL

\* No cell of the blocks is lost, chained twice or free while it is in use,
\* through every SetAt, RemoveKey and InitHashTable, and m_nCount is right.
THEOREM CellsAreAccounted == Spec => []CellsAccounted
<1>1. ASSUME Inv PROVE CellsAccounted
  <2> DEFINE s == Chained
             t == m_pFreeList
             S == 1 .. cells
  <2>1. s \in Seq(S) /\ IsInjective(s) /\ Range(s) = DOMAIN assoc
    BY <1>1, ChainedOnce
  <2>2. /\ t \in Seq(S) /\ IsInjective(t) /\ DOMAIN assoc \cup Range(t) = S
        /\ DOMAIN assoc \cap Range(t) = {} /\ m_nCount = Cardinality(DOMAIN assoc)
    BY <1>1 DEF Inv, PoolOK
  <2> HIDE DEF s, t, S
  <2>3. Range(s) \cap Range(t) = {}
    BY <2>1, <2>2
  <2>4. IsInjective(s \o t) /\ Range(s \o t) = Range(s) \cup Range(t)
    BY <2>1, <2>2, <2>3, ConcatOnce
  <2>5. m_nCount = Len(s)
    BY <2>1, <2>2, LenOnce
  <2>6. Range(s \o t) = S
    BY <2>1, <2>2, <2>4
  <2> QED
    BY <2>1, <2>4, <2>5, <2>6 DEF CellsAccounted, s, t, S
<1>2. Inv => CellsAccounted
  BY <1>1
<1> QED
  BY <1>2, Invariance, PTL

\* GetAssocAt finds the cell of every key, whatever sizes the table has had.
THEOREM KeysAreFound == Spec => []EveryKeyIsFound
<1>1. Inv => EveryKeyIsFound
  BY Found DEF EveryKeyIsFound
<1> QED
  BY <1>1, Invariance, PTL

\* The table has more buckets than keys after every operator[], RemoveKey and
\* InitHashTable.
THEOREM LoadIsBounded == Spec => []LoadBounded
<1>1. ASSUME Inv, m_nCount # 0 PROVE HasTable /\ m_nCount < m_nHashTableSize
  <2>1. HasTable
    BY <1>1, FS_EmptySet DEF Inv, TableOK, PoolOK
  <2> QED
    BY <1>1, <2>1, TableFacts
<1>2. Inv => LoadBounded
  BY <1>1 DEF LoadBounded
<1> QED
  BY <1>2, Invariance, PTL

\* GetNextAssoc returns every key once, although values are set meanwhile.
THEOREM IterationIsComplete == Spec => []IterationComplete
<1>1. ASSUME Inv, iterating, pos = NULL
      PROVE  IsInjective(visited) /\ Range(visited) = {assoc[c].key : c \in DOMAIN assoc}
  <2>1. pos \notin DOMAIN assoc
    BY <1>1, CellFacts
  <2> QED
    BY <1>1, <2>1 DEF Inv, IterationOK, KeysOf, NULL, BEFORE_START_POSITION
<1>2. Inv => IterationComplete
  BY <1>1 DEF IterationComplete
<1> QED
  BY <1>2, Invariance, PTL

-----------------------------------------------------------------------------
(* The refinement of Dictionary *)

\* The dictionary by the cells: the keys are theirs and so are the values.
ByCells ==
  /\ Contents = [k \in DOMAIN Contents |-> Contents[k]]
  /\ \A k : k \in DOMAIN Contents <=> \E c \in DOMAIN assoc : assoc[c].key = k
  /\ \A c \in DOMAIN assoc : Contents[assoc[c].key] = assoc[c].value

\* What Lookup answers is what the cells say.
THEOREM ContentsByCells == Inv => ByCells
<1> SUFFICES ASSUME Inv PROVE ByCells
  OBVIOUS
<1> DEFINE K == {k \in Key : GetAssocAt(k) # NULL}
<1>1. Contents = [k \in K |-> assoc[GetAssocAt(k)].value]
  BY DEF Contents
<1>2. DOMAIN Contents = K /\ Contents = [k \in DOMAIN Contents |-> Contents[k]]
  BY <1>1
<1>3. ASSUME NEW c \in DOMAIN assoc
      PROVE  assoc[c].key \in K /\ GetAssocAt(assoc[c].key) = c
  BY Found, CellFacts
<1>4. ASSUME NEW k \in K PROVE \E c \in DOMAIN assoc : assoc[c].key = k
  BY Lookup
<1>5. \A c \in DOMAIN assoc : Contents[assoc[c].key] = assoc[c].value
  BY <1>1, <1>3
<1> QED
  BY <1>2, <1>3, <1>4, <1>5 DEF ByCells

\* The same of the next state
THEOREM NextContentsByCells == Inv' => ByCells'
BY ContentsByCells, PTL

\* Every step of the map is one of the dictionary, or changes no answer.
LEMMA StepRefines ==
  ASSUME Inv, Inv', [Next]_vars
  PROVE  [Abstract!Next]_Contents
<1> DEFINE D == DOMAIN assoc
           M == Contents
           N == Contents'
<1>1. /\ M = [k \in DOMAIN M |-> M[k]]
      /\ \A k : k \in DOMAIN M <=> \E c \in D : assoc[c].key = k
      /\ \A c \in D : M[assoc[c].key] = assoc[c].value
  BY ContentsByCells DEF ByCells
<1>2. /\ N = [k \in DOMAIN N |-> N[k]]
      /\ \A k : k \in DOMAIN N <=> \E c \in DOMAIN assoc' : assoc'[c].key = k
      /\ \A c \in DOMAIN assoc' : N[assoc'[c].key] = assoc'[c].value
  BY NextContentsByCells DEF ByCells
<1> HIDE DEF M, N
<1>3. ASSUME assoc' = assoc PROVE N = M
  <2>1. DOMAIN N = DOMAIN M
    BY <1>1, <1>2, <1>3
  <2>2. ASSUME NEW k \in DOMAIN M PROVE N[k] = M[k]
    <3>1. PICK c \in D : assoc[c].key = k
      BY <1>1
    <3> QED
      BY <1>1, <1>2, <1>3, <3>1
  <2> QED
    BY <1>1, <1>2, <2>1, <2>2
<1>4. ASSUME NEW key \in Key, NEW value \in Value, NEW c,
             DOMAIN assoc' = D \cup {c}, assoc'[c].key = key, assoc'[c].value = value,
             c \in D => assoc[c].key = key,
             \A d \in D : d # c => assoc'[d] = assoc[d],
             \A d \in D : d # c => assoc[d].key # key
      PROVE  N = [k \in DOMAIN M \cup {key} |-> IF k = key THEN value ELSE M[k]]
  <2>1. ASSUME NEW k PROVE k \in DOMAIN N <=> k \in DOMAIN M \cup {key}
    BY <1>1, <1>2, <1>4
  <2>2. N[key] = value
    BY <1>2, <1>4
  <2>3. ASSUME NEW k \in DOMAIN M, k # key PROVE N[k] = M[k]
    <3>1. PICK d \in D : assoc[d].key = k
      BY <1>1
    <3>2. d # c /\ assoc'[d] = assoc[d] /\ d \in DOMAIN assoc'
      BY <1>4, <2>3, <3>1
    <3> QED
      BY <1>1, <1>2, <3>1, <3>2
  <2>4. DOMAIN N = DOMAIN M \cup {key}
    BY <2>1
  <2> QED
    BY <1>2, <2>2, <2>3, <2>4
<1>5. ASSUME NEW key \in Key, NEW value \in Value, SetExisting(key, value)
      PROVE  N = [k \in DOMAIN M \cup {key} |-> IF k = key THEN value ELSE M[k]]
  <2> DEFINE c == GetAssocAt(key)
  <2>1. c \in D /\ assoc[c].key = key
    BY <1>5, Lookup DEF SetExisting
  <2>2. assoc' = [assoc EXCEPT ![c].value = value]
    BY <1>5 DEF SetExisting
  <2>3. assoc \in [D -> Association] /\ \A d \in D : assoc[d].key = key => d = c
    BY <2>1 DEF Inv, CellsOK
  <2> HIDE DEF c
  <2>4. /\ DOMAIN assoc' = D \cup {c} /\ assoc'[c].key = key /\ assoc'[c].value = value
        /\ \A d \in D : d # c => assoc'[d] = assoc[d]
    BY <2>1, <2>2, <2>3 DEF Association
  <2> QED
    BY <1>4, <2>1, <2>3, <2>4
<1>6. ASSUME NEW key \in Key, NEW value \in Value, SetNew(key, value)
      PROVE  N = [k \in DOMAIN M \cup {key} |-> IF k = key THEN value ELSE M[k]]
  <2> DEFINE t == Grown
             free == Replenished(t.block)
             c == Head(free)
             cell == [key |-> key, value |-> value, nHashValue |-> HashKey[key]]
  <2>1. /\ GetAssocAt(key) = NULL
        /\ assoc' = [d \in D \cup {c} |-> IF d = c THEN cell ELSE assoc[d]]
    BY <1>6 DEF SetNew
  <2>2. \A d \in D : assoc[d].key # key
    BY <2>1, Lookup
  <2>3. c \notin D
    <3>1. t.block \in Nat /\ t.block > 0
      BY GrownOK DEF TableFor
    <3> HIDE DEF t
    <3>2. \E all \in Nat : free \in Seq(1 .. all) /\ IsInjective(free) /\ free # <<>>
      BY <3>1, ReplenishedOK
    <3>3. D \cap Range(free) = {}
      BY <3>1, ReplenishedOK
    <3> HIDE DEF free
    <3>4. c \in Range(free)
      BY <3>2, TailOnce
    <3> QED
      BY <3>3, <3>4
  <2> HIDE DEF c
  <2>4. /\ DOMAIN assoc' = D \cup {c} /\ assoc'[c].key = key /\ assoc'[c].value = value
        /\ \A d \in D : d # c => assoc'[d] = assoc[d]
    BY <2>1
  <2> QED
    BY <1>4, <2>2, <2>3, <2>4
<1>7. ASSUME NEW key \in Key, RemoveKey(key)
      PROVE  key \in DOMAIN M /\ N = [k \in DOMAIN M \ {key} |-> M[k]]
  <2> DEFINE c == GetAssocAt(key)
  <2>1. c \in D /\ assoc[c].key = key
    BY <1>7, Lookup DEF RemoveKey
  <2>2. assoc' = [d \in D \ {c} |-> assoc[d]]
    BY <1>7 DEF RemoveKey, Restrict
  <2>3. \A d \in D : assoc[d].key = key => d = c
    BY <2>1 DEF Inv, CellsOK
  <2> HIDE DEF c
  <2>4. DOMAIN assoc' = D \ {c} /\ \A d \in D \ {c} : assoc'[d] = assoc[d]
    BY <2>2
  <2>5. key \in DOMAIN M
    BY <1>1, <2>1
  <2>6. ASSUME NEW k PROVE k \in DOMAIN N <=> k \in DOMAIN M \ {key}
    BY <1>1, <1>2, <2>1, <2>3, <2>4
  <2>7. ASSUME NEW k \in DOMAIN M \ {key} PROVE N[k] = M[k]
    <3>1. PICK d \in D : assoc[d].key = k
      BY <1>1
    <3>2. d \in D \ {c}
      BY <2>1, <3>1
    <3> QED
      BY <1>1, <1>2, <2>4, <3>1, <3>2
  <2>8. DOMAIN N = DOMAIN M \ {key}
    BY <2>6
  <2> QED
    BY <1>2, <2>5, <2>7, <2>8
<1>8. ASSUME RemoveAll PROVE N = [k \in {} |-> k]
  <2>1. DOMAIN assoc' = {}
    BY <1>8 DEF RemoveAll
  <2>2. DOMAIN N = {}
    BY <1>2, <2>1
  <2> QED
    BY <1>2, <2>2
<1> USE DEF M, N
<1>9. ASSUME NEW key \in Key, NEW value \in Value,
             SetExisting(key, value) \/ SetNew(key, value)
      PROVE  Abstract!Next
  <2>1. Abstract!Put(key, value)
    BY <1>5, <1>6, <1>9 DEF Abstract!Put
  <2> QED
    BY <2>1 DEF Abstract!Next
<1>10. ASSUME NEW key \in Key, RemoveKey(key) PROVE Abstract!Next
  <2>1. key \in DOMAIN Contents /\ Abstract!Delete(key)
    BY <1>7, <1>10 DEF Abstract!Delete, Abstract!Restrict
  <2> QED
    BY <2>1 DEF Abstract!Next
<1>11. CASE RemoveAll
  BY <1>8, <1>11 DEF Abstract!Next, Abstract!Clear
<1>12. ASSUME assoc' = assoc PROVE UNCHANGED Contents
  BY <1>3, <1>12
<1>13. ASSUME NEW n \in Wanted, Resize(n) PROVE assoc' = assoc
  BY <1>13 DEF Resize
<1>14. CASE GetStartPosition \/ GetNextAssoc \/ EndIteration
  BY <1>12, <1>14 DEF GetStartPosition, GetNextAssoc, EndIteration
<1>15. CASE UNCHANGED vars
  BY <1>12, <1>15 DEF vars
<1> QED
  BY <1>9, <1>10, <1>11, <1>12, <1>13, <1>14, <1>15 DEF Next

\* The map implements Dictionary: what Lookup answers changes by SetAt,
\* RemoveKey and RemoveAll only, as a dictionary's contents do.
THEOREM Implements == Spec => ImplementsDictionary
<1>1. Init => Abstract!Init
  <2> SUFFICES ASSUME Init PROVE Contents = [k \in {} |-> k]
    BY DEF Abstract!Init
  <2>1. Inv /\ DOMAIN assoc = {}
    BY InitInv DEF Init
  <2>2. /\ Contents = [k \in DOMAIN Contents |-> Contents[k]]
        /\ DOMAIN Contents = {}
    BY <2>1, ContentsByCells DEF ByCells
  <2> QED
    BY <2>2
<1>2. Inv /\ Inv' /\ [Next]_vars => [Abstract!Next]_Contents
  BY StepRefines
<1> QED
  BY <1>1, <1>2, Invariance, PTL DEF Spec, ImplementsDictionary, Abstract!Spec

=============================================================================
