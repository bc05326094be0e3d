--------------------------- MODULE CollectionProofs ---------------------------
(***************************************************************************)
(* Proofs about Collection for every set of items, every set of names and    *)
(* every size.  After any sequence of operations an item that points back    *)
(* to the collection is in the array.  Until a rename takes the name of      *)
(* another item, the hash table and the array agree, and the table by        *)
(* itself behaves as the list of names NamedList describes.                  *)
(***************************************************************************)
EXTENDS Collection, SequenceTheorems, FiniteSetTheorems, TLAPS

-----------------------------------------------------------------------------
(* Lemmas about the operators on sequences *)

\* A sequence is known by its length and its elements.
LEMMA SeqElements ==
  ASSUME NEW S, NEW s \in Seq(S)
  PROVE  /\ Len(s) \in Nat /\ DOMAIN s = 1 .. Len(s)
         /\ \A k \in 1 .. Len(s) : s[k] \in S
BY LenProperties, ElementOfSeq

\* InsertAt shifts the elements from the position on.
LEMMA InsertAtElements ==
  ASSUME NEW S, NEW s \in Seq(S), NEW p \in 1 .. Len(s) + 1, NEW e \in S
  PROVE  /\ InsertAt(s, p, e) \in Seq(S)
         /\ Len(InsertAt(s, p, e)) = Len(s) + 1
         /\ \A k \in 1 .. Len(s) + 1 :
              InsertAt(s, p, e)[k] = IF k < p THEN s[k]
                                     ELSE IF k = p THEN e ELSE s[k - 1]
<1> DEFINE a == SubSeq(s, 1, p - 1)
           c == SubSeq(s, p, Len(s))
<1>0. Len(s) \in Nat /\ p \in Int /\ p - 1 \in Int
  BY SeqElements
<1>1. /\ a \in Seq(S) /\ Len(a) = p - 1
      /\ \A k \in 1 .. p - 1 : a[k] = s[k]
  <2>1. \A k \in 1 .. p - 1 : s[k] \in S
    BY <1>0, SeqElements
  <2>2. /\ SubSeq(s, 1, p - 1) \in Seq(S)
        /\ Len(SubSeq(s, 1, p - 1)) = IF 1 <= p - 1 THEN p - 1 - 1 + 1 ELSE 0
        /\ \A i \in 1 .. p - 1 - 1 + 1 : SubSeq(s, 1, p - 1)[i] = s[1 + i - 1]
    BY <1>0, <2>1, SubSeqProperties
  <2> QED
    BY <1>0, <2>2
<1>2. /\ c \in Seq(S) /\ Len(c) = Len(s) - p + 1
      /\ \A k \in 1 .. Len(s) - p + 1 : c[k] = s[p + k - 1]
  <2>1. \A k \in p .. Len(s) : s[k] \in S
    BY <1>0, SeqElements
  <2> QED
    BY <1>0, <2>1, SubSeqProperties
<1>3. /\ <<e>> \in Seq(S) /\ Len(<<e>>) = 1 /\ <<e>>[1] = e
  OBVIOUS
<1> DEFINE b == <<e>>
<1> HIDE DEF a, b, c
<1>4. /\ a \o b \in Seq(S) /\ Len(a \o b) = p
      /\ \A k \in 1 .. p : (a \o b)[k] = IF k <= p - 1 THEN a[k] ELSE b[k - (p - 1)]
  <2>1. /\ a \o b \in Seq(S) /\ Len(a \o b) = Len(a) + Len(b)
        /\ \A k \in 1 .. Len(a) + Len(b) :
             (a \o b)[k] = IF k <= Len(a) THEN a[k] ELSE b[k - Len(a)]
    BY <1>1, <1>3, ConcatProperties DEF b
  <2> QED
    BY <1>0, <1>1, <1>3, <2>1 DEF b
<1> DEFINE d == a \o b
<1> HIDE DEF d
<1>5. /\ d \o c \in Seq(S) /\ Len(d \o c) = Len(s) + 1
      /\ \A k \in 1 .. Len(s) + 1 : (d \o c)[k] = IF k <= p THEN d[k] ELSE c[k - p]
  <2>1. /\ d \o c \in Seq(S) /\ Len(d \o c) = Len(d) + Len(c)
        /\ \A k \in 1 .. Len(d) + Len(c) :
             (d \o c)[k] = IF k <= Len(d) THEN d[k] ELSE c[k - Len(d)]
    BY <1>2, <1>4, ConcatProperties DEF d
  <2>2. Len(d) = p /\ Len(c) = Len(s) - p + 1 /\ p + (Len(s) - p + 1) = Len(s) + 1
    BY <1>0, <1>2, <1>4 DEF d
  <2> QED
    BY <2>1, <2>2
<1>6. InsertAt(s, p, e) = d \o c
  BY DEF InsertAt, a, b, c, d
<1>7. ASSUME NEW k \in 1 .. Len(s) + 1
      PROVE  /\ k < p => (d \o c)[k] = s[k]
             /\ k = p => (d \o c)[k] = e
             /\ k > p => (d \o c)[k] = s[k - 1]
  <2>1. CASE k < p
    <3>1. (d \o c)[k] = d[k] /\ k \in 1 .. p /\ k \in 1 .. p - 1
      BY <1>0, <1>5, <2>1
    <3>2. d[k] = a[k]
      BY <1>0, <1>4, <2>1, <3>1 DEF d
    <3> QED
      BY <1>0, <1>1, <2>1, <3>1, <3>2
  <2>2. CASE k = p
    <3>1. (d \o c)[k] = d[p] /\ p \in 1 .. p /\ p - (p - 1) = 1
      BY <1>0, <1>5, <2>2
    <3>2. d[p] = b[1]
      <4>1. ~(p <= p - 1)
        BY <1>0
      <4>2. (a \o b)[p] = b[p - (p - 1)]
        BY <1>4, <3>1, <4>1, Zenon
      <4> QED
        BY <3>1, <4>2 DEF d
    <3> QED
      BY <1>0, <1>3, <2>2, <3>1, <3>2 DEF b
  <2>3. CASE k > p
    <3>1. k - p \in 1 .. Len(s) - p + 1 /\ p + (k - p) - 1 = k - 1
      BY <1>0, <2>3
    <3>2. (d \o c)[k] = c[k - p]
      BY <1>0, <1>5, <2>3
    <3>3. c[k - p] = s[k - 1]
      BY <1>2, <3>1
    <3> QED
      BY <1>0, <2>3, <3>2, <3>3
  <2>4. k < p \/ k = p \/ k > p
    BY <1>0
  <2> QED
    BY <2>1, <2>2, <2>3, <2>4
<1> QED
  BY <1>0, <1>5, <1>6, <1>7

InsertedAt(S, s, p, e) ==
  /\ InsertAt(s, p, e) \in Seq(S)
  /\ Len(InsertAt(s, p, e)) = Len(s) + 1
  /\ \A k \in 1 .. Len(s) + 1 :
       InsertAt(s, p, e)[k] = IF k < p THEN s[k]
                              ELSE IF k = p THEN e ELSE s[k - 1]

\* The same as one fact about the four, to be cited for any sequence
LEMMA InsertAtIs ==
  \A S : \A s \in Seq(S) : \A p \in 1 .. Len(s) + 1 : \A e \in S :
    InsertedAt(S, s, p, e)
<1> SUFFICES ASSUME NEW S, NEW s \in Seq(S), NEW p \in 1 .. Len(s) + 1, NEW e \in S
             PROVE  InsertedAt(S, s, p, e)
  OBVIOUS
<1>1. /\ InsertAt(s, p, e) \in Seq(S)
      /\ Len(InsertAt(s, p, e)) = Len(s) + 1
      /\ \A k \in 1 .. Len(s) + 1 :
           InsertAt(s, p, e)[k] = IF k < p THEN s[k]
                                  ELSE IF k = p THEN e ELSE s[k - 1]
  BY InsertAtElements
<1> QED
  BY <1>1 DEF InsertedAt

\* RemoveAt closes the gap.
LEMMA RemoveAtElements ==
  ASSUME NEW S, NEW s \in Seq(S), NEW p \in 1 .. Len(s)
  PROVE  /\ RemoveAt(s, p) \in Seq(S)
         /\ Len(RemoveAt(s, p)) = Len(s) - 1
         /\ \A k \in 1 .. Len(s) - 1 :
              RemoveAt(s, p)[k] = IF k < p THEN s[k] ELSE s[k + 1]
<1> DEFINE a == SubSeq(s, 1, p - 1)
           c == SubSeq(s, p + 1, Len(s))
<1>0. Len(s) \in Nat /\ p \in Int /\ p - 1 \in Int /\ p + 1 \in Int
  BY SeqElements
<1>1. /\ a \in Seq(S) /\ Len(a) = p - 1
      /\ \A k \in 1 .. p - 1 : a[k] = s[k]
  <2>1. \A k \in 1 .. p - 1 : s[k] \in S
    BY <1>0, SeqElements
  <2>2. /\ SubSeq(s, 1, p - 1) \in Seq(S)
        /\ Len(SubSeq(s, 1, p - 1)) = IF 1 <= p - 1 THEN p - 1 - 1 + 1 ELSE 0
        /\ \A i \in 1 .. p - 1 - 1 + 1 : SubSeq(s, 1, p - 1)[i] = s[1 + i - 1]
    BY <1>0, <2>1, SubSeqProperties
  <2> QED
    BY <1>0, <2>2
<1>2. /\ c \in Seq(S) /\ Len(c) = Len(s) - p
      /\ \A k \in 1 .. Len(s) - p : c[k] = s[p + k]
  <2>1. \A k \in p + 1 .. Len(s) : s[k] \in S
    BY <1>0, SeqElements
  <2>2. /\ SubSeq(s, p + 1, Len(s)) \in Seq(S)
        /\ Len(SubSeq(s, p + 1, Len(s))) =
             IF p + 1 <= Len(s) THEN Len(s) - (p + 1) + 1 ELSE 0
        /\ \A i \in 1 .. Len(s) - (p + 1) + 1 :
             SubSeq(s, p + 1, Len(s))[i] = s[p + 1 + i - 1]
    BY <1>0, <2>1, SubSeqProperties
  <2> QED
    BY <1>0, <2>2
<1> HIDE DEF a, c
<1>3. /\ a \o c \in Seq(S) /\ Len(a \o c) = Len(s) - 1
      /\ \A k \in 1 .. Len(s) - 1 :
           (a \o c)[k] = IF k <= p - 1 THEN a[k] ELSE c[k - (p - 1)]
  <2>1. /\ a \o c \in Seq(S) /\ Len(a \o c) = Len(a) + Len(c)
        /\ \A k \in 1 .. Len(a) + Len(c) :
             (a \o c)[k] = IF k <= Len(a) THEN a[k] ELSE c[k - Len(a)]
    BY <1>1, <1>2, ConcatProperties
  <2> QED
    BY <1>0, <1>1, <1>2, <2>1
<1>4. RemoveAt(s, p) = a \o c
  BY DEF RemoveAt, a, c
<1>5. ASSUME NEW k \in 1 .. Len(s) - 1
      PROVE  /\ k < p => (a \o c)[k] = s[k]
             /\ k >= p => (a \o c)[k] = s[k + 1]
  <2>1. CASE k < p
    BY <1>0, <1>1, <1>3, <2>1
  <2>2. CASE k >= p
    <3>1. k - (p - 1) \in 1 .. Len(s) - p /\ p + (k - (p - 1)) = k + 1
      BY <1>0, <2>2
    <3>2. (a \o c)[k] = c[k - (p - 1)]
      BY <1>0, <1>3, <2>2
    <3>3. c[k - (p - 1)] = s[k + 1]
      BY <1>2, <3>1
    <3> QED
      BY <1>0, <2>2, <3>2, <3>3
  <2>3. k < p \/ k >= p
    BY <1>0
  <2> QED
    BY <1>0, <2>1, <2>2, <2>3
<1>6. ASSUME NEW k \in 1 .. Len(s) - 1
      PROVE  (a \o c)[k] = IF k < p THEN s[k] ELSE s[k + 1]
  <2>1. k < p \/ k >= p
    BY <1>0
  <2> QED
    BY <1>5, <2>1
<1> QED
  BY <1>3, <1>4, <1>6

-----------------------------------------------------------------------------
(* Lemmas about the operators on the table *)

\* RemoveKey takes one entry out.
LEMMA RemoveKeyEntries ==
  ASSUME NEW f, NEW name
  PROVE  /\ DOMAIN RemoveKey(f, name) = DOMAIN f \ {name}
         /\ \A n \in DOMAIN f \ {name} : RemoveKey(f, name)[n] = f[n]
BY DEF RemoveKey, Restrict

\* ShiftIndexes keeps the keys.
LEMMA ShiftEntries ==
  ASSUME NEW f, NEW start, NEW delta
  PROVE  /\ DOMAIN ShiftIndexes(f, start, delta) = DOMAIN f
         /\ \A n \in DOMAIN f :
              ShiftIndexes(f, start, delta)[n] =
                IF f[n] >= start THEN f[n] + delta ELSE f[n]
BY DEF ShiftIndexes

\* Remove closes the gap in the table.
LEMMA HashRemoveEntries ==
  ASSUME NEW f, NEW name \in DOMAIN f
  PROVE  /\ DOMAIN HashRemove(f, name) = DOMAIN f \ {name}
         /\ \A n \in DOMAIN f \ {name} :
              HashRemove(f, name)[n] =
                IF f[n] >= f[name] THEN f[n] + (-1) ELSE f[n]
<1> DEFINE g == RemoveKey(f, name)
<1>1. /\ DOMAIN g = DOMAIN f \ {name}
      /\ \A n \in DOMAIN f \ {name} : g[n] = f[n]
  BY RemoveKeyEntries
<1>2. HashRemove(f, name) = ShiftIndexes(g, f[name], -1)
  BY DEF HashRemove
<1> HIDE DEF g
<1>3. /\ DOMAIN ShiftIndexes(g, f[name], -1) = DOMAIN g
      /\ \A n \in DOMAIN g : ShiftIndexes(g, f[name], -1)[n] =
                               IF g[n] >= f[name] THEN g[n] + (-1) ELSE g[n]
  BY ShiftEntries
<1> QED
  BY <1>1, <1>2, <1>3

\* Where Move takes the entry with index h, and where the item that ends up
\* at index k comes from: the numbers between the two places move by one.
NewIndex(h, from, to) ==
  IF h = from THEN to
  ELSE IF from <= h /\ h <= to THEN h - 1
  ELSE IF to <= h /\ h <= from THEN h + 1
  ELSE h

OldIndex(k, from, to) ==
  IF k = to THEN from
  ELSE IF from <= k /\ k < to THEN k + 1
  ELSE IF to < k /\ k <= from THEN k - 1
  ELSE k

\* Moving permutes the indexes.
LEMMA MovePermutes ==
  ASSUME NEW n \in Nat, NEW from \in 0 .. n - 1, NEW to \in 0 .. n - 1,
         NEW h \in 0 .. n - 1
  PROVE  /\ NewIndex(h, from, to) \in 0 .. n - 1
         /\ OldIndex(h, from, to) \in 0 .. n - 1
         /\ OldIndex(NewIndex(h, from, to), from, to) = h
         /\ NewIndex(OldIndex(h, from, to), from, to) = h
BY DEF NewIndex, OldIndex

\* What the table does in Move
LEMMA HashMoveEntries ==
  ASSUME NEW f, NEW from \in Int, NEW to \in Int
  PROVE  /\ DOMAIN HashMove(f, from, to - from) = DOMAIN f
         /\ \A n \in DOMAIN f :
              HashMove(f, from, to - from)[n] = NewIndex(f[n], from, to)
<1>1. from + (to - from) = to
  OBVIOUS
<1> QED
  BY <1>1 DEF HashMove, NewIndex

Moved(s, from, to) == InsertAt(RemoveAt(s, from + 1), to + 1, s[from + 1])

\* What the array does in Move
LEMMA MoveElements ==
  ASSUME NEW S, NEW s \in Seq(S), NEW from \in 0 .. Len(s) - 1,
         NEW to \in 0 .. Len(s) - 1
  PROVE  /\ Moved(s, from, to) \in Seq(S) /\ Len(Moved(s, from, to)) = Len(s)
         /\ \A k \in 0 .. Len(s) - 1 :
              Moved(s, from, to)[k + 1] = s[OldIndex(k, from, to) + 1]
<1> DEFINE n == Len(s)
           r == RemoveAt(s, from + 1)
           p == to + 1
           e == s[from + 1]
           t == InsertAt(r, p, e)
<1>0. n \in Nat /\ from + 1 \in 1 .. n /\ s[from + 1] \in S /\ n >= 1
  BY SeqElements
<1>1. /\ r \in Seq(S) /\ Len(r) = n - 1
      /\ \A k \in 1 .. n - 1 : r[k] = IF k < from + 1 THEN s[k] ELSE s[k + 1]
  BY <1>0, RemoveAtElements
<1>2. r \in Seq(S) /\ e \in S /\ Len(r) + 1 = n /\ p \in 1 .. Len(r) + 1
  BY <1>0, <1>1
<1> HIDE DEF r, p, e
<1>3. /\ t \in Seq(S) /\ Len(t) = n
      /\ \A k \in 1 .. n : t[k] = IF k < p THEN r[k]
                                 ELSE IF k = p THEN e ELSE r[k - 1]
  <2>1. /\ InsertAt(r, p, e) \in Seq(S)
        /\ Len(InsertAt(r, p, e)) = Len(r) + 1
        /\ \A k \in 1 .. Len(r) + 1 :
             InsertAt(r, p, e)[k] = IF k < p THEN r[k]
                                    ELSE IF k = p THEN e ELSE r[k - 1]
    <3> HIDE DEF n
    <3> QED
      BY <1>2, InsertAtElements
  <2> QED
    BY <1>2, <2>1
<1> HIDE DEF t
<1>4. ASSUME NEW k \in 0 .. n - 1
      PROVE  t[k + 1] = s[OldIndex(k, from, to) + 1]
  <2>1. k + 1 \in 1 .. n
    BY <1>0
  <2>2. CASE k = to
    BY <1>0, <1>3, <2>1, <2>2 DEF OldIndex, p, e
  <2>3. CASE k < to
    <3>1. t[k + 1] = r[k + 1] /\ k + 1 \in 1 .. n - 1
      BY <1>0, <1>3, <2>1, <2>3 DEF p
    <3>2. CASE k < from
      <4>1. r[k + 1] = s[k + 1]
        BY <1>0, <1>1, <3>1, <3>2
      <4>2. OldIndex(k, from, to) = k
        BY <1>0, <2>3, <3>2 DEF OldIndex
      <4> QED
        BY <3>1, <4>1, <4>2
    <3>3. CASE k >= from
      <4>1. r[k + 1] = s[k + 1 + 1]
        BY <1>0, <1>1, <3>1, <3>3
      <4>2. OldIndex(k, from, to) = k + 1
        BY <1>0, <2>3, <3>3 DEF OldIndex
      <4> QED
        BY <3>1, <4>1, <4>2
    <3> QED
      BY <1>0, <3>2, <3>3
  <2>4. CASE k > to
    <3>1. t[k + 1] = r[k] /\ k \in 1 .. n - 1
      <4>1. t[k + 1] = r[k + 1 - 1] /\ k + 1 - 1 = k
        BY <1>0, <1>3, <2>1, <2>4 DEF p
      <4> QED
        BY <1>0, <2>4, <4>1
    <3>2. CASE k <= from
      <4>1. r[k] = s[k]
        BY <1>0, <1>1, <3>1, <3>2
      <4>2. OldIndex(k, from, to) = k - 1 /\ k - 1 + 1 = k
        BY <1>0, <2>4, <3>2 DEF OldIndex
      <4> QED
        BY <3>1, <4>1, <4>2
    <3>3. CASE k > from
      <4>1. r[k] = s[k + 1]
        BY <1>0, <1>1, <3>1, <3>3
      <4>2. OldIndex(k, from, to) = k
        BY <1>0, <2>4, <3>3 DEF OldIndex
      <4> QED
        BY <3>1, <4>1, <4>2
    <3> QED
      BY <1>0, <3>2, <3>3
  <2> QED
    BY <1>0, <2>2, <2>3, <2>4
<1> QED
  <2>1. Moved(s, from, to) = t
    BY DEF Moved, t, r, p, e
  <2> QED
    BY <1>3, <1>4, <2>1

-----------------------------------------------------------------------------
(* The inductive invariant *)

\* The name of every item in the array leads to its index.
ItemsFound ==
  \A k \in 1 .. Len(m_Items) :
    /\ m_Name[m_Items[k]] \in DOMAIN m_ItemsHash
    /\ m_ItemsHash[m_Name[m_Items[k]]] = k - 1

\* The table has no other entries: every key is the name of the item at the
\* index it leads to.
KeysUsed ==
  \A name \in DOMAIN m_ItemsHash :
    /\ m_ItemsHash[name] \in 0 .. Len(m_Items) - 1
    /\ m_Name[m_Items[m_ItemsHash[name] + 1]] = name

\* An item points back to the collection exactly if looking its name up gives
\* the item itself.
MembersFound ==
  \A i \in Item :
    m_pCollection[i] <=> /\ m_Name[i] \in DOMAIN m_ItemsHash
                         /\ m_Items[m_ItemsHash[m_Name[i]] + 1] = i

Inv == TypeOK /\ ItemsFound /\ KeysUsed /\ MembersFound

\* An item that points back to the collection is in the array.
Held == \A i \in Item : m_pCollection[i] => i \in Range(m_Items)

\* Every key is the name of an item that points back to the collection.
KeysHeld ==
  \A name \in DOMAIN m_ItemsHash :
    \E i \in Item : m_pCollection[i] /\ m_Name[i] = name

\* What holds whatever the names are, and after a clash too
Base == TypeOK /\ Held /\ KeysHeld

\* The inductive invariant: the correspondence of array and table is there
\* until a rename takes a used name, and again after Clear.
IInv == Base /\ (Intact => Inv)

\* The types in terms of array elements and table entries
LEMMA TypeFacts ==
  ASSUME TypeOK
  PROVE  /\ m_Items \in Seq(Item) /\ Len(m_Items) \in Nat
         /\ DOMAIN m_Items = 1 .. Len(m_Items)
         /\ \A k \in 1 .. Len(m_Items) : m_Items[k] \in Item
         /\ m_Name \in [Item -> Name] /\ m_pCollection \in [Item -> BOOLEAN]
         /\ DOMAIN m_ItemsHash \subseteq Name
         /\ \A name \in DOMAIN m_ItemsHash : m_ItemsHash[name] \in Int
BY SeqElements DEF TypeOK

\* The same of a state that satisfies the invariant
LEMMA InvFacts ==
  ASSUME Inv
  PROVE  /\ m_Items \in Seq(Item) /\ Len(m_Items) \in Nat
         /\ \A k \in 1 .. Len(m_Items) : m_Items[k] \in Item
         /\ m_Name \in [Item -> Name] /\ m_pCollection \in [Item -> BOOLEAN]
         /\ DOMAIN m_ItemsHash \subseteq Name
BY TypeFacts DEF Inv

-----------------------------------------------------------------------------
(* What the invariant says *)

\* Looking up leads from the array to the table and back, so the table has as
\* many entries as the array has items.
LEMMA CountIsLength ==
  ASSUME Inv
  PROVE  Count = Len(m_Items)
<1> DEFINE n == Len(m_Items)
           D == DOMAIN m_ItemsHash
           f == [k \in 1 .. n |-> m_Name[m_Items[k]]]
<1>1. n \in Nat
  BY InvFacts
<1>2. f \in [1 .. n -> D]
  BY DEF Inv, ItemsFound
<1>3. ASSUME NEW a \in 1 .. n, NEW b \in 1 .. n, f[a] = f[b] PROVE a = b
  <2>1. m_ItemsHash[f[a]] = a - 1 /\ m_ItemsHash[f[b]] = b - 1
    BY DEF Inv, ItemsFound
  <2> QED
    BY <1>1, <1>3, <2>1
<1>4. ASSUME NEW t \in D PROVE \E k \in 1 .. n : f[k] = t
  <2>1. m_ItemsHash[t] \in 0 .. n - 1 /\ m_Name[m_Items[m_ItemsHash[t] + 1]] = t
    BY DEF Inv, KeysUsed
  <2>2. m_ItemsHash[t] + 1 \in 1 .. n
    BY <1>1, <2>1
  <2> QED
    BY <2>1, <2>2
<1>5. f \in Bijection(1 .. n, D)
  <2> HIDE DEF f, n, D
  <2>1. DOMAIN f = 1 .. n
    BY <1>2
  <2> QED
    BY <1>2, <1>3, <1>4, <2>1 DEF Bijection, Injection, Surjection, IsInjective
<1>6. ExistsBijection(1 .. n, D)
  BY <1>5 DEF ExistsBijection
<1> HIDE DEF n, D
<1>7. Cardinality(D) = n
  BY <1>1, <1>6, FS_CountingElements
<1> QED
  BY <1>7 DEF n, D, Count

-----------------------------------------------------------------------------
(* The steps *)

\* An item that enters the array at index p, while the entries from p on are
\* shifted in the table: Insert, and Add at the end.
LEMMA InsertionKeeps ==
  ASSUME Inv, TypeOK', NEW i \in Item, MayEnter(i), NEW p \in 0 .. Len(m_Items),
         m_Items' \in Seq(Item), Len(m_Items') = Len(m_Items) + 1,
         \A k \in 1 .. Len(m_Items) + 1 :
           m_Items'[k] = IF k < p + 1 THEN m_Items[k]
                         ELSE IF k = p + 1 THEN i ELSE m_Items[k - 1],
         DOMAIN m_ItemsHash' = DOMAIN m_ItemsHash \cup {m_Name[i]},
         m_ItemsHash'[m_Name[i]] = p,
         \A n \in DOMAIN m_ItemsHash :
           m_ItemsHash'[n] = IF m_ItemsHash[n] >= p THEN m_ItemsHash[n] + 1
                             ELSE m_ItemsHash[n],
         m_pCollection' = [m_pCollection EXCEPT ![i] = TRUE],
         m_Name' = m_Name
  PROVE  Inv'
<1> USE InvFacts
<1>1. ItemsFound'
  <2> SUFFICES ASSUME NEW k \in 1 .. Len(m_Items) + 1
               PROVE  /\ m_Name[m_Items'[k]] \in DOMAIN m_ItemsHash'
                      /\ m_ItemsHash'[m_Name[m_Items'[k]]] = k - 1
    BY DEF ItemsFound
  <2>1. CASE k < p + 1
    <3>1. k \in 1 .. Len(m_Items) /\ m_Items'[k] = m_Items[k]
      BY <2>1
    <3>2. /\ m_Name[m_Items[k]] \in DOMAIN m_ItemsHash
          /\ m_ItemsHash[m_Name[m_Items[k]]] = k - 1
      BY <3>1 DEF Inv, ItemsFound
    <3> QED
      BY <2>1, <3>1, <3>2
  <2>2. CASE k = p + 1
    <3>1. m_Items'[k] = i /\ k - 1 = p
      BY <2>2
    <3> QED
      BY <3>1
  <2>3. CASE k > p + 1
    <3>1. k - 1 \in 1 .. Len(m_Items) /\ m_Items'[k] = m_Items[k - 1]
      BY <2>3
    <3>2. /\ m_Name[m_Items[k - 1]] \in DOMAIN m_ItemsHash
          /\ m_ItemsHash[m_Name[m_Items[k - 1]]] = k - 1 - 1
      BY <3>1 DEF Inv, ItemsFound
    <3> QED
      BY <2>3, <3>1, <3>2
  <2> QED
    BY <2>1, <2>2, <2>3
<1>2. KeysUsed'
  <2> SUFFICES ASSUME NEW name \in DOMAIN m_ItemsHash'
               PROVE  /\ m_ItemsHash'[name] \in 0 .. Len(m_Items)
                      /\ m_Name[m_Items'[m_ItemsHash'[name] + 1]] = name
    BY DEF KeysUsed
  <2>1. CASE name = m_Name[i]
    BY <2>1
  <2>2. CASE name \in DOMAIN m_ItemsHash
    <3>1. /\ m_ItemsHash[name] \in 0 .. Len(m_Items) - 1
          /\ m_Name[m_Items[m_ItemsHash[name] + 1]] = name
      BY <2>2 DEF Inv, KeysUsed
    <3> DEFINE h == m_ItemsHash[name]
    <3> HIDE DEF h
    <3>2. CASE h >= p
      <4>1. m_ItemsHash'[name] = h + 1 /\ h + 2 \in 1 .. Len(m_Items) + 1
        BY <2>2, <3>1, <3>2 DEF h
      <4>2. m_Items'[h + 2] = m_Items[h + 1]
        BY <3>1, <3>2, <4>1 DEF h
      <4> QED
        BY <3>1, <4>1, <4>2, SMTT(60) DEF h
    <3>3. CASE h < p
      <4>1. m_ItemsHash'[name] = h /\ h + 1 \in 1 .. Len(m_Items) + 1
        BY <2>2, <3>1, <3>3 DEF h
      <4>2. m_Items'[h + 1] = m_Items[h + 1]
        BY <3>1, <3>3, <4>1 DEF h
      <4> QED
        BY <3>1, <4>1, <4>2 DEF h
    <3> QED
      BY <3>1, <3>2, <3>3 DEF h
  <2> QED
    BY <2>1, <2>2
<1>3. MembersFound'
  <2> SUFFICES ASSUME NEW j \in Item
               PROVE  m_pCollection'[j] <=>
                        /\ m_Name[j] \in DOMAIN m_ItemsHash'
                        /\ m_Items'[m_ItemsHash'[m_Name[j]] + 1] = j
    BY DEF MembersFound
  <2>1. CASE j = i
    BY <2>1
  <2>2. CASE j # i /\ m_Name[j] = m_Name[i]
    <3>1. ~m_pCollection[j]
      BY <2>2 DEF Inv, MembersFound, MayEnter, Found
    <3>2. m_Items'[m_ItemsHash'[m_Name[j]] + 1] = i
      BY <2>2
    <3> QED
      BY <2>2, <3>1, <3>2
  <2>3. CASE j # i /\ m_Name[j] # m_Name[i]
    <3>1. m_pCollection'[j] <=> m_pCollection[j]
      BY <2>3
    <3>2. ASSUME m_Name[j] \in DOMAIN m_ItemsHash
          PROVE  m_Items'[m_ItemsHash'[m_Name[j]] + 1]
                   = m_Items[m_ItemsHash[m_Name[j]] + 1]
      <4> DEFINE h == m_ItemsHash[m_Name[j]]
      <4>1. h \in 0 .. Len(m_Items) - 1
        BY <3>2 DEF Inv, KeysUsed
      <4>2. m_ItemsHash'[m_Name[j]] = IF h >= p THEN h + 1 ELSE h
        BY <3>2
      <4> HIDE DEF h
      <4>3. CASE h >= p
        <5>1. h + 2 \in 1 .. Len(m_Items) + 1 /\ m_Items'[h + 2] = m_Items[h + 1]
          BY <4>1, <4>3
        <5> QED
          BY <4>1, <4>2, <4>3, <5>1 DEF h
      <4>4. CASE h < p
        <5>1. h + 1 \in 1 .. Len(m_Items) + 1 /\ m_Items'[h + 1] = m_Items[h + 1]
          BY <4>1, <4>4
        <5> QED
          BY <4>1, <4>2, <4>4, <5>1 DEF h
      <4> QED
        BY <4>1, <4>3, <4>4
    <3> QED
      BY <2>3, <3>1, <3>2 DEF Inv, MembersFound
  <2> QED
    BY <2>1, <2>2, <2>3
<1> QED
  BY <1>1, <1>2, <1>3 DEF Inv

\* What RemoveItem does to the array
LEMMA RemoveArray ==
  ASSUME TypeOK, NEW p \in Index, RemoveItem(p)
  PROVE  /\ m_Items' \in Seq(Item) /\ Len(m_Items') = Len(m_Items) - 1
         /\ \A k \in 1 .. Len(m_Items) - 1 :
              m_Items'[k] = IF k < p + 1 THEN m_Items[k] ELSE m_Items[k + 1]
<1>1. p + 1 \in 1 .. Len(m_Items) /\ m_Items \in Seq(Item)
  BY TypeFacts DEF Index
<1> QED
  BY <1>1, RemoveAtElements DEF RemoveItem

\* An item that leaves the array at index p, while the entries behind it are
\* shifted back.
LEMMA RemovalKeeps ==
  ASSUME Inv, TypeOK', NEW p \in Index, RemoveItem(p)
  PROVE  Inv'
<1> DEFINE n == Len(m_Items)
           i == m_Items[p + 1]
           nm == m_Name[i]
<1>0. /\ n \in Nat /\ p \in 0 .. n - 1 /\ p + 1 \in 1 .. n /\ i \in Item /\ nm \in Name
      /\ nm \in DOMAIN m_ItemsHash /\ m_ItemsHash[nm] = p
  <2>1. n \in Nat /\ p \in 0 .. n - 1 /\ p + 1 \in 1 .. n
    BY InvFacts DEF Index
  <2>2. nm \in DOMAIN m_ItemsHash /\ m_ItemsHash[nm] = p + 1 - 1
    BY <2>1 DEF Inv, ItemsFound
  <2> QED
    BY <2>1, <2>2, InvFacts
<1>1. /\ m_Items' \in Seq(Item) /\ Len(m_Items') = n - 1
      /\ \A k \in 1 .. n - 1 :
           m_Items'[k] = IF k < p + 1 THEN m_Items[k] ELSE m_Items[k + 1]
  BY RemoveArray DEF Inv
<1>2. /\ DOMAIN m_ItemsHash' = DOMAIN m_ItemsHash \ {nm}
      /\ \A m \in DOMAIN m_ItemsHash \ {nm} :
           m_ItemsHash'[m] = IF m_ItemsHash[m] >= p THEN m_ItemsHash[m] + (-1)
                             ELSE m_ItemsHash[m]
  <2>1. m_ItemsHash' = HashRemove(m_ItemsHash, nm)
    BY DEF RemoveItem
  <2> HIDE DEF nm
  <2> QED
    BY <1>0, <2>1, HashRemoveEntries
<1>3. m_pCollection' = [m_pCollection EXCEPT ![i] = FALSE] /\ m_Name' = m_Name
  BY DEF RemoveItem
<1>f. /\ \A k \in 1 .. n : m_Items[k] \in Item
      /\ m_Name \in [Item -> Name] /\ m_pCollection \in [Item -> BOOLEAN]
      /\ DOMAIN m_ItemsHash \subseteq Name
  BY InvFacts
<1>4. \A k \in 1 .. n : /\ m_Name[m_Items[k]] \in DOMAIN m_ItemsHash
                        /\ m_ItemsHash[m_Name[m_Items[k]]] = k - 1
  BY DEF Inv, ItemsFound
<1>5. \A m \in DOMAIN m_ItemsHash : /\ m_ItemsHash[m] \in 0 .. n - 1
                                    /\ m_Name[m_Items[m_ItemsHash[m] + 1]] = m
  BY DEF Inv, KeysUsed
<1>6. \A j \in Item :
        m_pCollection[j] <=> /\ m_Name[j] \in DOMAIN m_ItemsHash
                             /\ m_Items[m_ItemsHash[m_Name[j]] + 1] = j
  BY DEF Inv, MembersFound
<1>i. nm = m_Name[i] /\ i = m_Items[p + 1]
  OBVIOUS
<1> HIDE DEF n, i, nm
\* An entry behind the removed one moves by one, and with it the item.
<1>7. ASSUME NEW m \in DOMAIN m_ItemsHash, m # nm
      PROVE  /\ m_ItemsHash'[m] \in 0 .. n - 2
             /\ m_Items'[m_ItemsHash'[m] + 1] = m_Items[m_ItemsHash[m] + 1]
  <2> DEFINE h == m_ItemsHash[m]
  <2>1. h \in 0 .. n - 1 /\ h # p
    <3>1. h \in 0 .. n - 1 /\ m_Name[m_Items[h + 1]] = m
      BY <1>5
    <3> QED
      BY <1>7, <1>i, <3>1
  <2>2. m_ItemsHash'[m] = IF h >= p THEN h + (-1) ELSE h
    BY <1>2, <1>7
  <2> HIDE DEF h
  <2>3. CASE h > p
    <3>1. m_ItemsHash'[m] = h - 1 /\ h \in 1 .. n - 1
      BY <1>0, <2>1, <2>2, <2>3
    <3>2. m_Items'[h] = m_Items[h + 1]
      BY <1>0, <1>1, <2>3, <3>1
    <3>3. h - 1 + 1 = h /\ h - 1 \in 0 .. n - 2
      BY <1>0, <3>1
    <3> QED
      BY <3>1, <3>2, <3>3 DEF h
  <2>4. CASE h < p
    <3>1. m_ItemsHash'[m] = h /\ h + 1 \in 1 .. n - 1 /\ h \in 0 .. n - 2
      BY <1>0, <2>1, <2>2, <2>4
    <3>2. m_Items'[h + 1] = m_Items[h + 1]
      BY <1>0, <1>1, <2>4, <3>1
    <3> QED
      BY <3>1, <3>2 DEF h
  <2> QED
    BY <1>0, <2>1, <2>3, <2>4
<1>8. ItemsFound'
  <2> SUFFICES ASSUME NEW k \in 1 .. n - 1
               PROVE  /\ m_Name[m_Items'[k]] \in DOMAIN m_ItemsHash'
                      /\ m_ItemsHash'[m_Name[m_Items'[k]]] = k - 1
    BY <1>1, <1>3 DEF ItemsFound
  <2>1. CASE k < p + 1
    <3>1. k \in 1 .. n /\ m_Items'[k] = m_Items[k] /\ k - 1 < p
      BY <1>0, <1>1, <2>1
    <3>2. /\ m_Name[m_Items[k]] \in DOMAIN m_ItemsHash
          /\ m_ItemsHash[m_Name[m_Items[k]]] = k - 1
      BY <1>4, <3>1
    <3>3. m_Name[m_Items[k]] # nm
      BY <1>0, <3>1, <3>2
    <3> QED
      BY <1>0, <1>2, <3>1, <3>2, <3>3
  <2>2. CASE k >= p + 1
    <3>1. k + 1 \in 1 .. n /\ m_Items'[k] = m_Items[k + 1] /\ k > p
      BY <1>0, <1>1, <2>2
    <3>2. /\ m_Name[m_Items[k + 1]] \in DOMAIN m_ItemsHash
          /\ m_ItemsHash[m_Name[m_Items[k + 1]]] = k
      BY <1>4, <3>1
    <3>3. m_Name[m_Items[k + 1]] # nm
      BY <1>0, <3>1, <3>2
    <3> QED
      BY <1>0, <1>2, <3>1, <3>2, <3>3
  <2>3. k < p + 1 \/ k >= p + 1
    BY <1>0
  <2> QED
    BY <2>1, <2>2, <2>3
<1>9. KeysUsed'
  <2> SUFFICES ASSUME NEW m \in DOMAIN m_ItemsHash'
               PROVE  /\ m_ItemsHash'[m] \in 0 .. n - 1 - 1
                      /\ m_Name[m_Items'[m_ItemsHash'[m] + 1]] = m
    BY <1>1, <1>3 DEF KeysUsed
  <2>1. m \in DOMAIN m_ItemsHash /\ m # nm
    BY <1>2
  <2>2. /\ m_ItemsHash'[m] \in 0 .. n - 2
        /\ m_Items'[m_ItemsHash'[m] + 1] = m_Items[m_ItemsHash[m] + 1]
    BY <1>7, <2>1
  <2>3. n - 1 - 1 = n - 2
    BY <1>0
  <2> QED
    BY <1>5, <2>1, <2>2, <2>3
<1>10. MembersFound'
  <2> SUFFICES ASSUME NEW j \in Item
               PROVE  m_pCollection'[j] <=>
                        /\ m_Name[j] \in DOMAIN m_ItemsHash'
                        /\ m_Items'[m_ItemsHash'[m_Name[j]] + 1] = j
    BY <1>3 DEF MembersFound
  <2>1. CASE j = i
    BY <1>0, <1>2, <1>3, <1>f, <1>i, <2>1
  <2>2. CASE j # i
    <3>1. m_pCollection'[j] <=> m_pCollection[j]
      BY <1>3, <1>f, <2>2
    <3>2. CASE m_Name[j] = nm
      BY <1>0, <1>2, <1>6, <1>i, <2>2, <3>1, <3>2
    <3>3. CASE m_Name[j] # nm
      BY <1>2, <1>6, <1>7, <3>1, <3>3
    <3> QED
      BY <3>2, <3>3
  <2> QED
    BY <2>1, <2>2
<1> QED
  BY <1>8, <1>9, <1>10 DEF Inv

\* Clear empties the array and the table, and every item in the array is told.
LEMMA ClearKeeps ==
  ASSUME Base, TypeOK', Clear
  PROVE  Inv'
<1>1. /\ m_Items' = <<>> /\ m_ItemsHash' = <<>> /\ m_Name' = m_Name
      /\ m_pCollection' = [i \in Item |-> m_pCollection[i] /\ i \notin Range(m_Items)]
  BY DEF Clear
<1>2. Len(m_Items') = 0 /\ DOMAIN m_ItemsHash' = {}
  BY <1>1, EmptySeq
<1>3. \A i \in Item : ~m_pCollection'[i]
  BY <1>1 DEF Base, Held
<1>4. ItemsFound' /\ KeysUsed'
  BY <1>2 DEF ItemsFound, KeysUsed
<1>5. MembersFound'
  BY <1>2, <1>3 DEF MembersFound
<1> QED
  BY <1>4, <1>5 DEF Inv

\* A new name changes one entry of the table, which keeps its index.
LEMMA RenameKeeps ==
  ASSUME Inv, TypeOK', NEW i \in Item, NEW szName \in Name,
         NEW moved \in BOOLEAN, SetName(i, szName, moved),
         szName \in DOMAIN m_ItemsHash => szName = m_Name[i]
  PROVE  Inv'
<1> DEFINE old == m_Name[i]
<1>0. /\ m_Items' = m_Items /\ m_pCollection' = m_pCollection
      /\ m_Name' = [m_Name EXCEPT ![i] = szName]
      /\ m_pCollection[i] /\ (szName \in DOMAIN m_ItemsHash => szName = old)
  BY DEF SetName
<1>1. old \in DOMAIN m_ItemsHash /\ m_Items[m_ItemsHash[old] + 1] = i
  BY <1>0 DEF Inv, MembersFound
<1>2. /\ DOMAIN m_ItemsHash' = (DOMAIN m_ItemsHash \ {old}) \cup {szName}
      /\ m_ItemsHash'[szName] = m_ItemsHash[old]
      /\ \A m \in DOMAIN m_ItemsHash \ {old} : m_ItemsHash'[m] = m_ItemsHash[m]
  <2>1. m_ItemsHash' = SetAt(RemoveKey(m_ItemsHash, old), szName, m_ItemsHash[old])
    BY <1>1 DEF SetName, HashRename, IndexOf, Found
  <2> HIDE DEF old
  <2> QED
    BY <1>0, <2>1 DEF SetAt, RemoveKey, Restrict
<1>3. /\ m_Items \in Seq(Item) /\ Len(m_Items) \in Nat
      /\ \A k \in 1 .. Len(m_Items) : m_Items[k] \in Item
      /\ m_Name \in [Item -> Name] /\ m_pCollection \in [Item -> BOOLEAN]
      /\ DOMAIN m_ItemsHash \subseteq Name
  BY InvFacts
<1>4. m_Name' \in [Item -> Name] /\ m_Name'[i] = szName
      /\ \A j \in Item : j # i => m_Name'[j] = m_Name[j]
  BY <1>0, <1>3
<1>5. \A m \in DOMAIN m_ItemsHash : /\ m_ItemsHash[m] \in 0 .. Len(m_Items) - 1
                                    /\ m_Name[m_Items[m_ItemsHash[m] + 1]] = m
  BY DEF Inv, KeysUsed
<1>6. \A j \in Item :
        m_pCollection[j] <=> /\ m_Name[j] \in DOMAIN m_ItemsHash
                             /\ m_Items[m_ItemsHash[m_Name[j]] + 1] = j
  BY DEF Inv, MembersFound
<1>7. old = m_Name[i]
  OBVIOUS
<1> HIDE DEF old
\* The other entries belong to other items.
<1>8. ASSUME NEW m \in DOMAIN m_ItemsHash, m # old
      PROVE  m_Items[m_ItemsHash[m] + 1] # i
  BY <1>5, <1>7, <1>8
<1>9. ItemsFound'
  <2> SUFFICES ASSUME NEW k \in 1 .. Len(m_Items)
               PROVE  /\ m_Name'[m_Items[k]] \in DOMAIN m_ItemsHash'
                      /\ m_ItemsHash'[m_Name'[m_Items[k]]] = k - 1
    BY <1>0 DEF ItemsFound
  <2>1. /\ m_Name[m_Items[k]] \in DOMAIN m_ItemsHash
        /\ m_ItemsHash[m_Name[m_Items[k]]] = k - 1
    BY DEF Inv, ItemsFound
  <2>2. CASE m_Items[k] = i
    BY <1>2, <1>4, <1>7, <2>1, <2>2
  <2>3. CASE m_Items[k] # i
    <3>1. m_Name[m_Items[k]] # old
      <4>1. k - 1 + 1 = k
        BY <1>3
      <4> QED
        BY <1>1, <2>1, <2>3, <4>1
    <3> QED
      BY <1>2, <1>3, <1>4, <2>1, <2>3, <3>1
  <2> QED
    BY <2>2, <2>3
<1>10. KeysUsed'
  <2> SUFFICES ASSUME NEW m \in DOMAIN m_ItemsHash'
               PROVE  /\ m_ItemsHash'[m] \in 0 .. Len(m_Items) - 1
                      /\ m_Name'[m_Items[m_ItemsHash'[m] + 1]] = m
    BY <1>0 DEF KeysUsed
  <2>1. CASE m = szName
    BY <1>1, <1>2, <1>4, <1>5, <2>1
  <2>2. CASE m # szName
    <3>1. m \in DOMAIN m_ItemsHash /\ m # old /\ m_ItemsHash'[m] = m_ItemsHash[m]
      BY <1>2, <2>2
    <3>2. /\ m_ItemsHash[m] \in 0 .. Len(m_Items) - 1
          /\ m_Name[m_Items[m_ItemsHash[m] + 1]] = m
      BY <1>5, <3>1
    <3>3. m_Items[m_ItemsHash[m] + 1] \in Item
      BY <1>3, <3>2
    <3> QED
      BY <1>4, <1>8, <3>1, <3>2, <3>3
  <2> QED
    BY <2>1, <2>2
<1>11. MembersFound'
  <2> SUFFICES ASSUME NEW j \in Item
               PROVE  m_pCollection[j] <=>
                        /\ m_Name'[j] \in DOMAIN m_ItemsHash'
                        /\ m_Items[m_ItemsHash'[m_Name'[j]] + 1] = j
    BY <1>0 DEF MembersFound
  <2>1. CASE j = i
    BY <1>0, <1>1, <1>2, <1>4, <2>1
  <2>2. CASE j # i /\ m_Name[j] = old
    <3>1. ~m_pCollection[j]
      BY <1>1, <1>6, <2>2
    <3>2. CASE szName = old
      BY <1>1, <1>2, <1>4, <2>2, <3>1, <3>2
    <3>3. CASE szName # old
      BY <1>2, <1>4, <2>2, <3>1, <3>3
    <3> QED
      BY <3>2, <3>3
  <2>3. CASE j # i /\ m_Name[j] # old /\ m_Name[j] = szName
    <3>1. ~m_pCollection[j]
      BY <1>0, <1>6, <2>3
    <3> QED
      BY <1>1, <1>2, <1>4, <2>3, <3>1
  <2>4. CASE j # i /\ m_Name[j] # old /\ m_Name[j] # szName
    BY <1>2, <1>4, <1>6, <2>4
  <2> QED
    BY <2>1, <2>2, <2>3, <2>4
<1> QED
  BY <1>9, <1>10, <1>11 DEF Inv

\* The name of an item outside the collection is its own affair.
LEMMA RenameOutsideKeeps ==
  ASSUME Inv, TypeOK', NEW i \in Item, NEW szName \in Name,
         NEW moved \in BOOLEAN, SetNameOutside(i, szName, moved)
  PROVE  Inv'
<1>0. /\ m_Items' = m_Items /\ m_pCollection' = m_pCollection
      /\ m_ItemsHash' = m_ItemsHash
      /\ m_Name' = [m_Name EXCEPT ![i] = szName] /\ ~m_pCollection[i]
  BY DEF SetNameOutside
<1>1. /\ m_Items \in Seq(Item) /\ Len(m_Items) \in Nat
      /\ \A k \in 1 .. Len(m_Items) : m_Items[k] \in Item
      /\ m_Name \in [Item -> Name] /\ m_pCollection \in [Item -> BOOLEAN]
      /\ DOMAIN m_ItemsHash \subseteq Name
  BY InvFacts
<1>2. m_Name' \in [Item -> Name] /\ m_Name'[i] = szName
      /\ \A j \in Item : j # i => m_Name'[j] = m_Name[j]
  BY <1>0, <1>1
<1>3. \A k \in 1 .. Len(m_Items) : /\ m_Name[m_Items[k]] \in DOMAIN m_ItemsHash
                                   /\ m_ItemsHash[m_Name[m_Items[k]]] = k - 1
  BY DEF Inv, ItemsFound
<1>4. \A m \in DOMAIN m_ItemsHash : /\ m_ItemsHash[m] \in 0 .. Len(m_Items) - 1
                                    /\ m_Name[m_Items[m_ItemsHash[m] + 1]] = m
  BY DEF Inv, KeysUsed
<1>5. \A j \in Item :
        m_pCollection[j] <=> /\ m_Name[j] \in DOMAIN m_ItemsHash
                             /\ m_Items[m_ItemsHash[m_Name[j]] + 1] = j
  BY DEF Inv, MembersFound
<1>6. ASSUME NEW k \in 1 .. Len(m_Items) PROVE m_Items[k] # i
  <2>1. k - 1 + 1 = k
    BY <1>1
  <2> QED
    BY <1>0, <1>3, <1>5, <2>1
<1>7. ItemsFound' /\ KeysUsed'
  <2>1. ItemsFound'
    BY <1>0, <1>1, <1>2, <1>3, <1>6 DEF ItemsFound
  <2>2. ASSUME NEW m \in DOMAIN m_ItemsHash
        PROVE  m_ItemsHash[m] + 1 \in 1 .. Len(m_Items)
    BY <1>1, <1>4
  <2> QED
    BY <1>0, <1>1, <1>2, <1>4, <1>6, <2>1, <2>2 DEF KeysUsed
<1>8. MembersFound'
  <2> SUFFICES ASSUME NEW j \in Item
               PROVE  m_pCollection[j] <=>
                        /\ m_Name'[j] \in DOMAIN m_ItemsHash
                        /\ m_Items[m_ItemsHash[m_Name'[j]] + 1] = j
    BY <1>0 DEF MembersFound
  <2>1. ASSUME m_Name'[j] \in DOMAIN m_ItemsHash
        PROVE  m_Items[m_ItemsHash[m_Name'[j]] + 1] # i
    <3>1. m_ItemsHash[m_Name'[j]] + 1 \in 1 .. Len(m_Items)
      BY <1>1, <1>4, <2>1
    <3> QED
      BY <1>6, <3>1
  <2>2. CASE j = i
    BY <1>0, <2>1, <2>2
  <2>3. CASE j # i
    BY <1>2, <1>5, <2>3
  <2> QED
    BY <2>2, <2>3
<1> QED
  BY <1>7, <1>8 DEF Inv

\* What Move does to the array
LEMMA MoveArray ==
  ASSUME TypeOK, NEW from \in 0 .. Len(m_Items) - 1,
         NEW to \in 0 .. Len(m_Items) - 1, Move(from, to - from)
  PROVE  /\ m_Items' \in Seq(Item) /\ Len(m_Items') = Len(m_Items)
         /\ \A k \in 0 .. Len(m_Items) - 1 :
              m_Items'[k + 1] = m_Items[OldIndex(k, from, to) + 1]
<1>1. m_Items \in Seq(Item) /\ from + (to - from) = to
  BY TypeFacts
<1>2. m_Items' = Moved(m_Items, from, to)
  BY <1>1 DEF Move, Moved
<1> QED
  BY <1>1, <1>2, MoveElements

\* Move permutes the items and the indexes of the table in the same way.
LEMMA MoveKeeps ==
  ASSUME Inv, TypeOK', NEW from \in 0 .. Len(m_Items) - 1,
         NEW to \in 0 .. Len(m_Items) - 1, Move(from, to - from)
  PROVE  Inv'
<1> DEFINE n == Len(m_Items)
<1>0. /\ n \in Nat /\ from \in 0 .. n - 1 /\ to \in 0 .. n - 1
      /\ from + (to - from) = to
  BY InvFacts DEF Index
<1>1. /\ m_Items' \in Seq(Item) /\ Len(m_Items') = n
      /\ \A k \in 0 .. n - 1 : m_Items'[k + 1] = m_Items[OldIndex(k, from, to) + 1]
  BY MoveArray DEF Inv
<1>2. /\ DOMAIN m_ItemsHash' = DOMAIN m_ItemsHash
      /\ \A m \in DOMAIN m_ItemsHash :
           m_ItemsHash'[m] = NewIndex(m_ItemsHash[m], from, to)
  <2>1. m_ItemsHash' = HashMove(m_ItemsHash, from, to - from)
    BY DEF Move
  <2>2. from \in Int /\ to \in Int
    BY <1>0
  <2> QED
    BY <2>1, <2>2, HashMoveEntries
<1>3. m_pCollection' = m_pCollection /\ m_Name' = m_Name
  BY DEF Move
<1>4. \A m \in DOMAIN m_ItemsHash : /\ m_ItemsHash[m] \in 0 .. n - 1
                                    /\ m_Name[m_Items[m_ItemsHash[m] + 1]] = m
  BY DEF Inv, KeysUsed
<1>5. \A j \in Item :
        m_pCollection[j] <=> /\ m_Name[j] \in DOMAIN m_ItemsHash
                             /\ m_Items[m_ItemsHash[m_Name[j]] + 1] = j
  BY DEF Inv, MembersFound
<1>6. \A k \in 1 .. n : /\ m_Name[m_Items[k]] \in DOMAIN m_ItemsHash
                        /\ m_ItemsHash[m_Name[m_Items[k]]] = k - 1
  BY DEF Inv, ItemsFound
<1> HIDE DEF n
\* The entry goes where the item goes.
<1>7. ASSUME NEW m \in DOMAIN m_ItemsHash
      PROVE  /\ m_ItemsHash'[m] \in 0 .. n - 1
             /\ m_Items'[m_ItemsHash'[m] + 1] = m_Items[m_ItemsHash[m] + 1]
  <2> DEFINE h == m_ItemsHash[m]
             q == NewIndex(h, from, to)
  <2>1. h \in 0 .. n - 1
    BY <1>4
  <2>2. m_ItemsHash'[m] = q
    BY <1>2
  <2>3. q \in 0 .. n - 1 /\ OldIndex(q, from, to) = h
    BY <1>0, <2>1, MovePermutes
  <2> HIDE DEF h, q
  <2>4. m_Items'[q + 1] = m_Items[h + 1]
    BY <1>1, <2>3
  <2> QED
    BY <2>2, <2>3, <2>4 DEF h
<1>8. ItemsFound'
  <2> SUFFICES ASSUME NEW k \in 1 .. n
               PROVE  /\ m_Name[m_Items'[k]] \in DOMAIN m_ItemsHash'
                      /\ m_ItemsHash'[m_Name[m_Items'[k]]] = k - 1
    BY <1>1, <1>3 DEF ItemsFound
  <2> DEFINE q == OldIndex(k - 1, from, to)
  <2>1. k - 1 \in 0 .. n - 1 /\ k - 1 + 1 = k
    BY <1>0
  <2>2. q \in 0 .. n - 1 /\ NewIndex(q, from, to) = k - 1
    BY <1>0, <2>1, MovePermutes
  <2>3. m_Items'[k] = m_Items[q + 1]
    BY <1>1, <2>1
  <2> HIDE DEF q
  <2> DEFINE r == q + 1
  <2>4. r \in 1 .. n /\ r - 1 = q /\ m_Items'[k] = m_Items[r]
    BY <1>0, <2>2, <2>3, SMTT(60)
  <2> HIDE DEF r
  <2>5. /\ m_Name[m_Items[r]] \in DOMAIN m_ItemsHash
        /\ m_ItemsHash[m_Name[m_Items[r]]] = r - 1
    BY <1>6, <2>4
  <2> QED
    BY <1>2, <2>2, <2>4, <2>5
<1>9. KeysUsed'
  BY <1>1, <1>2, <1>3, <1>4, <1>7 DEF KeysUsed
<1>10. MembersFound'
  BY <1>2, <1>3, <1>5, <1>7 DEF MembersFound
<1> QED
  BY <1>8, <1>9, <1>10 DEF Inv

\* What Add does to the array: an insertion at the end
LEMMA AddArray ==
  ASSUME TypeOK, NEW i \in Item, Add(i)
  PROVE  /\ m_Items' \in Seq(Item) /\ Len(m_Items') = Len(m_Items) + 1
         /\ \A k \in 1 .. Len(m_Items) + 1 :
              m_Items'[k] = IF k < Len(m_Items) + 1 THEN m_Items[k]
                            ELSE IF k = Len(m_Items) + 1 THEN i ELSE m_Items[k - 1]
<1> DEFINE n == Len(m_Items)
<1>1. n \in Nat /\ m_Items \in Seq(Item) /\ m_Items' = Append(m_Items, i)
  BY TypeFacts DEF Add
<1>2. /\ m_Items' \in Seq(Item) /\ Len(m_Items') = n + 1
      /\ \A k \in 1 .. n : m_Items'[k] = m_Items[k]
      /\ m_Items'[n + 1] = i
  BY <1>1, AppendProperties
<1> HIDE DEF n
<1>3. ASSUME NEW k \in 1 .. n + 1
      PROVE  m_Items'[k] = IF k < n + 1 THEN m_Items[k]
                           ELSE IF k = n + 1 THEN i ELSE m_Items[k - 1]
  <2>1. CASE k < n + 1
    BY <1>1, <1>2, <2>1
  <2>2. CASE k = n + 1
    BY <1>1, <1>2, <2>2
  <2>3. k < n + 1 \/ k = n + 1
    <3>1. n \in Nat
      BY <1>1
    <3> QED
      BY <3>1
  <2> QED
    BY <2>1, <2>2, <2>3
<1> QED
  BY <1>2, <1>3 DEF n

\* Add is an insertion at the end: the table counts its keys to find the index
\* of the new one, and it has as many keys as the array has items.
LEMMA AddKeeps ==
  ASSUME Inv, TypeOK', NEW i \in Item, Add(i)
  PROVE  Inv'
<1> DEFINE n == Len(m_Items)
           nm == m_Name[i]
<1>0. /\ MayEnter(i) /\ m_Name' = m_Name
      /\ m_pCollection' = [m_pCollection EXCEPT ![i] = TRUE]
      /\ m_Items' = Append(m_Items, i)
      /\ m_ItemsHash' = HashAdd(m_ItemsHash, nm)
  BY DEF Add
<1>1. n \in Nat /\ m_Items \in Seq(Item) /\ nm \notin DOMAIN m_ItemsHash
  BY <1>0, InvFacts DEF MayEnter, Found
<1>3. /\ DOMAIN m_ItemsHash' = DOMAIN m_ItemsHash \cup {nm}
      /\ m_ItemsHash'[nm] = n
      /\ \A m \in DOMAIN m_ItemsHash : m_ItemsHash'[m] = m_ItemsHash[m]
  <2>1. m_ItemsHash' = SetAt(m_ItemsHash, nm, n)
    BY <1>0, CountIsLength DEF HashAdd, Count
  <2> HIDE DEF nm, n
  <2> QED
    BY <1>1, <2>1 DEF SetAt
<1>4. \A m \in DOMAIN m_ItemsHash :
        m_ItemsHash'[m] = IF m_ItemsHash[m] >= n THEN m_ItemsHash[m] + 1
                          ELSE m_ItemsHash[m]
  <2>1. \A m \in DOMAIN m_ItemsHash : m_ItemsHash[m] \in 0 .. n - 1
    BY DEF Inv, KeysUsed
  <2>2. \A m \in DOMAIN m_ItemsHash : ~(m_ItemsHash[m] >= n)
    BY <1>1, <2>1
  <2> QED
    BY <1>3, <2>2
<1>6. n \in 0 .. n
  BY <1>1
<1> QED
  BY <1>0, <1>3, <1>4, <1>6, AddArray, InsertionKeeps DEF Inv

\* What Insert does to the array
LEMMA InsertArray ==
  ASSUME TypeOK, NEW i \in Item, NEW p \in 0 .. Len(m_Items), Insert(p, i)
  PROVE  /\ m_Items' \in Seq(Item) /\ Len(m_Items') = Len(m_Items) + 1
         /\ \A k \in 1 .. Len(m_Items) + 1 :
              m_Items'[k] = IF k < p + 1 THEN m_Items[k]
                            ELSE IF k = p + 1 THEN i ELSE m_Items[k - 1]
<1> DEFINE s == m_Items
           q == p + 1
<1>1. s \in Seq(Item) /\ q \in 1 .. Len(s) + 1 /\ i \in Item
  BY TypeFacts
<1>2. m_Items' = InsertAt(s, q, i)
  BY DEF Insert
<1> HIDE DEF s, q
<1>3. /\ InsertAt(s, q, i) \in Seq(Item)
      /\ Len(InsertAt(s, q, i)) = Len(s) + 1
      /\ \A k \in 1 .. Len(s) + 1 :
           InsertAt(s, q, i)[k] = IF k < q THEN s[k]
                                  ELSE IF k = q THEN i ELSE s[k - 1]
  <2>1. InsertedAt(Item, s, q, i)
    BY ONLY <1>1, InsertAtIs
  <2> QED
    BY <2>1 DEF InsertedAt
<1> QED
  BY <1>2, <1>3, Zenon DEF s, q

\* Insert at an index up to the number of items
LEMMA InsertKeeps ==
  ASSUME Inv, TypeOK', NEW i \in Item, NEW p \in 0 .. Len(m_Items), Insert(p, i)
  PROVE  Inv'
<1> DEFINE nm == m_Name[i]
<1>0. /\ MayEnter(i) /\ m_Name' = m_Name
      /\ m_pCollection' = [m_pCollection EXCEPT ![i] = TRUE]
      /\ m_Items' = InsertAt(m_Items, p + 1, i)
      /\ m_ItemsHash' = HashInsert(m_ItemsHash, p, nm)
  BY DEF Insert
<1>1. /\ m_Items \in Seq(Item) /\ p + 1 \in 1 .. Len(m_Items) + 1
      /\ nm \notin DOMAIN m_ItemsHash
  BY <1>0, InvFacts DEF MayEnter, Found
<1>3. /\ DOMAIN m_ItemsHash' = DOMAIN m_ItemsHash \cup {nm}
      /\ m_ItemsHash'[nm] = p
      /\ \A m \in DOMAIN m_ItemsHash :
           m_ItemsHash'[m] = IF m_ItemsHash[m] >= p THEN m_ItemsHash[m] + 1
                             ELSE m_ItemsHash[m]
  <2> HIDE DEF nm
  <2>1. m_ItemsHash' = HashInsert(m_ItemsHash, p, nm)
    BY <1>0
  <2>2. /\ DOMAIN HashInsert(m_ItemsHash, p, nm) = DOMAIN m_ItemsHash \cup {nm}
        /\ HashInsert(m_ItemsHash, p, nm)[nm] = p
        /\ \A m \in DOMAIN m_ItemsHash :
             HashInsert(m_ItemsHash, p, nm)[m] =
               IF m_ItemsHash[m] >= p THEN m_ItemsHash[m] + 1 ELSE m_ItemsHash[m]
    BY <1>1 DEF HashInsert, SetAt, ShiftIndexes
  <2> QED
    BY <2>1, <2>2
<1> QED
  BY <1>0, <1>3, InsertArray, InsertionKeeps DEF Inv

-----------------------------------------------------------------------------
(* What no operation can break, whatever the names are *)

\* The table never has more keys than the array has items.
LEMMA CountAtMostLength ==
  ASSUME Base
  PROVE  Count \in Nat /\ Count <= Len(m_Items)
<1> DEFINE n == Len(m_Items)
           R == {m_Name[m_Items[k]] : k \in 1 .. n}
           f == [k \in 1 .. n |-> m_Name[m_Items[k]]]
<1>0. n \in Nat /\ DOMAIN m_Items = 1 .. n
  BY TypeFacts DEF Base
<1>1. f \in Surjection(1 .. n, R)
  BY DEF Surjection
<1>2. IsFiniteSet(1 .. n) /\ Cardinality(1 .. n) = n
  <2>1. 1 \in Int /\ n \in Int
    BY <1>0
  <2>2. Cardinality(1 .. n) = IF 1 > n THEN 0 ELSE n - 1 + 1
    BY <2>1, FS_Interval
  <2> QED
    BY <1>0, <2>1, <2>2, FS_Interval, SMTT(60)
<1>3. ASSUME NEW name \in DOMAIN m_ItemsHash PROVE name \in R
  <2>1. PICK i \in Item : m_pCollection[i] /\ m_Name[i] = name
    BY DEF Base, KeysHeld
  <2>2. i \in Range(m_Items)
    BY <2>1 DEF Base, Held
  <2>3. PICK k \in 1 .. n : m_Items[k] = i
    BY <1>0, <2>2 DEF Range
  <2> QED
    BY <2>1, <2>3
<1> HIDE DEF n, R, f
<1>4. IsFiniteSet(R) /\ Cardinality(R) <= n /\ Cardinality(R) \in Nat
  <2>1. IsFiniteSet(R) /\ Cardinality(R) <= Cardinality(1 .. n)
    BY <1>1, <1>2, FS_Surjection
  <2> QED
    BY <1>2, <2>1, FS_CardinalityType
<1>5. DOMAIN m_ItemsHash \in SUBSET R
  BY <1>3
<1>6. /\ IsFiniteSet(DOMAIN m_ItemsHash)
      /\ Cardinality(DOMAIN m_ItemsHash) <= Cardinality(R)
  BY <1>4, <1>5, FS_Subset
<1>7. Cardinality(DOMAIN m_ItemsHash) \in Nat
  BY <1>6, FS_CardinalityType
<1> QED
  BY <1>0, <1>4, <1>6, <1>7 DEF Count, n

\* An index that the ASSERTs of Move allow is an index of the array.
LEMMA MoveIsInside ==
  ASSUME Base, NEW from \in Index, NEW to \in 0 .. Len(m_Items),
         Move(from, to - from)
  PROVE  from \in 0 .. Len(m_Items) - 1 /\ to \in 0 .. Len(m_Items) - 1
<1>1. Count \in Nat /\ Count <= Len(m_Items) /\ Len(m_Items) \in Nat
  BY CountAtMostLength, TypeFacts DEF Base
<1>2. from + (to - from) < Count /\ from + (to - from) = to
  BY DEF Move, Index
<1> QED
  BY <1>1, <1>2 DEF Index

\* An item that enters the array points back to the collection and brings its
\* name: Add and Insert.
LEMMA EntryBase ==
  ASSUME Base, NEW i \in Item, MayEnter(i), NEW p \in 0 .. Len(m_Items),
         m_Items' \in Seq(Item), Len(m_Items') = Len(m_Items) + 1,
         \A k \in 1 .. Len(m_Items) + 1 :
           m_Items'[k] = IF k < p + 1 THEN m_Items[k]
                         ELSE IF k = p + 1 THEN i ELSE m_Items[k - 1],
         DOMAIN m_ItemsHash' = DOMAIN m_ItemsHash \cup {m_Name[i]},
         \A m \in DOMAIN m_ItemsHash' : m_ItemsHash'[m] \in Int,
         m_pCollection' = [m_pCollection EXCEPT ![i] = TRUE],
         UNCHANGED <<m_Name, lent, condition>>
  PROVE  Base'
<1> DEFINE n == Len(m_Items)
<1>0. /\ n \in Nat /\ DOMAIN m_Items = 1 .. n
      /\ m_pCollection \in [Item -> BOOLEAN] /\ m_Name \in [Item -> Name]
      /\ DOMAIN m_ItemsHash \subseteq Name
  BY TypeFacts DEF Base
<1>1. DOMAIN m_Items' = 1 .. n + 1
  BY SeqElements
<1>2. TypeOK'
  <2>1. n < MaxSize /\ MaxSize \in Nat
    BY MaxSizeIsNatural DEF MayEnter
  <2>2. Len(m_Items') <= MaxSize
    BY <1>0, <2>1
  <2>3. m_Name' \in [Item -> Name] /\ m_pCollection' \in [Item -> BOOLEAN]
    BY <1>0
  <2>4. DOMAIN m_ItemsHash' \subseteq Name
    BY <1>0
  <2>5. lent' \subseteq DOMAIN m_ItemsHash'
    BY DEF Base, TypeOK
  <2>6. condition' \in {"intact", "clashed", "undefined"}
    BY DEF Base, TypeOK
  <2> QED
    BY <2>2, <2>3, <2>4, <2>5, <2>6 DEF TypeOK
<1>3. Held'
  <2> SUFFICES ASSUME NEW j \in Item, m_pCollection'[j]
               PROVE  j \in Range(m_Items')
    BY DEF Held
  <2>1. CASE j = i
    <3>1. p + 1 \in 1 .. n + 1 /\ m_Items'[p + 1] = i
      BY <1>0
    <3> QED
      BY <1>1, <2>1, <3>1 DEF Range
  <2>2. CASE j # i
    <3>1. j \in Range(m_Items)
      BY <1>0, <2>2 DEF Base, Held
    <3>2. PICK k \in 1 .. n : m_Items[k] = j
      BY <1>0, <3>1 DEF Range
    <3>3. CASE k < p + 1
      <4>1. k \in 1 .. n + 1 /\ m_Items'[k] = m_Items[k]
        BY <1>0, <3>3
      <4> QED
        BY <1>1, <3>2, <4>1 DEF Range
    <3>4. CASE ~(k < p + 1)
      <4>1. k + 1 \in 1 .. n + 1 /\ ~(k + 1 < p + 1) /\ k + 1 # p + 1 /\ k + 1 - 1 = k
        BY <1>0, <3>4
      <4>2. m_Items'[k + 1] = m_Items[k]
        BY <4>1
      <4> QED
        BY <1>1, <3>2, <4>1, <4>2 DEF Range
    <3> QED
      BY <3>3, <3>4
  <2> QED
    BY <2>1, <2>2
<1>4. KeysHeld'
  <2> SUFFICES ASSUME NEW name \in DOMAIN m_ItemsHash'
               PROVE  \E j \in Item : m_pCollection'[j] /\ m_Name[j] = name
    BY DEF KeysHeld
  <2>1. CASE name = m_Name[i]
    BY <1>0, <2>1
  <2>2. CASE name \in DOMAIN m_ItemsHash
    <3>1. PICK j \in Item : m_pCollection[j] /\ m_Name[j] = name
      BY <2>2 DEF Base, KeysHeld
    <3>2. m_pCollection'[j]
      BY <1>0, <3>1
    <3> QED
      BY <3>1, <3>2
  <2> QED
    BY <2>1, <2>2
<1> QED
  BY <1>2, <1>3, <1>4 DEF Base

\* Add brings one item and its name.
LEMMA AddBase ==
  ASSUME Base, NEW i \in Item, Add(i)
  PROVE  Base'
<1> DEFINE n == Len(m_Items)
           nm == m_Name[i]
<1>0. /\ MayEnter(i) /\ UNCHANGED <<m_Name, lent, condition>>
      /\ m_pCollection' = [m_pCollection EXCEPT ![i] = TRUE]
      /\ m_ItemsHash' = SetAt(m_ItemsHash, nm, Count)
  BY DEF Add, HashAdd, Count
<1>1. n \in 0 .. n /\ Count \in Int
  BY TypeFacts, CountAtMostLength DEF Base
<1>2. /\ DOMAIN m_ItemsHash' = DOMAIN m_ItemsHash \cup {nm}
      /\ \A m \in DOMAIN m_ItemsHash' : m_ItemsHash'[m] \in Int
  <2>1. \A m \in DOMAIN m_ItemsHash : m_ItemsHash[m] \in Int
    BY TypeFacts DEF Base
  <2> HIDE DEF nm
  <2> QED
    BY <1>0, <1>1, <2>1 DEF SetAt
<1>3. /\ m_Items' \in Seq(Item) /\ Len(m_Items') = n + 1
      /\ \A k \in 1 .. n + 1 :
           m_Items'[k] = IF k < n + 1 THEN m_Items[k]
                         ELSE IF k = n + 1 THEN i ELSE m_Items[k - 1]
  BY AddArray DEF Base
<1> QED
  BY <1>0, <1>1, <1>2, <1>3, EntryBase

\* So does Insert.
LEMMA InsertBase ==
  ASSUME Base, NEW i \in Item, NEW p \in 0 .. Len(m_Items), Insert(p, i)
  PROVE  Base'
<1> DEFINE n == Len(m_Items)
           nm == m_Name[i]
<1>0. /\ MayEnter(i) /\ UNCHANGED <<m_Name, lent, condition>>
      /\ m_pCollection' = [m_pCollection EXCEPT ![i] = TRUE]
      /\ m_ItemsHash' = SetAt(ShiftIndexes(m_ItemsHash, p, 1), nm, p)
  BY DEF Insert, HashInsert
<1>1. p \in Int /\ \A m \in DOMAIN m_ItemsHash : m_ItemsHash[m] \in Int
  BY TypeFacts DEF Base
<1>2. /\ DOMAIN m_ItemsHash' = DOMAIN m_ItemsHash \cup {nm}
      /\ \A m \in DOMAIN m_ItemsHash' : m_ItemsHash'[m] \in Int
  <2> HIDE DEF nm
  <2> QED
    BY <1>0, <1>1 DEF SetAt, ShiftIndexes
<1>3. /\ m_Items' \in Seq(Item) /\ Len(m_Items') = n + 1
      /\ \A k \in 1 .. n + 1 :
           m_Items'[k] = IF k < p + 1 THEN m_Items[k]
                         ELSE IF k = p + 1 THEN i ELSE m_Items[k - 1]
  BY InsertArray DEF Base
<1> QED
  BY <1>0, <1>2, <1>3, EntryBase

\* An item that leaves takes its name with it, and with it the key.
LEMMA RemoveBase ==
  ASSUME Base, NEW p \in Index, RemoveItem(p)
  PROVE  Base'
<1> DEFINE n == Len(m_Items)
           i == m_Items[p + 1]
           nm == m_Name[i]
<1>0. /\ n \in Nat /\ DOMAIN m_Items = 1 .. n
      /\ m_pCollection \in [Item -> BOOLEAN] /\ m_Name \in [Item -> Name]
      /\ DOMAIN m_ItemsHash \subseteq Name
      /\ \A m \in DOMAIN m_ItemsHash : m_ItemsHash[m] \in Int
      /\ lent \subseteq DOMAIN m_ItemsHash
  BY TypeFacts DEF Base, TypeOK
<1>1. /\ nm \in DOMAIN m_ItemsHash /\ m_ItemsHash' = HashRemove(m_ItemsHash, nm)
      /\ lent' = lent \ {nm} /\ m_pCollection' = [m_pCollection EXCEPT ![i] = FALSE]
      /\ UNCHANGED <<m_Name, condition>>
  BY DEF RemoveItem, Found
<1>2. /\ m_Items' \in Seq(Item) /\ Len(m_Items') = n - 1
      /\ \A k \in 1 .. n - 1 :
           m_Items'[k] = IF k < p + 1 THEN m_Items[k] ELSE m_Items[k + 1]
  BY RemoveArray DEF Base
<1>3. p + 1 \in 1 .. n /\ i \in Item /\ i = m_Items[p + 1] /\ nm = m_Name[i]
  <2>1. p + 1 \in 1 .. n
    BY <1>0 DEF Index
  <2> QED
    BY <2>1, TypeFacts DEF Base
<1> HIDE DEF i, nm, n
<1>4. /\ DOMAIN m_ItemsHash' = DOMAIN m_ItemsHash \ {nm}
      /\ \A m \in DOMAIN m_ItemsHash \ {nm} :
           m_ItemsHash'[m] = IF m_ItemsHash[m] >= m_ItemsHash[nm]
                             THEN m_ItemsHash[m] + (-1) ELSE m_ItemsHash[m]
  BY <1>1, HashRemoveEntries
<1>5. DOMAIN m_Items' = 1 .. n - 1
  BY <1>2, SeqElements
<1>6. TypeOK'
  <2>1. \A m \in DOMAIN m_ItemsHash' : m_ItemsHash'[m] \in Int
    BY <1>0, <1>4
  <2>2. n <= MaxSize /\ MaxSize \in Nat
    BY MaxSizeIsNatural DEF Base, TypeOK, n
  <2>3. Len(m_Items') <= MaxSize
    BY <1>0, <1>2, <2>2
  <2>4. m_pCollection' \in [Item -> BOOLEAN] /\ m_Name' \in [Item -> Name]
    BY <1>0, <1>1
  <2>5. lent' \subseteq DOMAIN m_ItemsHash' /\ DOMAIN m_ItemsHash' \subseteq Name
    BY <1>0, <1>1, <1>4
  <2>6. condition' \in {"intact", "clashed", "undefined"}
    BY <1>1 DEF Base, TypeOK
  <2> QED
    BY <1>2, <2>1, <2>3, <2>4, <2>5, <2>6 DEF TypeOK
<1>7. Held'
  <2> SUFFICES ASSUME NEW j \in Item, m_pCollection'[j]
               PROVE  j \in Range(m_Items')
    BY DEF Held
  <2>1. j # i /\ m_pCollection[j]
    BY <1>0, <1>1, <1>3
  <2>2. PICK k \in 1 .. n : m_Items[k] = j
    BY <1>0, <2>1 DEF Base, Held, Range
  <2>3. k # p + 1
    BY <1>3, <2>1, <2>2
  <2>4. CASE k < p + 1
    <3>1. k \in 1 .. n - 1 /\ m_Items'[k] = m_Items[k]
      BY <1>0, <1>2, <1>3, <2>4
    <3> QED
      BY <1>5, <2>2, <3>1 DEF Range
  <2>5. CASE k > p + 1
    <3>1. k - 1 \in 1 .. n - 1 /\ ~(k - 1 < p + 1) /\ k - 1 + 1 = k
      BY <1>0, <1>3, <2>5
    <3>2. m_Items'[k - 1] = m_Items[k]
      BY <1>2, <3>1
    <3> QED
      BY <1>5, <2>2, <3>1, <3>2 DEF Range
  <2> QED
    BY <1>0, <1>3, <2>3, <2>4, <2>5
<1>8. KeysHeld'
  <2> SUFFICES ASSUME NEW name \in DOMAIN m_ItemsHash'
               PROVE  \E j \in Item : m_pCollection'[j] /\ m_Name[j] = name
    BY <1>1 DEF KeysHeld
  <2>1. name \in DOMAIN m_ItemsHash /\ name # nm
    BY <1>4
  <2>2. PICK j \in Item : m_pCollection[j] /\ m_Name[j] = name
    BY <2>1 DEF Base, KeysHeld
  <2>3. j # i
    BY <1>3, <2>1, <2>2
  <2>4. m_pCollection'[j]
    BY <1>0, <1>1, <2>2, <2>3
  <2> QED
    BY <2>2, <2>4
<1> QED
  BY <1>6, <1>7, <1>8 DEF Base

\* After Clear no item points back to the collection.
LEMMA ClearBase ==
  ASSUME Base, Clear
  PROVE  Base'
<1>1. /\ m_Items' = <<>> /\ m_ItemsHash' = <<>> /\ lent' = {} /\ m_Name' = m_Name
      /\ m_pCollection' = [i \in Item |-> m_pCollection[i] /\ i \notin Range(m_Items)]
      /\ condition' = "intact"
  BY DEF Clear
<1>2. m_Items' \in Seq(Item) /\ Len(m_Items') = 0 /\ DOMAIN m_ItemsHash' = {}
  BY <1>1, EmptySeq
<1>3. \A i \in Item : ~m_pCollection'[i]
  BY <1>1 DEF Base, Held
<1>4. TypeOK'
  <2>1. m_pCollection' \in [Item -> BOOLEAN]
    BY <1>1
  <2>2. m_Name' \in [Item -> Name]
    BY <1>1 DEF Base, TypeOK
  <2>3. Len(m_Items') <= MaxSize
    BY <1>2, MaxSizeIsNatural
  <2> QED
    BY <1>1, <1>2, <2>1, <2>2, <2>3 DEF TypeOK
<1> QED
  BY <1>2, <1>3, <1>4 DEF Base, Held, KeysHeld

\* Move permutes the array and keeps the keys.
LEMMA MoveBase ==
  ASSUME Base, NEW from \in 0 .. Len(m_Items) - 1,
         NEW to \in 0 .. Len(m_Items) - 1, Move(from, to - from)
  PROVE  Base'
<1> DEFINE n == Len(m_Items)
<1>0. /\ n \in Nat /\ DOMAIN m_Items = 1 .. n
      /\ \A m \in DOMAIN m_ItemsHash : m_ItemsHash[m] \in Int
  BY TypeFacts DEF Base
<1>1. /\ m_Items' \in Seq(Item) /\ Len(m_Items') = n
      /\ \A k \in 0 .. n - 1 : m_Items'[k + 1] = m_Items[OldIndex(k, from, to) + 1]
  BY MoveArray DEF Base
<1>2. /\ DOMAIN m_ItemsHash' = DOMAIN m_ItemsHash
      /\ \A m \in DOMAIN m_ItemsHash :
           m_ItemsHash'[m] = NewIndex(m_ItemsHash[m], from, to)
  <2>1. m_ItemsHash' = HashMove(m_ItemsHash, from, to - from)
    BY DEF Move
  <2>2. from \in Int /\ to \in Int
    BY <1>0
  <2> QED
    BY <2>1, <2>2, HashMoveEntries
<1>3. UNCHANGED <<m_Name, m_pCollection, lent, condition>>
  BY DEF Move
<1>4. DOMAIN m_Items' = 1 .. n
  BY <1>1, SeqElements
<1>5. TypeOK'
  <2>1. \A m \in DOMAIN m_ItemsHash' : m_ItemsHash'[m] \in Int
    BY <1>0, <1>2 DEF NewIndex
  <2> QED
    BY <1>1, <1>2, <1>3, <2>1 DEF Base, TypeOK
<1>6. Held'
  <2> SUFFICES ASSUME NEW j \in Item, m_pCollection[j]
               PROVE  j \in Range(m_Items')
    BY <1>3 DEF Held
  <2>1. PICK k \in 1 .. n : m_Items[k] = j
    BY <1>0 DEF Base, Held, Range
  <2> DEFINE h == k - 1
             q == NewIndex(h, from, to)
  <2>2. h \in 0 .. n - 1 /\ h + 1 = k
    BY <1>0
  <2>3. q \in 0 .. n - 1 /\ OldIndex(q, from, to) = h
    BY <1>0, <2>2, MovePermutes, ZenonT(60)
  <2> HIDE DEF h, q
  <2>4. m_Items'[q + 1] = j /\ q + 1 \in 1 .. n
    BY <1>0, <1>1, <2>1, <2>2, <2>3, SMTT(60)
  <2> QED
    BY <1>4, <2>4 DEF Range
<1>7. KeysHeld'
  BY <1>2, <1>3 DEF Base, KeysHeld
<1> QED
  BY <1>5, <1>6, <1>7 DEF Base

\* A rename takes the old key away and leaves the new one, whose item points
\* back to the collection; another item may lose its entry.
LEMMA RenameBase ==
  ASSUME Base, NEW i \in Item, NEW szName \in Name, NEW moved \in BOOLEAN,
         SetName(i, szName, moved)
  PROVE  Base'
<1> DEFINE old == m_Name[i]
           v == IndexOf(old)
<1>0. /\ m_pCollection \in [Item -> BOOLEAN] /\ m_Name \in [Item -> Name]
      /\ DOMAIN m_ItemsHash \subseteq Name
      /\ \A m \in DOMAIN m_ItemsHash : m_ItemsHash[m] \in Int
      /\ lent \subseteq DOMAIN m_ItemsHash
  BY TypeFacts DEF Base, TypeOK
<1>1. /\ m_pCollection[i] /\ m_Name' = [m_Name EXCEPT ![i] = szName]
      /\ UNCHANGED <<m_Items, m_pCollection>>
      /\ m_ItemsHash' = SetAt(RemoveKey(m_ItemsHash, old), szName, v)
  BY DEF SetName, HashRename
<1>2. lent' \subseteq (lent \ {old}) \cup {szName}
  BY DEF SetName
<1>3. condition' \in {"intact", "clashed", "undefined"}
  BY DEF SetName, AfterRename, Base, TypeOK
<1>4. v \in Int /\ old = m_Name[i]
  BY <1>0 DEF IndexOf, Found
<1> HIDE DEF old, v
<1>5. /\ DOMAIN m_ItemsHash' = (DOMAIN m_ItemsHash \ {old}) \cup {szName}
      /\ \A m \in DOMAIN m_ItemsHash' : m_ItemsHash'[m] \in Int
  BY <1>0, <1>1, <1>4 DEF SetAt, RemoveKey, Restrict
<1>6. TypeOK'
  <2>1. lent' \subseteq DOMAIN m_ItemsHash' /\ DOMAIN m_ItemsHash' \subseteq Name
    BY <1>0, <1>2, <1>5
  <2>2. m_Name' \in [Item -> Name]
    BY <1>0, <1>1
  <2> QED
    BY <1>1, <1>3, <1>5, <2>1, <2>2 DEF Base, TypeOK
<1>7. Held'
  BY <1>1 DEF Base, Held
<1>8. KeysHeld'
  <2> SUFFICES ASSUME NEW name \in DOMAIN m_ItemsHash'
               PROVE  \E j \in Item : m_pCollection[j] /\ m_Name'[j] = name
    BY <1>1 DEF KeysHeld
  <2>1. CASE name = szName
    BY <1>0, <1>1, <2>1
  <2>2. CASE name # szName
    <3>1. name \in DOMAIN m_ItemsHash /\ name # old
      BY <1>5, <2>2
    <3>2. PICK j \in Item : m_pCollection[j] /\ m_Name[j] = name
      BY <3>1 DEF Base, KeysHeld
    <3>3. j # i
      BY <1>4, <3>1, <3>2
    <3> QED
      BY <1>0, <1>1, <3>2, <3>3
  <2> QED
    BY <2>1, <2>2
<1> QED
  BY <1>6, <1>7, <1>8 DEF Base

\* An item outside the collection is not behind any of its keys.
LEMMA RenameOutsideBase ==
  ASSUME Base, NEW i \in Item, NEW szName \in Name, NEW moved \in BOOLEAN,
         SetNameOutside(i, szName, moved)
  PROVE  Base'
<1>0. m_pCollection \in [Item -> BOOLEAN] /\ m_Name \in [Item -> Name]
  BY DEF Base, TypeOK
<1>1. /\ ~m_pCollection[i] /\ m_Name' = [m_Name EXCEPT ![i] = szName]
      /\ UNCHANGED <<m_Items, m_ItemsHash, m_pCollection, lent>>
      /\ condition' \in {"intact", "clashed", "undefined"}
  BY DEF SetNameOutside, Base, TypeOK
<1>2. TypeOK'
  BY <1>0, <1>1 DEF Base, TypeOK
<1>3. Held'
  BY <1>1 DEF Base, Held
<1>4. KeysHeld'
  <2> SUFFICES ASSUME NEW name \in DOMAIN m_ItemsHash
               PROVE  \E j \in Item : m_pCollection[j] /\ m_Name'[j] = name
    BY <1>1 DEF KeysHeld
  <2>1. PICK j \in Item : m_pCollection[j] /\ m_Name[j] = name
    BY DEF Base, KeysHeld
  <2> QED
    BY <1>0, <1>1, <2>1
<1> QED
  BY <1>2, <1>3, <1>4 DEF Base

-----------------------------------------------------------------------------
(* Invariance *)

\* An empty collection satisfies the invariant.
THEOREM InitInv == Init => IInv
<1> SUFFICES ASSUME Init PROVE IInv
  OBVIOUS
<1>1. /\ m_Items = <<>> /\ m_ItemsHash = <<>> /\ m_Name \in [Item -> Name]
      /\ m_pCollection = [i \in Item |-> FALSE] /\ lent = {} /\ condition = "intact"
  BY DEF Init
<1>2. m_Items \in Seq(Item) /\ Len(m_Items) = 0 /\ DOMAIN m_ItemsHash = {}
  BY <1>1, EmptySeq
<1>3. TypeOK
  <2>1. Len(m_Items) <= MaxSize
    BY <1>2, MaxSizeIsNatural
  <2> QED
    BY <1>1, <1>2, <2>1 DEF TypeOK
<1>4. ItemsFound /\ KeysUsed /\ MembersFound /\ Held /\ KeysHeld
  BY <1>1, <1>2 DEF ItemsFound, KeysUsed, MembersFound, Held, KeysHeld
<1> QED
  BY <1>3, <1>4 DEF Inv, IInv, Base

\* A collection that is intact after a rename was so before, and the new name
\* was free or the item's own.
LEMMA IntactRename ==
  ASSUME NEW i \in Item, NEW szName \in Name, NEW moved \in BOOLEAN,
         SetName(i, szName, moved), Intact'
  PROVE  Intact /\ (szName \in DOMAIN m_ItemsHash => szName = m_Name[i])
BY DEF SetName, AfterRename, Intact, Found

\* Every operation of the collection keeps array and table in step; a rename
\* to a used name ends that until the next Clear.
THEOREM NextInv == IInv /\ [Next]_vars => IInv'
<1> SUFFICES ASSUME IInv, [Next]_vars PROVE IInv'
  OBVIOUS
<1>0. Base /\ (Intact => Inv)
  BY DEF IInv
<1> SUFFICES Base' /\ (Intact' => Inv')
  BY DEF IInv
<1>1. ASSUME NEW i \in Item, Add(i) PROVE Base' /\ (Intact' => Inv')
  <2>1. Base' /\ TypeOK' /\ condition' = condition
    BY <1>0, <1>1, AddBase DEF Base, Add
  <2> QED
    BY <1>0, <1>1, <2>1, AddKeeps DEF Intact
<1>2. ASSUME NEW i \in Item, NEW p \in 0 .. Len(m_Items), Insert(p, i)
      PROVE  Base' /\ (Intact' => Inv')
  <2>1. Base' /\ TypeOK' /\ condition' = condition
    BY <1>0, <1>2, InsertBase DEF Base, Insert
  <2> QED
    BY <1>0, <1>2, <2>1, InsertKeeps DEF Intact
<1>3. ASSUME NEW p \in Index, RemoveItem(p) PROVE Base' /\ (Intact' => Inv')
  <2>1. Base' /\ TypeOK' /\ condition' = condition
    BY <1>0, <1>3, RemoveBase DEF Base, RemoveItem
  <2> QED
    BY <1>0, <1>3, <2>1, RemovalKeeps DEF Intact
<1>4. ASSUME Clear PROVE Base' /\ (Intact' => Inv')
  <2>1. Base' /\ TypeOK'
    BY <1>0, <1>4, ClearBase DEF Base
  <2> QED
    BY <1>0, <1>4, <2>1, ClearKeeps
<1>5. ASSUME NEW from \in Index, NEW to \in 0 .. Len(m_Items), Move(from, to - from)
      PROVE  Base' /\ (Intact' => Inv')
  <2>1. from \in 0 .. Len(m_Items) - 1 /\ to \in 0 .. Len(m_Items) - 1
    BY <1>0, <1>5, MoveIsInside
  <2>2. Base' /\ TypeOK' /\ condition' = condition
    BY <1>0, <1>5, <2>1, MoveBase DEF Base, Move
  <2> QED
    BY <1>0, <1>5, <2>1, <2>2, MoveKeeps DEF Intact
<1>6. ASSUME NEW i \in Item, NEW szName \in Name, NEW moved \in BOOLEAN,
             SetName(i, szName, moved)
      PROVE  Base' /\ (Intact' => Inv')
  <2>1. Base' /\ TypeOK'
    BY <1>0, <1>6, RenameBase DEF Base
  <2>2. ASSUME Intact' PROVE Inv'
    <3>1. Inv /\ (szName \in DOMAIN m_ItemsHash => szName = m_Name[i])
      BY <1>0, <1>6, <2>2, IntactRename
    <3> QED
      BY <1>6, <2>1, <3>1, RenameKeeps
  <2> QED
    BY <2>1, <2>2
<1>7. ASSUME NEW i \in Item, NEW szName \in Name, NEW moved \in BOOLEAN,
             SetNameOutside(i, szName, moved)
      PROVE  Base' /\ (Intact' => Inv')
  <2>1. Base' /\ TypeOK'
    BY <1>0, <1>7, RenameOutsideBase DEF Base
  <2>2. Intact' => Intact
    BY <1>7 DEF SetNameOutside, Intact
  <2> QED
    BY <1>0, <1>7, <2>1, <2>2, RenameOutsideKeeps
<1>8. ASSUME NEW name \in Name, CallerFrees(name) PROVE Base' /\ (Intact' => Inv')
  <2>1. /\ UNCHANGED <<m_Items, m_ItemsHash, m_Name, m_pCollection, lent>>
        /\ condition' = "undefined"
    BY <1>8 DEF CallerFrees
  <2>2. Base'
    BY <1>0, <2>1 DEF Base, TypeOK, Held, KeysHeld
  <2> QED
    BY <2>1, <2>2 DEF Intact
<1>9. ASSUME UNCHANGED vars PROVE Base' /\ (Intact' => Inv')
  <2>1. Base'
    BY <1>0, <1>9 DEF vars, Base, TypeOK, Held, KeysHeld
  <2>2. Intact' => Intact
    BY <1>9 DEF vars, Intact
  <2>3. Inv => Inv'
    BY <1>9 DEF vars, Inv, TypeOK, ItemsFound, KeysUsed, MembersFound
  <2> QED
    BY <1>0, <2>1, <2>2, <2>3
<1> QED
  BY <1>1, <1>2, <1>3, <1>4, <1>5, <1>6, <1>7, <1>8, <1>9 DEF Next, Undefined

\* The invariant holds in every reachable state.
THEOREM Invariance == Spec => []IInv
BY InitInv, NextInv, PTL DEF Spec

-----------------------------------------------------------------------------
(* The theorems *)

\* The array holds items, the table leads names to numbers, and the strings
\* that callers of SetName have lent are keys of the table.
THEOREM TypeCorrect == Spec => []TypeOK
<1>1. IInv => TypeOK
  BY DEF IInv, Base
<1> QED
  BY <1>1, Invariance, PTL

\* operator [](szName) finds the item of that name after any sequence of
\* insertions, removals, moves and renames in which no rename since the last
\* Clear took the name of another item.
THEOREM FindsByName == Spec => []NameFindsItem
<1>1. IInv => NameFindsItem
  <2> SUFFICES ASSUME Inv, NEW p \in Index
               PROVE  LET name == m_Name[m_Items[p + 1]] IN
                      Found(name) /\ m_ItemsHash[name] = p
    BY DEF NameFindsItem, IInv
  <2> DEFINE k == p + 1
  <2>1. k \in 1 .. Len(m_Items) /\ k - 1 = p
    BY InvFacts DEF Index
  <2> HIDE DEF k
  <2>2. /\ m_Name[m_Items[k]] \in DOMAIN m_ItemsHash
        /\ m_ItemsHash[m_Name[m_Items[k]]] = k - 1
    BY <2>1 DEF Inv, ItemsFound
  <2> QED
    BY <2>1, <2>2 DEF k, Found
<1> QED
  BY <1>1, Invariance, PTL

\* An item that points back to the collection is in the array.  Without a clash
\* every item in the array does so, and is there once.
THEOREM MembersKnowCollection == Spec => []MembersKnowIt
<1>0. IInv => Held /\ (Intact => Inv)
  BY DEF IInv, Base
<1>1. Inv => /\ \A i \in Item : i \in Range(m_Items) => m_pCollection[i]
             /\ IsInjective(m_Items)
  <2> SUFFICES ASSUME Inv
               PROVE  /\ \A i \in Item : i \in Range(m_Items) => m_pCollection[i]
                      /\ IsInjective(m_Items)
    OBVIOUS
  <2>0. DOMAIN m_Items = 1 .. Len(m_Items) /\ Len(m_Items) \in Nat
    BY InvFacts, SeqElements
  <2>1. ASSUME NEW i \in Item
        PROVE  i \in Range(m_Items) => m_pCollection[i]
    <3> SUFFICES ASSUME i \in Range(m_Items) PROVE m_pCollection[i]
      OBVIOUS
    <3>1. PICK k \in 1 .. Len(m_Items) : m_Items[k] = i
      BY <2>0 DEF Range
    <3>2. /\ m_Name[m_Items[k]] \in DOMAIN m_ItemsHash
          /\ m_ItemsHash[m_Name[m_Items[k]]] = k - 1
      BY DEF Inv, ItemsFound
    <3>3. k - 1 + 1 = k
      BY <2>0
    <3> QED
      BY <3>1, <3>2, <3>3 DEF Inv, MembersFound
  <2>2. IsInjective(m_Items)
    <3> SUFFICES ASSUME NEW a \in 1 .. Len(m_Items), NEW b \in 1 .. Len(m_Items),
                        m_Items[a] = m_Items[b]
                 PROVE  a = b
      BY <2>0 DEF IsInjective
    <3>1. a - 1 = b - 1
      BY DEF Inv, ItemsFound
    <3> QED
      BY <2>0, <3>1
  <2> QED
    BY <2>1, <2>2
<1>2. IInv => MembersKnowIt
  BY <1>0, <1>1 DEF MembersKnowIt, Held
<1> QED
  BY <1>2, Invariance, PTL

\* The indexes in the table are 0, 1, ... without gaps and repetitions, until
\* a rename takes the name of another item.
THEOREM IndexesAreContiguous == Spec => []IndexContiguous
<1>1. Inv => Contiguous
  <2> SUFFICES ASSUME Inv PROVE Contiguous
    OBVIOUS
  <2>0. Count = Len(m_Items) /\ Len(m_Items) \in Nat
    BY CountIsLength, InvFacts
  <2>1. IsInjective(m_ItemsHash)
    BY DEF IsInjective, Inv, KeysUsed
  <2>2. Range(m_ItemsHash) \subseteq 0 .. Count - 1
    BY <2>0 DEF Range, Inv, KeysUsed
  <2>3. ASSUME NEW q \in 0 .. Count - 1 PROVE q \in Range(m_ItemsHash)
    <3> DEFINE k == q + 1
    <3>1. k \in 1 .. Len(m_Items) /\ k - 1 = q
      BY <2>0
    <3> HIDE DEF k
    <3>2. /\ m_Name[m_Items[k]] \in DOMAIN m_ItemsHash
          /\ m_ItemsHash[m_Name[m_Items[k]]] = k - 1
      BY <3>1 DEF Inv, ItemsFound
    <3> QED
      BY <3>1, <3>2 DEF Range
  <2> QED
    BY <2>1, <2>2, <2>3 DEF Contiguous
<1>2. IInv => IndexContiguous
  BY <1>1 DEF IInv, IndexContiguous
<1> QED
  BY <1>2, Invariance, PTL

-----------------------------------------------------------------------------
(* The table implements the list of names *)

\* Read in the order of the indexes, the keys of the table are the names of
\* the items in the order of the array.
NamesListed ==
  /\ NamesInOrder \in Seq(Name)
  /\ Len(NamesInOrder) = Len(m_Items)
  /\ \A k \in 1 .. Len(m_Items) : NamesInOrder[k] = m_Name[m_Items[k]]

\* The invariant gives the list: the key with index k - 1 is the only one, and
\* it is the name of the item at k.
THEOREM ListsNames == Inv => NamesListed
<1> SUFFICES ASSUME Inv PROVE NamesListed
  OBVIOUS
<1>0. Count = Len(m_Items) /\ Len(m_Items) \in Nat
  BY CountIsLength, InvFacts
<1>1. NamesInOrder = [k \in 1 .. Len(m_Items) |->
                        CHOOSE name \in DOMAIN m_ItemsHash : m_ItemsHash[name] = k - 1]
  BY <1>0 DEF NamesInOrder
<1>2. ASSUME NEW k \in 1 .. Len(m_Items)
      PROVE  (CHOOSE name \in DOMAIN m_ItemsHash : m_ItemsHash[name] = k - 1)
               = m_Name[m_Items[k]]
  <2>1. /\ m_Name[m_Items[k]] \in DOMAIN m_ItemsHash
        /\ m_ItemsHash[m_Name[m_Items[k]]] = k - 1
    BY DEF Inv, ItemsFound
  <2>2. ASSUME NEW name \in DOMAIN m_ItemsHash, m_ItemsHash[name] = k - 1
        PROVE  name = m_Name[m_Items[k]]
    <3>1. m_Name[m_Items[m_ItemsHash[name] + 1]] = name
      BY DEF Inv, KeysUsed
    <3>2. m_ItemsHash[name] + 1 = k
      BY <1>0, <2>2
    <3> QED
      BY <3>1, <3>2
  <2> QED
    BY <2>1, <2>2
<1>3. NamesInOrder = [k \in 1 .. Len(m_Items) |-> m_Name[m_Items[k]]]
  BY <1>1, <1>2
<1>4. \A k \in 1 .. Len(m_Items) : m_Name[m_Items[k]] \in Name
  BY InvFacts
<1>5. NamesInOrder \in Seq(Name) /\ Len(NamesInOrder) = Len(m_Items)
  BY <1>0, <1>3, <1>4, IsASeq
<1> QED
  BY <1>3, <1>5 DEF NamesListed

\* The same of the next state
THEOREM ListsNamesNext == Inv' => NamesListed'
BY ListsNames, PTL

\* A sequence of names with the elements of an insertion is that insertion.
LEMMA IsInsertion ==
  ASSUME NEW L \in Seq(Name), NEW M \in Seq(Name), NEW p \in 0 .. Len(L),
         NEW name \in Name, Len(M) = Len(L) + 1,
         \A k \in 1 .. Len(L) + 1 :
           M[k] = IF k < p + 1 THEN L[k] ELSE IF k = p + 1 THEN name ELSE L[k - 1]
  PROVE  M = InsertAt(L, p + 1, name)
<1> DEFINE q == p + 1
<1>1. q \in 1 .. Len(L) + 1
  BY LenProperties
<1> HIDE DEF q
<1>2. /\ InsertAt(L, q, name) \in Seq(Name)
      /\ Len(InsertAt(L, q, name)) = Len(L) + 1
      /\ \A k \in 1 .. Len(L) + 1 :
           InsertAt(L, q, name)[k] = IF k < q THEN L[k]
                                     ELSE IF k = q THEN name ELSE L[k - 1]
  BY <1>1, InsertAtElements
<1>3. \A k \in 1 .. Len(M) : M[k] = InsertAt(L, q, name)[k]
  BY <1>2 DEF q
<1>4. M = InsertAt(L, q, name)
  BY <1>2, <1>3, SeqEqual
<1> QED
  BY <1>4 DEF q

\* A sequence of names with the elements of a removal is that removal.
LEMMA IsRemoval ==
  ASSUME NEW L \in Seq(Name), NEW M \in Seq(Name), NEW p \in 0 .. Len(L) - 1,
         Len(M) = Len(L) - 1,
         \A k \in 1 .. Len(L) - 1 : M[k] = IF k < p + 1 THEN L[k] ELSE L[k + 1]
  PROVE  M = RemoveAt(L, p + 1)
<1> DEFINE q == p + 1
<1>1. q \in 1 .. Len(L)
  BY LenProperties
<1> HIDE DEF q
<1>2. /\ RemoveAt(L, q) \in Seq(Name)
      /\ Len(RemoveAt(L, q)) = Len(L) - 1
      /\ \A k \in 1 .. Len(L) - 1 :
           RemoveAt(L, q)[k] = IF k < q THEN L[k] ELSE L[k + 1]
  BY <1>1, RemoveAtElements
<1>3. \A k \in 1 .. Len(M) : M[k] = RemoveAt(L, q)[k]
  BY <1>2 DEF q
<1>4. M = RemoveAt(L, q)
  BY <1>2, <1>3, SeqEqual
<1> QED
  BY <1>4 DEF q

\* A sequence of names with the elements of a move is that move.
LEMMA IsMove ==
  ASSUME NEW L \in Seq(Name), NEW M \in Seq(Name), NEW from \in 0 .. Len(L) - 1,
         NEW to \in 0 .. Len(L) - 1, Len(M) = Len(L),
         \A k \in 0 .. Len(L) - 1 : M[k + 1] = L[OldIndex(k, from, to) + 1]
  PROVE  M = Moved(L, from, to)
<1>1. /\ Moved(L, from, to) \in Seq(Name) /\ Len(Moved(L, from, to)) = Len(L)
      /\ \A k \in 0 .. Len(L) - 1 :
           Moved(L, from, to)[k + 1] = L[OldIndex(k, from, to) + 1]
  BY MoveElements
<1>2. ASSUME NEW k \in 1 .. Len(M) PROVE M[k] = Moved(L, from, to)[k]
  <2> DEFINE j == k - 1
  <2>1. j \in 0 .. Len(L) - 1 /\ j + 1 = k
    BY LenProperties
  <2> HIDE DEF j
  <2>2. M[j + 1] = Moved(L, from, to)[j + 1]
    BY <1>1, <2>1
  <2> QED
    BY <2>1, <2>2
<1> QED
  BY <1>1, <1>2, SeqEqual

\* The specification of the list has its own copies of the operators on
\* sequences; they are the same.
LEMMA SameOperators ==
  ASSUME NEW s, NEW p, NEW e
  PROVE  /\ Abstract!InsertAt(s, p, e) = InsertAt(s, p, e)
         /\ Abstract!RemoveAt(s, p) = RemoveAt(s, p)
         /\ Abstract!Range(s) = Range(s)
BY DEF Abstract!InsertAt, Abstract!RemoveAt, Abstract!Range, InsertAt, RemoveAt, Range

\* What the specification of the list sees of the table
Listed == IF Intact THEN NamesInOrder ELSE <<>>

\* A step that leaves the collection intact is a step of the list if it is one
\* of these four.
LEMMA KeepStep ==
  ASSUME Intact, condition' = condition,
         \/ \E name \in Name \ Range(NamesInOrder), k \in 0 .. Len(NamesInOrder) :
               NamesInOrder' = InsertAt(NamesInOrder, k + 1, name)
         \/ \E k \in 0 .. Len(NamesInOrder) - 1 :
               NamesInOrder' = RemoveAt(NamesInOrder, k + 1)
         \/ \E k, l \in 0 .. Len(NamesInOrder) - 1 :
               NamesInOrder' = InsertAt(RemoveAt(NamesInOrder, k + 1), k + (l - k) + 1,
                                        NamesInOrder[k + 1])
         \/ \E name \in Name \ Range(NamesInOrder), k \in 0 .. Len(NamesInOrder) - 1 :
               NamesInOrder' = [NamesInOrder EXCEPT ![k + 1] = name]
  PROVE  Abstract!Next
<1>1. Listed = NamesInOrder /\ Listed' = NamesInOrder' /\ Intact'
  BY DEF Listed, Intact
<1>2. condition = "intact" /\ condition' = "intact"
  BY DEF Intact
<1>3. /\ (IF Intact THEN NamesInOrder ELSE <<>>) = NamesInOrder
      /\ (IF Intact THEN NamesInOrder ELSE <<>>)' = NamesInOrder'
  BY <1>1 DEF Listed
<1>4. /\ Abstract!Unused = Name \ Range(NamesInOrder)
      /\ Abstract!Indexes = 0 .. Len(NamesInOrder) - 1
  BY <1>3, SameOperators DEF Abstract!Unused, Abstract!Indexes
<1>5. ASSUME NEW name \in Name \ Range(NamesInOrder), NEW k \in 0 .. Len(NamesInOrder),
             NamesInOrder' = InsertAt(NamesInOrder, k + 1, name)
      PROVE  Abstract!Keep
  <2>1. Abstract!Insert(k, name)
    BY <1>3, <1>5, SameOperators DEF Abstract!Insert
  <2> QED
    BY <1>2, <1>3, <1>4, <2>1 DEF Abstract!Keep
<1>6. ASSUME NEW k \in 0 .. Len(NamesInOrder) - 1,
             NamesInOrder' = RemoveAt(NamesInOrder, k + 1)
      PROVE  Abstract!Keep
  <2>1. Abstract!Delete(k)
    BY <1>3, <1>6, SameOperators DEF Abstract!Delete
  <2> QED
    BY <1>2, <1>4, <2>1 DEF Abstract!Keep
<1>7. ASSUME NEW k \in 0 .. Len(NamesInOrder) - 1, NEW l \in 0 .. Len(NamesInOrder) - 1,
             NamesInOrder' = InsertAt(RemoveAt(NamesInOrder, k + 1), k + (l - k) + 1,
                                      NamesInOrder[k + 1])
      PROVE  Abstract!Keep
  <2>1. Abstract!Move(k, l - k)
    BY <1>3, <1>7, SameOperators DEF Abstract!Move
  <2> QED
    BY <1>2, <1>4, <2>1 DEF Abstract!Keep
<1>8. ASSUME NEW name \in Name \ Range(NamesInOrder),
             NEW k \in 0 .. Len(NamesInOrder) - 1,
             NamesInOrder' = [NamesInOrder EXCEPT ![k + 1] = name]
      PROVE  Abstract!Keep
  <2>1. Abstract!Rename(k, name)
    BY <1>3, <1>8 DEF Abstract!Rename
  <2> QED
    BY <1>2, <1>4, <2>1 DEF Abstract!Keep
<1> QED
  BY <1>5, <1>6, <1>7, <1>8 DEF Abstract!Next

\* The promise ends: a string is lost, or a rename takes the name of another
\* of at least two items.
LEMMA EndStep ==
  ASSUME \/ condition' = "undefined"
         \/ condition' = "clashed" /\ Intact /\ Len(NamesInOrder) >= 2
  PROVE  Abstract!Next
<1>1. (IF Intact THEN NamesInOrder ELSE <<>>)' = <<>>
  BY DEF Intact
<1>2. CASE condition' = "undefined"
  BY <1>1, <1>2 DEF Abstract!Lose, Abstract!Next
<1>3. CASE condition' = "clashed" /\ Intact /\ Len(NamesInOrder) >= 2
  <2>1. (IF Intact THEN NamesInOrder ELSE <<>>) = NamesInOrder /\ condition = "intact"
    BY <1>3 DEF Intact
  <2>2. Abstract!Clash
    BY <1>1, <1>3, <2>1 DEF Abstract!Clash
  <2> QED
    BY <2>2 DEF Abstract!Next
<1> QED
  BY <1>2, <1>3

\* An item that enters the array is an insertion of its name into the list.
LEMMA EntryIsInsert ==
  ASSUME Inv, Inv', Intact, condition' = condition,
         NEW i \in Item, MayEnter(i), NEW p \in 0 .. Len(m_Items),
         Len(m_Items') = Len(m_Items) + 1,
         \A k \in 1 .. Len(m_Items) + 1 :
           m_Items'[k] = IF k < p + 1 THEN m_Items[k]
                         ELSE IF k = p + 1 THEN i ELSE m_Items[k - 1],
         m_Name' = m_Name
  PROVE  Abstract!Next
<1> DEFINE L == NamesInOrder
           M == NamesInOrder'
           n == Len(m_Items)
           nm == m_Name[i]
<1>1. /\ L \in Seq(Name) /\ Len(L) = n
      /\ \A k \in 1 .. n : L[k] = m_Name[m_Items[k]]
  BY ListsNames DEF NamesListed
<1>2. /\ M \in Seq(Name) /\ Len(M) = n + 1
      /\ \A k \in 1 .. n + 1 : M[k] = m_Name[m_Items'[k]]
  BY ListsNamesNext DEF NamesListed
<1>3. nm \in Name /\ nm \notin DOMAIN m_ItemsHash /\ n \in Nat
  BY InvFacts DEF MayEnter, Found
<1>4. \A k \in 1 .. n : m_Name[m_Items[k]] \in DOMAIN m_ItemsHash
  BY DEF Inv, ItemsFound
<1>5. \A k \in 1 .. n + 1 :
        m_Items'[k] = IF k < p + 1 THEN m_Items[k]
                      ELSE IF k = p + 1 THEN i ELSE m_Items[k - 1]
  OBVIOUS
<1>6. p \in 0 .. n /\ nm = m_Name[i]
  OBVIOUS
<1> HIDE DEF L, M, n, nm
<1>7. nm \notin Range(L)
  BY <1>1, <1>3, <1>4, SeqElements DEF Range
<1>8. ASSUME NEW k \in 1 .. n + 1
      PROVE  M[k] = IF k < p + 1 THEN L[k] ELSE IF k = p + 1 THEN nm ELSE L[k - 1]
  <2>1. CASE k < p + 1
    <3>1. k \in 1 .. n
      BY <1>3, <1>6, <2>1
    <3>2. m_Items'[k] = m_Items[k] /\ M[k] = m_Name[m_Items'[k]]
      BY <1>2, <1>5, <2>1
    <3> QED
      BY <1>1, <2>1, <3>1, <3>2
  <2>2. CASE k = p + 1
    BY <1>2, <1>3, <1>5, <1>6, <2>2
  <2>3. CASE k > p + 1
    <3>1. k - 1 \in 1 .. n /\ ~(k < p + 1) /\ k # p + 1
      BY <1>3, <1>6, <2>3
    <3> QED
      BY <1>1, <1>2, <1>5, <3>1
  <2>4. k < p + 1 \/ k = p + 1 \/ k > p + 1
    BY <1>6
  <2> QED
    BY <2>1, <2>2, <2>3, <2>4
<1>9. M = InsertAt(L, p + 1, nm)
  <2>1. p \in 0 .. Len(L) /\ Len(M) = Len(L) + 1
    BY <1>1, <1>2, <1>6
  <2>2. \A k \in 1 .. Len(L) + 1 :
          M[k] = IF k < p + 1 THEN L[k] ELSE IF k = p + 1 THEN nm ELSE L[k - 1]
    BY <1>1, <1>8
  <2> QED
    BY <1>1, <1>2, <1>3, <2>1, <2>2, IsInsertion
<1> QED
  <2>1. p \in 0 .. Len(L) /\ nm \in Name \ Range(L)
    BY <1>1, <1>3, <1>6, <1>7
  <2> QED
    BY <1>9, <2>1, KeepStep DEF L, M

\* RemoveItem deletes a name from the list.
LEMMA RemoveIsDelete ==
  ASSUME Inv, Inv', Intact, NEW p \in Index, RemoveItem(p)
  PROVE  Abstract!Next
<1> DEFINE L == NamesInOrder
           M == NamesInOrder'
           n == Len(m_Items)
<1>1. /\ L \in Seq(Name) /\ Len(L) = n
      /\ \A k \in 1 .. n : L[k] = m_Name[m_Items[k]]
  BY ListsNames DEF NamesListed
<1>2. /\ Len(m_Items') = n - 1
      /\ \A k \in 1 .. n - 1 :
           m_Items'[k] = IF k < p + 1 THEN m_Items[k] ELSE m_Items[k + 1]
  BY RemoveArray DEF Inv
<1>3. /\ M \in Seq(Name) /\ Len(M) = n - 1
      /\ \A k \in 1 .. n - 1 : M[k] = m_Name[m_Items'[k]]
  BY <1>2, ListsNamesNext DEF NamesListed, RemoveItem
<1>4. n \in Nat /\ p \in 0 .. n - 1
  BY InvFacts DEF Index
<1> HIDE DEF L, M, n
<1>5. ASSUME NEW k \in 1 .. n - 1
      PROVE  M[k] = IF k < p + 1 THEN L[k] ELSE L[k + 1]
  <2>1. k \in 1 .. n /\ k + 1 \in 1 .. n
    BY <1>4
  <2>2. M[k] = m_Name[m_Items'[k]]
    BY <1>3
  <2>3. CASE k < p + 1
    BY <1>1, <1>2, <2>1, <2>2, <2>3
  <2>4. CASE ~(k < p + 1)
    BY <1>1, <1>2, <2>1, <2>2, <2>4
  <2> QED
    BY <2>3, <2>4
<1>6. M = RemoveAt(L, p + 1)
  <2>1. p \in 0 .. Len(L) - 1 /\ Len(M) = Len(L) - 1
    BY <1>1, <1>3, <1>4
  <2>2. \A k \in 1 .. Len(L) - 1 : M[k] = IF k < p + 1 THEN L[k] ELSE L[k + 1]
    BY <1>1, <1>5
  <2> QED
    BY <1>1, <1>3, <2>1, <2>2, IsRemoval
<1> QED
  <2>1. p \in 0 .. Len(L) - 1
    BY <1>1, <1>4
  <2>2. condition' = condition
    BY DEF RemoveItem
  <2> QED
    BY <1>6, <2>1, <2>2, KeepStep DEF L, M

\* Clear empties the list.
LEMMA ClearIsEmpty ==
  ASSUME Inv', Clear
  PROVE  Abstract!Next
<1>1. m_Items' = <<>>
  BY DEF Clear
<1>2. NamesInOrder' \in Seq(Name) /\ Len(NamesInOrder') = 0
  BY <1>1, ListsNamesNext, EmptySeq DEF NamesListed
<1>3. NamesInOrder' = <<>>
  BY <1>2, EmptySeq
<1>4. condition # "undefined" /\ condition' = "intact"
  BY DEF Clear, Defined
<1>5. (IF Intact THEN NamesInOrder ELSE <<>>)' = <<>>
  BY <1>3
<1> QED
  BY <1>4, <1>5 DEF Abstract!Next, Abstract!Empty

\* Move moves a name in the list.
LEMMA MoveIsMove ==
  ASSUME Inv, Inv', Intact, NEW from \in 0 .. Len(m_Items) - 1,
         NEW to \in 0 .. Len(m_Items) - 1, Move(from, to - from)
  PROVE  Abstract!Next
<1> DEFINE L == NamesInOrder
           M == NamesInOrder'
           n == Len(m_Items)
<1>1. /\ L \in Seq(Name) /\ Len(L) = n
      /\ \A k \in 1 .. n : L[k] = m_Name[m_Items[k]]
  BY ListsNames DEF NamesListed
<1>2. /\ Len(m_Items') = n
      /\ \A k \in 0 .. n - 1 : m_Items'[k + 1] = m_Items[OldIndex(k, from, to) + 1]
  BY MoveArray DEF Inv
<1>3. /\ M \in Seq(Name) /\ Len(M) = n
      /\ \A k \in 1 .. n : M[k] = m_Name[m_Items'[k]]
  BY <1>2, ListsNamesNext DEF NamesListed, Move
<1>4. n \in Nat /\ from \in 0 .. n - 1 /\ to \in 0 .. n - 1
  BY InvFacts
<1> HIDE DEF L, M, n
<1>5. ASSUME NEW k \in 0 .. n - 1
      PROVE  M[k + 1] = L[OldIndex(k, from, to) + 1]
  <2>1. OldIndex(k, from, to) \in 0 .. n - 1
    BY <1>4, MovePermutes
  <2>2. k + 1 \in 1 .. n /\ OldIndex(k, from, to) + 1 \in 1 .. n
    BY <1>4, <2>1
  <2>3. M[k + 1] = m_Name[m_Items'[k + 1]]
    BY <1>3, <2>2
  <2>4. L[OldIndex(k, from, to) + 1] = m_Name[m_Items[OldIndex(k, from, to) + 1]]
    BY <1>1, <2>2
  <2> QED
    BY <1>2, <2>3, <2>4
<1>6. M = Moved(L, from, to)
  <2>1. Len(M) = Len(L) /\ from \in 0 .. Len(L) - 1 /\ to \in 0 .. Len(L) - 1
    BY <1>1, <1>3, <1>4
  <2>2. \A k \in 0 .. Len(L) - 1 : M[k + 1] = L[OldIndex(k, from, to) + 1]
    BY <1>1, <1>5
  <2> QED
    BY <1>1, <1>3, <2>1, <2>2, IsMove
<1> QED
  <2>1. from \in 0 .. Len(L) - 1 /\ to \in 0 .. Len(L) - 1
    BY <1>1, <1>4
  <2>2. from + (to - from) + 1 = to + 1 /\ condition' = condition
    BY DEF Move
  <2>3. M = InsertAt(RemoveAt(L, from + 1), from + (to - from) + 1, L[from + 1])
    BY <1>6, <2>2 DEF Moved
  <2> QED
    BY <2>1, <2>2, <2>3, KeepStep DEF L, M

\* SetName of a member replaces its name in the list.  Setting the name that
\* the item has already changes nothing.
LEMMA RenameIsRename ==
  ASSUME Inv, Inv', Intact, Intact', NEW i \in Item, NEW szName \in Name,
         NEW moved \in BOOLEAN, SetName(i, szName, moved)
  PROVE  Abstract!Next \/ NamesInOrder' = NamesInOrder
<1> DEFINE L == NamesInOrder
           M == NamesInOrder'
           n == Len(m_Items)
           p == m_ItemsHash[m_Name[i]]
<1>1. /\ L \in Seq(Name) /\ Len(L) = n
      /\ \A k \in 1 .. n : L[k] = m_Name[m_Items[k]]
  BY ListsNames DEF NamesListed
<1>2. /\ m_Items' = m_Items /\ m_Name' = [m_Name EXCEPT ![i] = szName]
      /\ m_pCollection[i] /\ (szName \in DOMAIN m_ItemsHash => szName = m_Name[i])
      /\ condition' = condition
  BY IntactRename DEF SetName, Intact
<1>3. /\ M \in Seq(Name) /\ Len(M) = n
      /\ \A k \in 1 .. n : M[k] = m_Name'[m_Items[k]]
  BY <1>2, ListsNamesNext DEF NamesListed
<1>4. /\ m_Name[i] \in DOMAIN m_ItemsHash /\ m_Items[p + 1] = i
      /\ p \in 0 .. n - 1
  BY <1>2 DEF Inv, MembersFound, KeysUsed
<1>5. /\ n \in Nat /\ m_Name \in [Item -> Name]
      /\ \A k \in 1 .. n : m_Items[k] \in Item
  BY InvFacts
<1>6. \A k \in 1 .. n : /\ m_Name[m_Items[k]] \in DOMAIN m_ItemsHash
                        /\ m_ItemsHash[m_Name[m_Items[k]]] = k - 1
  BY DEF Inv, ItemsFound
<1>7. p = m_ItemsHash[m_Name[i]]
  OBVIOUS
<1> HIDE DEF L, M, n, p
<1>8. \A k \in 1 .. n : M[k] = IF k = p + 1 THEN szName ELSE L[k]
  <2> SUFFICES ASSUME NEW k \in 1 .. n
               PROVE  M[k] = IF k = p + 1 THEN szName ELSE L[k]
    OBVIOUS
  <2>1. CASE k = p + 1
    BY <1>2, <1>3, <1>4, <1>5, <2>1
  <2>2. CASE k # p + 1
    <3>1. m_Items[k] # i
      <4>1. m_ItemsHash[m_Name[m_Items[k]]] = k - 1
        BY <1>6
      <4>2. k - 1 # p
        BY <1>4, <1>5, <2>2
      <4> QED
        BY <1>7, <4>1, <4>2
    <3>2. m_Name'[m_Items[k]] = m_Name[m_Items[k]]
      BY <1>2, <1>5, <3>1
    <3> QED
      BY <1>1, <1>3, <2>2, <3>2
  <2> QED
    BY <2>1, <2>2
<1>9. p + 1 \in 1 .. n
  BY <1>4, <1>5
<1>10. CASE szName = m_Name[i]
  <2>1. L[p + 1] = szName
    BY <1>1, <1>4, <1>9, <1>10
  <2>2. \A k \in 1 .. Len(M) : M[k] = L[k]
    BY <1>3, <1>8, <2>1
  <2>3. M = L
    BY <1>1, <1>3, <2>2, SeqEqual
  <2> QED
    BY <2>3 DEF L, M
<1>11. CASE szName # m_Name[i]
  <2> DEFINE E == [L EXCEPT ![p + 1] = szName]
  <2>1. E \in Seq(Name) /\ Len(E) = n /\ \A k \in 1 .. n : E[k] = M[k]
    <3>1. E \in Seq(Name) /\ Len(E) = Len(L)
      BY <1>1, <1>9, ExceptSeq
    <3>2. DOMAIN L = 1 .. n
      BY <1>1, LenProperties
    <3> QED
      BY <1>1, <1>8, <3>1, <3>2
  <2>2. E = M
    <3> HIDE DEF E
    <3> QED
      BY <1>3, <2>1, SeqEqual
  <2>3. szName \notin DOMAIN m_ItemsHash
    BY <1>2, <1>11
  <2>4. szName \notin Range(L)
    BY <1>1, <1>6, <2>3, SeqElements DEF Range
  <2>5. p \in 0 .. Len(L) - 1 /\ szName \in Name \ Range(L)
    BY <1>1, <1>4, <2>4
  <2> QED
    BY <1>2, <2>2, <2>5, KeepStep DEF L, M
<1> QED
  BY <1>10, <1>11

\* A rename to the name of another item ends the promise: there are at least
\* two names.
LEMMA RenameIsClash ==
  ASSUME Inv, Intact, NEW i \in Item, NEW szName \in Name, NEW moved \in BOOLEAN,
         SetName(i, szName, moved), ~Intact'
  PROVE  Abstract!Next
<1>1. CASE condition' = "undefined"
  BY <1>1, EndStep
<1>2. CASE condition' # "undefined"
  <2>1. /\ condition' = "clashed" /\ m_pCollection[i]
        /\ szName \in DOMAIN m_ItemsHash /\ szName # m_Name[i]
    BY <1>2 DEF SetName, AfterRename, Intact, Found
  <2> DEFINE a == m_ItemsHash[m_Name[i]]
             b == m_ItemsHash[szName]
  <2>2. a \in 0 .. Len(m_Items) - 1 /\ m_Name[m_Items[a + 1]] = m_Name[i]
    BY <2>1 DEF Inv, MembersFound, KeysUsed
  <2>3. b \in 0 .. Len(m_Items) - 1 /\ m_Name[m_Items[b + 1]] = szName
    BY <2>1 DEF Inv, KeysUsed
  <2> HIDE DEF a, b
  <2>4. Len(m_Items) \in Nat /\ Len(NamesInOrder) = Len(m_Items)
    BY InvFacts, ListsNames DEF NamesListed
  <2>5. a # b
    BY <2>1, <2>2, <2>3
  <2>6. Len(NamesInOrder) >= 2
    BY <2>2, <2>3, <2>4, <2>5
  <2> QED
    BY <2>1, <2>6, EndStep
<1> QED
  BY <1>1, <1>2

\* Every operation of the collection is an operation of the list of names or
\* leaves the list as it is, and the empty table is the empty list: Collection
\* implements NamedList.  A rename to a used name ends the promise until Clear,
\* a lost string ends it for good.
THEOREM Implements == Spec => ImplementsNamedList
<1>1. Init => Abstract!Init
  <2> SUFFICES ASSUME Init PROVE NamesInOrder = <<>> /\ Intact
    BY DEF Abstract!Init, Intact
  <2>0. Inv /\ Intact
    BY InitInv DEF IInv, Init, Intact
  <2>1. NamesInOrder \in Seq(Name) /\ Len(NamesInOrder) = Len(m_Items)
    BY <2>0, ListsNames DEF NamesListed
  <2>2. Len(m_Items) = 0
    BY EmptySeq DEF Init
  <2> QED
    BY <2>0, <2>1, <2>2, EmptySeq
<1>2. IInv /\ IInv' /\ [Next]_vars => [Abstract!Next]_(Abstract!vars)
  <2> SUFFICES ASSUME IInv, IInv', [Next]_vars
               PROVE  Abstract!Next \/ (Listed' = Listed /\ condition' = condition)
    BY DEF Abstract!vars, Listed
  <2> DEFINE Goal == Abstract!Next \/ (Listed' = Listed /\ condition' = condition)
  <2>0. (Intact => Inv) /\ (Intact' => Inv') /\ Base
    BY DEF IInv
  <2>1. ASSUME condition' = condition, ~Intact PROVE Goal
    BY <2>1 DEF Listed, Intact
  <2>2. ASSUME condition' = condition, m_ItemsHash' = m_ItemsHash PROVE Goal
    BY <2>2 DEF Listed, Intact, NamesInOrder, Count
  <2>3. ASSUME condition' = "undefined" PROVE Goal
    BY <2>3, EndStep
  <2> HIDE DEF Goal
  <2>4. ASSUME Abstract!Next PROVE Goal
    BY <2>4 DEF Goal
  <2>5. ASSUME NEW i \in Item, Add(i) PROVE Goal
    <3>1. CASE Intact
      <4>1. MayEnter(i) /\ m_Name' = m_Name /\ condition' = condition /\ Intact'
        BY <2>5, <3>1 DEF Add, Intact
      <4>2. Inv /\ Inv' /\ TypeOK
        BY <2>0, <3>1, <4>1 DEF Inv
      <4>3. Len(m_Items) \in 0 .. Len(m_Items)
        BY <4>2, InvFacts
      <4> QED
        BY <2>4, <2>5, <3>1, <4>1, <4>2, <4>3, AddArray, EntryIsInsert
    <3> QED
      BY <2>1, <2>5, <3>1 DEF Add
  <2>6. ASSUME NEW i \in Item, NEW p \in 0 .. Len(m_Items), Insert(p, i) PROVE Goal
    <3>1. CASE Intact
      <4>1. MayEnter(i) /\ m_Name' = m_Name /\ condition' = condition /\ Intact'
        BY <2>6, <3>1 DEF Insert, Intact
      <4>2. Inv /\ Inv' /\ TypeOK
        BY <2>0, <3>1, <4>1 DEF Inv
      <4> QED
        BY <2>4, <2>6, <3>1, <4>1, <4>2, InsertArray, EntryIsInsert
    <3> QED
      BY <2>1, <2>6, <3>1 DEF Insert
  <2>7. ASSUME NEW p \in Index, RemoveItem(p) PROVE Goal
    <3>1. condition' = condition
      BY <2>7 DEF RemoveItem
    <3>2. CASE Intact
      <4>1. Inv /\ Inv'
        BY <2>0, <3>1, <3>2 DEF Intact
      <4> QED
        BY <2>4, <2>7, <3>2, <4>1, RemoveIsDelete
    <3> QED
      BY <2>1, <3>1, <3>2
  <2>8. ASSUME Clear PROVE Goal
    <3>1. Inv'
      BY <2>0, <2>8 DEF Clear, Intact
    <3> QED
      BY <2>4, <2>8, <3>1, ClearIsEmpty
  <2>9. ASSUME NEW from \in Index, NEW to \in 0 .. Len(m_Items), Move(from, to - from)
        PROVE  Goal
    <3>1. condition' = condition
      BY <2>9 DEF Move
    <3>2. CASE Intact
      <4>1. Inv /\ Inv'
        BY <2>0, <3>1, <3>2 DEF Intact
      <4>2. from \in 0 .. Len(m_Items) - 1 /\ to \in 0 .. Len(m_Items) - 1
        BY <2>0, <2>9, MoveIsInside
      <4> QED
        BY <2>4, <2>9, <3>2, <4>1, <4>2, MoveIsMove
    <3> QED
      BY <2>1, <3>1, <3>2
  <2>10. ASSUME NEW i \in Item, NEW szName \in Name, NEW moved \in BOOLEAN,
                SetName(i, szName, moved)
         PROVE  Goal
    <3>1. CASE Intact /\ Intact'
      <4>1. Abstract!Next \/ NamesInOrder' = NamesInOrder
        BY <2>0, <2>10, <3>1, RenameIsRename
      <4> QED
        BY <3>1, <4>1 DEF Goal, Listed, Intact
    <3>2. CASE Intact /\ ~Intact'
      BY <2>0, <2>4, <2>10, <3>2, RenameIsClash
    <3>3. CASE ~Intact
      <4>1. condition' = "undefined" \/ condition' = condition
        BY <2>0, <2>10, <3>3 DEF SetName, AfterRename, Intact, Base, TypeOK, Defined
      <4> QED
        BY <2>1, <2>3, <3>3, <4>1
    <3> QED
      BY <3>1, <3>2, <3>3
  <2>11. ASSUME NEW i \in Item, NEW szName \in Name, NEW moved \in BOOLEAN,
                SetNameOutside(i, szName, moved)
         PROVE  Goal
    <3>1. m_ItemsHash' = m_ItemsHash /\ (condition' = "undefined" \/ condition' = condition)
      BY <2>11 DEF SetNameOutside
    <3> QED
      BY <2>2, <2>3, <3>1
  <2>12. ASSUME NEW name \in Name, CallerFrees(name) PROVE Goal
    BY <2>3, <2>12 DEF CallerFrees
  <2>13. ASSUME UNCHANGED vars PROVE Goal
    BY <2>2, <2>13 DEF vars
  <2>14. Goal
    BY <2>5, <2>6, <2>7, <2>8, <2>9, <2>10, <2>11, <2>12, <2>13 DEF Next, Undefined
  <2> QED
    BY <2>14 DEF Goal
<1> QED
  BY <1>1, <1>2, Invariance, PTL DEF Spec, ImplementsNamedList, Abstract!Spec

=============================================================================
