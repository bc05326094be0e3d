-------------------------- MODULE ScriptObjectProofs --------------------------
(***************************************************************************)
(* Proofs about ScriptObject for every amount of memory, all headers and    *)
(* recipients, all classes and all hash functions: what a script does to    *)
(* the headers and the recipients by calling methods by name is what        *)
(* RequestHeaders promises.                                                 *)
(***************************************************************************)
EXTENDS ScriptObject, Induction, SequenceTheorems, FiniteSetTheorems

-----------------------------------------------------------------------------
(* Declarations, policies and table sizes *)

\* A list of declarations that is searched is a list.
LEMMA DeclaredFacts ==
  ASSUME NEW t \in Searched
  PROVE  /\ t[2] \in Class
         /\ Count[t] \in Nat /\ DOMAIN Declared[t] = 1 .. Count[t]
         /\ Number[t] = 0 .. Count[t] - 1
         /\ \A k \in 1 .. Count[t] : Spelled(Declared[t][k])
<1>1. t[1] \in {"methods", "properties"} /\ t[2] \in Class
  BY DEF Searched
<1>2. Declared[t] = IF t[1] = "methods" THEN endmeths[t[2]] ELSE endprops[t[2]]
  BY DEF Declared
<1>3. Count[t] = Len(Declared[t]) /\ Number[t] = 0 .. Count[t] - 1
  BY DEF Count, Number
<1>4. Declared[t] \in {endmeths[t[2]], endprops[t[2]]}
  BY <1>2
<1> QED
  BY <1>1, <1>3, <1>4, DeclarationsAreLists

\* Two declarations of a list have no name in common.
LEMMA DeclaredDistinct ==
  ASSUME NEW t \in Searched, NEW j \in 1 .. Count[t], NEW k \in 1 .. Count[t],
         NEW name, name \in Names(Declared[t][j]), name \in Names(Declared[t][k])
  PROVE  j = k
<1>1. Declared[t] \in {endmeths[t[2]], endprops[t[2]]} /\ t[2] \in Class
  BY DEF Declared, Searched
<1>2. j \in DOMAIN Declared[t] /\ k \in DOMAIN Declared[t]
  BY DeclaredFacts
<1> QED
  BY <1>1, <1>2, NamesDistinct

\* The search that is chosen for a list
LEMMA PolicyOf ==
  ASSUME NEW t \in Searched
  PROVE  /\ Count[t] = 0 => Policy[t] = "nofnd_pol"
         /\ Count[t] = 1 => Policy[t] = "onefnd_pol"
         /\ Count[t] \in 2 .. 3 => Policy[t] = "simplefnd_pol"
         /\ Count[t] > 3 => Policy[t] = "hashfnd_pol"
<1> DEFINE n == Count[t]
<1>1. Policy[t] = CASE n = 0        -> "nofnd_pol"
                    [] n = 1        -> "onefnd_pol"
                    [] n \in 2 .. 3 -> "simplefnd_pol"
                    [] n > 3        -> "hashfnd_pol"
  BY DEF Policy
<1>2. n \in Nat
  BY DeclaredFacts
<1> HIDE DEF n
<1>3. /\ n = 0 => ~(n = 1) /\ ~(n \in 2 .. 3) /\ ~(n > 3)
      /\ n = 1 => ~(n = 0) /\ ~(n \in 2 .. 3) /\ ~(n > 3)
      /\ n \in 2 .. 3 => ~(n = 0) /\ ~(n = 1) /\ ~(n > 3)
      /\ n > 3 => ~(n = 0) /\ ~(n = 1) /\ ~(n \in 2 .. 3)
  BY <1>2
<1>4. n = 0 => Policy[t] = "nofnd_pol"
  BY <1>1, <1>3, Zenon
<1>5. n = 1 => Policy[t] = "onefnd_pol"
  BY <1>1, <1>3, Zenon
<1>6. n \in 2 .. 3 => Policy[t] = "simplefnd_pol"
  BY <1>1, <1>3, Zenon
<1>7. n > 3 => Policy[t] = "hashfnd_pol"
  BY <1>1, <1>3, Zenon
<1> QED
  BY <1>4, <1>5, <1>6, <1>7 DEF n

\* What Find does, by the number of declarations
LEMMA FindOf ==
  ASSUME NEW t \in Searched, NEW name
  PROVE  /\ Count[t] = 0 => Find(t, name) = -1
         /\ Count[t] \in 1 .. 3 => Find(t, name) = simplefnd(t, name)
         /\ Count[t] > 3 => Find(t, name) = hashfnd(t, name)
<1>1. Count[t] \in Nat
  BY DeclaredFacts
<1>2. Policy[t] = "nofnd_pol" => Find(t, name) = -1
  BY Zenon DEF Find
<1>3. Policy[t] = "onefnd_pol" => Find(t, name) = simplefnd(t, name)
  BY Zenon DEF Find
<1>4. Policy[t] = "simplefnd_pol" => Find(t, name) = simplefnd(t, name)
  BY Zenon DEF Find
<1>5. Policy[t] = "hashfnd_pol" => Find(t, name) = hashfnd(t, name)
  BY Zenon DEF Find
<1>6. Count[t] \in 1 .. 3 => Count[t] = 1 \/ Count[t] \in 2 .. 3
  BY <1>1
<1> QED
  BY <1>2, <1>3, <1>4, <1>5, <1>6, PolicyOf

\* The lists with a hash table are those with more than three declarations.
LEMMA HashedOf ==
  ASSUME NEW t \in Searched
  PROVE  t \in Hashed <=> Count[t] > 3
<1>1. Count[t] \in Nat
  BY DeclaredFacts
<1>2. Count[t] = 0 \/ Count[t] = 1 \/ Count[t] \in 2 .. 3 \/ Count[t] > 3
  BY <1>1
<1>3. Count[t] > 3 => Policy[t] = "hashfnd_pol"
  BY PolicyOf
<1>4. Policy[t] = "hashfnd_pol" => Count[t] > 3
  BY <1>2, PolicyOf
<1> QED
  BY <1>3, <1>4 DEF Hashed

\* A table has a bucket for every hash value.
LEMMA BucketInTable ==
  ASSUME NEW t \in Searched
  PROVE  /\ HashSize[t] \in Nat /\ HashSize[t] > 0
         /\ \A h \in Nat : h % HashSize[t] \in 0 .. HashSize[t] - 1
<1> DEFINE n == 2 * Count[t]
<1>1. n \in Nat /\ HashSize[t] = hashsizes(n)
  BY DeclaredFacts DEF HashSize
<1> HIDE DEF n
<1>2. CASE n < 53
  <2> DEFINE P == {p \in {13, 19, 29, 37, 47, 53} : p >= n}
  <2>1. 53 \in P /\ P \subseteq Nat /\ \A p \in P : p > 0
    BY <1>1, <1>2
  <2>2. hashsizes(n) = Min(P)
    BY <1>2 DEF hashsizes
  <2> HIDE DEF P
  <2>3. Min(P) \in P
    BY <2>1, MinIsLeast
  <2>4. HashSize[t] \in Nat /\ HashSize[t] > 0
    BY <1>1, <2>1, <2>2, <2>3
  <2> QED
    BY <2>4
<1>3. CASE ~(n < 53)
  <2> DEFINE m == n + n \div 2
  <2>1. m \in Nat /\ m > 0
    BY <1>1, <1>3
  <2>2. hashsizes(n) = m + 1 \/ hashsizes(n) = m
    BY <1>3 DEF hashsizes
  <2> HIDE DEF m
  <2>3. HashSize[t] \in Nat /\ HashSize[t] > 0
    BY <1>1, <2>1, <2>2
  <2> QED
    BY <2>3
<1> QED
  BY <1>2, <1>3

-----------------------------------------------------------------------------
(* The tables *)

\* The entries of a chain
Entry == [hash : Nat, strKey : {Lower[s] : s \in Spelling}, pos : Nat]
EntryOf(name, pos) ==
  [hash |-> hash[Lower[name]], strKey |-> Lower[name], pos |-> pos]

Tables(t) == [0 .. HashSize[t] - 1 -> Seq(Entry)]

\* The entries of a table belong to declarations behind from.
OnlyDeclared(t, table, from) ==
  \A p \in 0 .. HashSize[t] - 1 : \A e \in Range(table[p]) :
    \E k \in 1 .. Count[t] :
      k > from /\ e.pos = k - 1 /\ e.strKey \in Names(Declared[t][k])

\* Both names of every declaration behind from are in the chain where hashfnd
\* looks for them.
AllDeclared(t, table, from) ==
  \A k \in 1 .. Count[t] : k > from =>
    \A name \in Names(Declared[t][k]) :
      \E e \in Range(table[hash[name] % HashSize[t]]) :
        e.strKey = name /\ e.hash = hash[name]

Filled(t, table, from) ==
  table \in Tables(t) /\ OnlyDeclared(t, table, from) /\ AllDeclared(t, table, from)

\* Insert puts an entry in front of a chain.
LEMMA ConsEntries ==
  ASSUME NEW S, NEW s \in Seq(S), NEW e \in S
  PROVE  <<e>> \o s \in Seq(S) /\ Range(<<e>> \o s) = {e} \cup Range(s)
<1> DEFINE b == <<e>>
           c == b \o s
<1>1. b \in Seq(S) /\ Len(b) = 1 /\ b[1] = e
  OBVIOUS
<1> HIDE DEF b
<1>2. /\ c \in Seq(S) /\ Len(c) = 1 + Len(s)
      /\ \A k \in 1 .. Len(b) + Len(s) : c[k] = IF k <= Len(b) THEN b[k] ELSE s[k - Len(b)]
  BY <1>1, ConcatProperties, ZenonT(60)
<1> HIDE DEF c
<1>3. DOMAIN c = 1 .. Len(c) /\ DOMAIN s = 1 .. Len(s) /\ Len(s) \in Nat
  BY <1>2, LenProperties
<1>4. \A k \in 1 .. 1 + Len(s) : c[k] = IF k <= 1 THEN e ELSE s[k - 1]
  BY <1>1, <1>2, <1>3
<1>5. Range(c) \subseteq {e} \cup Range(s)
  <2> SUFFICES ASSUME NEW k \in 1 .. 1 + Len(s) PROVE c[k] \in {e} \cup Range(s)
    BY <1>2, <1>3 DEF Range
  <2>1. CASE k <= 1
    BY <1>4, <2>1
  <2>2. CASE ~(k <= 1)
    <3>1. k - 1 \in DOMAIN s /\ c[k] = s[k - 1]
      BY <1>3, <1>4, <2>2
    <3> QED
      BY <3>1 DEF Range
  <2> QED
    BY <2>1, <2>2
<1>6. e \in Range(c)
  <2>1. c[1] = e /\ 1 \in DOMAIN c
    BY <1>2, <1>3, <1>4
  <2> QED
    BY <2>1 DEF Range
<1>7. Range(s) \subseteq Range(c)
  <2> SUFFICES ASSUME NEW k \in 1 .. Len(s) PROVE s[k] \in Range(c)
    BY <1>3 DEF Range
  <2> DEFINE j == k + 1
  <2>1. j \in 1 .. 1 + Len(s) /\ ~(j <= 1) /\ j - 1 = k
    BY <1>3
  <2> HIDE DEF j
  <2>2. c[j] = s[k] /\ j \in DOMAIN c
    BY <1>2, <1>3, <1>4, <2>1
  <2> QED
    BY <2>2 DEF Range
<1> QED
  BY <1>2, <1>5, <1>6, <1>7 DEF c, b

\* What Insert does to a table: one chain gets one more entry in front.
LEMMA InsertedShape ==
  ASSUME hash \in HashFunction, NEW t \in Searched, NEW table \in Tables(t),
         NEW name \in Spelling, NEW pos \in Nat
  PROVE  /\ GetHash(t, name) \in 0 .. HashSize[t] - 1
         /\ EntryOf(name, pos) \in Entry
         /\ Inserted(t, table, name, pos) =
              [table EXCEPT ![GetHash(t, name)] =
                 <<EntryOf(name, pos)>> \o table[GetHash(t, name)]]
<1>1. hash[Lower[name]] \in Nat
  BY HashesAreNumbers
<1>2. GetHash(t, name) \in 0 .. HashSize[t] - 1
  BY <1>1, BucketInTable DEF GetHash
<1>3. EntryOf(name, pos) \in Entry
  BY <1>1 DEF EntryOf, Entry
<1> QED
  BY <1>2, <1>3 DEF Inserted, EntryOf

\* The result is a table again.
LEMMA InsertedInTables ==
  ASSUME hash \in HashFunction, NEW t \in Searched, NEW table \in Tables(t),
         NEW name \in Spelling, NEW pos \in Nat
  PROVE  Inserted(t, table, name, pos) \in Tables(t)
<1> DEFINE b == GetHash(t, name)
           e == EntryOf(name, pos)
           new == <<e>> \o table[b]
<1>1. /\ b \in 0 .. HashSize[t] - 1 /\ e \in Entry
      /\ Inserted(t, table, name, pos) = [table EXCEPT ![b] = new]
  BY InsertedShape
<1>2. table[b] \in Seq(Entry)
  BY <1>1 DEF Tables
<1> HIDE DEF b, e
<1>3. new \in Seq(Entry)
  BY <1>1, <1>2, ConsEntries
<1> HIDE DEF new
<1> QED
  BY <1>1, <1>3 DEF Tables

\* The entries of the chains afterwards
LEMMA InsertedEntries ==
  ASSUME hash \in HashFunction, NEW t \in Searched, NEW table \in Tables(t),
         NEW name \in Spelling, NEW pos \in Nat
  PROVE  \A p \in 0 .. HashSize[t] - 1 : \A x :
           x \in Range(Inserted(t, table, name, pos)[p]) <=>
             x \in Range(table[p]) \/ (p = GetHash(t, name) /\ x = EntryOf(name, pos))
<1> DEFINE b == GetHash(t, name)
           e == EntryOf(name, pos)
           new == <<e>> \o table[b]
<1>1. /\ b \in 0 .. HashSize[t] - 1 /\ e \in Entry
      /\ Inserted(t, table, name, pos) = [table EXCEPT ![b] = new]
  BY InsertedShape
<1>2. table[b] \in Seq(Entry)
  BY <1>1 DEF Tables
<1> HIDE DEF b, e
<1>3. Range(new) = {e} \cup Range(table[b])
  BY <1>1, <1>2, ConsEntries
<1> HIDE DEF new
<1>4. \A p \in 0 .. HashSize[t] - 1 :
        [table EXCEPT ![b] = new][p] = IF p = b THEN new ELSE table[p]
  BY <1>1 DEF Tables
<1>5. ASSUME NEW p \in 0 .. HashSize[t] - 1, NEW x
      PROVE  x \in Range([table EXCEPT ![b] = new][p]) <=>
               x \in Range(table[p]) \/ (p = b /\ x = e)
  <2>1. CASE p = b
    BY <1>3, <1>4, <2>1
  <2>2. CASE p # b
    <3>1. [table EXCEPT ![b] = new][p] = table[p]
      BY <1>4, <2>2
    <3> QED
      BY <2>2, <3>1
  <2> QED
    BY <2>1, <2>2
<1> QED
  BY <1>1, <1>5 DEF b, e

\* An empty table has all declarations behind the last one.
LEMMA EmptyIsFilled ==
  ASSUME NEW t \in Searched
  PROVE  Filled(t, EmptyTable(t), Count[t])
<1>1. EmptyTable(t) \in Tables(t)
  BY EmptySeq DEF EmptyTable, Tables
<1>2. ASSUME NEW p \in 0 .. HashSize[t] - 1 PROVE Range(EmptyTable(t)[p]) = {}
  BY DEF EmptyTable, Range
<1>3. OnlyDeclared(t, EmptyTable(t), Count[t])
  BY <1>2 DEF OnlyDeclared
<1>4. AllDeclared(t, EmptyTable(t), Count[t])
  BY DeclaredFacts DEF AllDeclared
<1> QED
  BY <1>1, <1>3, <1>4 DEF Filled

\* AddNames enters one more declaration, the one in front of the last entered.
LEMMA AddedIsFilled ==
  ASSUME hash \in HashFunction, NEW t \in Searched, NEW j \in 1 .. Count[t],
         NEW table, Filled(t, table, j)
  PROVE  Filled(t, Inserted(t, Inserted(t, table, Declared[t][j].rus, j - 1),
                            Declared[t][j].eng, j - 1), j - 1)
<1> DEFINE rus == Declared[t][j].rus
           eng == Declared[t][j].eng
           one == Inserted(t, table, rus, j - 1)
           two == Inserted(t, one, eng, j - 1)
           r == GetHash(t, rus)
           g == GetHash(t, eng)
           pos == j - 1
<1>1. Count[t] \in Nat /\ j \in Nat /\ j - 1 \in Nat /\ j - 1 + 1 = j
  BY DeclaredFacts
<1>2. rus \in Spelling /\ eng \in Spelling
  BY DeclaredFacts DEF Spelled
<1>3. Names(Declared[t][j]) = {Lower[rus], Lower[eng]}
  BY DEF Names
<1>4. table \in Tables(t) /\ OnlyDeclared(t, table, j) /\ AllDeclared(t, table, j)
  BY DEF Filled
<1> HIDE DEF rus, eng, pos
<1>5. /\ one \in Tables(t) /\ r \in 0 .. HashSize[t] - 1
      /\ \A p \in 0 .. HashSize[t] - 1 : \A x :
           x \in Range(one[p]) <=>
             x \in Range(table[p]) \/ (p = r /\ x = EntryOf(rus, pos))
  <2>1. pos \in Nat
    BY <1>1 DEF pos
  <2>2. one = Inserted(t, table, rus, pos)
    BY DEF pos
  <2>3. table \in Tables(t) /\ rus \in Spelling
    BY <1>2, <1>4
  <2> HIDE DEF one
  <2>4. Inserted(t, table, rus, pos) \in Tables(t)
    BY <2>1, <2>3, InsertedInTables
  <2>5. GetHash(t, rus) \in 0 .. HashSize[t] - 1
    BY <2>1, <2>3, InsertedShape
  <2>6. \A p \in 0 .. HashSize[t] - 1 : \A x :
          x \in Range(Inserted(t, table, rus, pos)[p]) <=>
            x \in Range(table[p]) \/ (p = GetHash(t, rus) /\ x = EntryOf(rus, pos))
    BY <2>1, <2>3, InsertedEntries
  <2> QED
    BY <2>2, <2>4, <2>5, <2>6
<1> HIDE DEF one
<1>6. /\ two \in Tables(t) /\ g \in 0 .. HashSize[t] - 1
      /\ \A p \in 0 .. HashSize[t] - 1 : \A x :
           x \in Range(two[p]) <=>
             x \in Range(one[p]) \/ (p = g /\ x = EntryOf(eng, pos))
  <2>1. pos \in Nat
    BY <1>1 DEF pos
  <2>2. two = Inserted(t, one, eng, pos)
    BY DEF pos
  <2>3. one \in Tables(t) /\ eng \in Spelling
    BY <1>2, <1>5
  <2> HIDE DEF two
  <2>4. Inserted(t, one, eng, pos) \in Tables(t)
    BY <2>1, <2>3, InsertedInTables
  <2>5. GetHash(t, eng) \in 0 .. HashSize[t] - 1
    BY <2>1, <2>3, InsertedShape
  <2>6. \A p \in 0 .. HashSize[t] - 1 : \A x :
          x \in Range(Inserted(t, one, eng, pos)[p]) <=>
            x \in Range(one[p]) \/ (p = GetHash(t, eng) /\ x = EntryOf(eng, pos))
    BY <2>1, <2>3, InsertedEntries
  <2> QED
    BY <2>2, <2>4, <2>5, <2>6
<1> HIDE DEF two, r, g
<1>7. ASSUME NEW p \in 0 .. HashSize[t] - 1
      PROVE  /\ Range(table[p]) \subseteq Range(two[p])
             /\ p = r => EntryOf(rus, pos) \in Range(two[p])
             /\ p = g => EntryOf(eng, pos) \in Range(two[p])
             /\ \A e \in Range(two[p]) : \/ e \in Range(table[p])
                                         \/ e = EntryOf(rus, pos)
                                         \/ e = EntryOf(eng, pos)
  BY <1>5, <1>6
<1>8. OnlyDeclared(t, two, j - 1)
  <2> SUFFICES ASSUME NEW p \in 0 .. HashSize[t] - 1, NEW e \in Range(two[p])
               PROVE  \E k \in 1 .. Count[t] :
                        k > j - 1 /\ e.pos = k - 1 /\ e.strKey \in Names(Declared[t][k])
    BY DEF OnlyDeclared
  <2>1. CASE e \in Range(table[p])
    <3>1. PICK k \in 1 .. Count[t] :
            k > j /\ e.pos = k - 1 /\ e.strKey \in Names(Declared[t][k])
      BY <1>4, <2>1 DEF OnlyDeclared
    <3>2. k > j - 1
      BY <1>1, <3>1
    <3> QED
      BY <3>1, <3>2
  <2>2. CASE e = EntryOf(rus, pos) \/ e = EntryOf(eng, pos)
    <3>1. e.pos = j - 1 /\ e.strKey \in Names(Declared[t][j])
      BY <1>3, <2>2 DEF EntryOf, pos
    <3>2. j > j - 1
      BY <1>1
    <3> QED
      BY <3>1, <3>2
  <2> QED
    BY <1>7, <2>1, <2>2
<1>9. AllDeclared(t, two, j - 1)
  <2> SUFFICES ASSUME NEW k \in 1 .. Count[t], k > j - 1,
                      NEW name \in Names(Declared[t][k])
               PROVE  \E e \in Range(two[hash[name] % HashSize[t]]) :
                        e.strKey = name /\ e.hash = hash[name]
    BY DEF AllDeclared
  <2>1. hash[name] % HashSize[t] \in 0 .. HashSize[t] - 1
    <3>1. \E s \in Spelling : name = Lower[s]
      BY DeclaredFacts DEF Names, Spelled
    <3> QED
      BY <3>1, HashesAreNumbers, BucketInTable
  <2>2. CASE k > j
    <3>1. PICK e \in Range(table[hash[name] % HashSize[t]]) :
            e.strKey = name /\ e.hash = hash[name]
      BY <1>4, <2>2 DEF AllDeclared
    <3> QED
      BY <1>7, <2>1, <3>1
  <2>3. CASE k = j
    <3>1. name = Lower[rus] \/ name = Lower[eng]
      BY <1>3, <2>3
    <3>2. CASE name = Lower[rus]
      <4>1. EntryOf(rus, pos) \in Range(two[r])
        BY <1>5, <1>7
      <4> QED
        BY <3>2, <4>1 DEF EntryOf, GetHash, r
    <3>3. CASE name = Lower[eng]
      <4>1. EntryOf(eng, pos) \in Range(two[g])
        BY <1>6, <1>7
      <4> QED
        BY <3>3, <4>1 DEF EntryOf, GetHash, g
    <3> QED
      BY <3>1, <3>2, <3>3
  <2> QED
    BY <1>1, <2>2, <2>3
<1> QED
  BY <1>6, <1>8, <1>9 DEF Filled, two, one, rus, eng

-----------------------------------------------------------------------------
(* The search *)

\* What a script means by a name: the declaration that has it, and there is at
\* most one.
LEMMA MeantFacts ==
  ASSUME NEW t \in Searched, NEW name \in Spelling
  PROVE  /\ Meant[t][name] \in 0 .. Count[t]
         /\ Meant[t][name] # 0 => Lower[name] \in Names(Declared[t][Meant[t][name]])
         /\ \A k \in 1 .. Count[t] :
              Lower[name] \in Names(Declared[t][k]) => Meant[t][name] = k
<1> DEFINE ks == {k \in 1 .. Count[t] : Lower[name] \in Names(Declared[t][k])}
<1>1. Meant[t][name] = IF ks = {} THEN 0 ELSE CHOOSE k \in ks : TRUE
  BY DEF Meant
<1>2. Count[t] \in Nat
  BY DeclaredFacts
<1>3. CASE ks = {}
  BY <1>1, <1>2, <1>3
<1>4. CASE ks # {}
  <2>1. Meant[t][name] \in ks
    BY <1>1, <1>4
  <2>2. Meant[t][name] \in 1 .. Count[t]
    BY <2>1
  <2>3. Lower[name] \in Names(Declared[t][Meant[t][name]])
    BY <2>1
  <2> HIDE DEF ks
  <2>4. ASSUME NEW k \in 1 .. Count[t], Lower[name] \in Names(Declared[t][k])
        PROVE  Meant[t][name] = k
    BY <2>2, <2>3, <2>4, DeclaredDistinct
  <2> QED
    BY <1>2, <2>2, <2>3, <2>4
<1> QED
  BY <1>3, <1>4

\* The searches without a table find the declaration.
LEMMA SimpleFinds ==
  ASSUME NEW t \in Searched, NEW name \in Spelling
  PROVE  simplefnd(t, name) = Meant[t][name] - 1
<1> DEFINE m == Meant[t][name]
           hits == {n \in Number[t] : Lower[name] \in Names(Declared[t][n + 1])}
<1>1. /\ m \in 0 .. Count[t] /\ (m # 0 => Lower[name] \in Names(Declared[t][m]))
      /\ \A k \in 1 .. Count[t] : Lower[name] \in Names(Declared[t][k]) => m = k
  BY MeantFacts
<1>2. Count[t] \in Nat /\ Number[t] = 0 .. Count[t] - 1
  BY DeclaredFacts
<1>3. simplefnd(t, name) = Max({-1} \cup hits)
  BY DEF simplefnd
<1>4. \A n \in hits : n = m - 1
  BY <1>1, <1>2
<1>5. m # 0 => m - 1 \in hits
  <2> SUFFICES ASSUME m # 0 PROVE m - 1 \in hits
    OBVIOUS
  <2>1. m - 1 \in Number[t] /\ m - 1 + 1 = m
    BY <1>1, <1>2
  <2>2. Lower[name] \in Names(Declared[t][m - 1 + 1])
    BY <1>1, <2>1
  <2> QED
    BY <2>1, <2>2
<1>6. m = 0 => hits = {}
  <2> SUFFICES ASSUME m = 0, NEW n \in hits PROVE FALSE
    OBVIOUS
  <2>1. n \in 0 .. Count[t] - 1 /\ n = m - 1
    BY <1>2, <1>4
  <2> QED
    BY <1>2, <2>1
<1> HIDE DEF m, hits
<1>7. m - 1 \in {-1} \cup hits /\ \A n \in {-1} \cup hits : m - 1 >= n /\ n \in Int
  BY <1>1, <1>2, <1>4, <1>5, <1>6
<1> DEFINE S == {-1} \cup hits
<1>8. m - 1 \in S /\ m - 1 \in Int /\ \A n \in S : m - 1 >= n /\ n \in Int
  BY <1>1, <1>2, <1>7
<1> HIDE DEF S
<1>9. Max(S) = m - 1
  <2>1. Max(S) \in S /\ \A n \in S : Max(S) >= n
    BY <1>8 DEF Max
  <2>2. Max(S) >= m - 1 /\ m - 1 >= Max(S) /\ Max(S) \in Int
    BY <1>8, <2>1
  <2> QED
    BY <1>8, <2>2
<1> QED
  BY <1>3, <1>9 DEF S, m

\* The search in a table finds the declaration if it has been entered, however
\* the hashes collide.
LEMMA HashFinds ==
  ASSUME hash \in HashFunction, NEW t \in Searched, NEW name \in Spelling,
         NEW from \in Nat, Filled(t, ppHashTable[t], from)
  PROVE  hashfnd(t, name) = IF Meant[t][name] > from THEN Meant[t][name] - 1 ELSE -1
<1> DEFINE m == Meant[t][name]
           p == GetHash(t, name)
           chain == ppHashTable[t][p]
           hits == {k \in DOMAIN chain : /\ chain[k].hash = hash[Lower[name]]
                                         /\ chain[k].strKey = Lower[name]}
<1>1. /\ m \in 0 .. Count[t] /\ (m # 0 => Lower[name] \in Names(Declared[t][m]))
      /\ \A k \in 1 .. Count[t] : Lower[name] \in Names(Declared[t][k]) => m = k
  BY MeantFacts
<1>2. p \in 0 .. HashSize[t] - 1
  BY HashesAreNumbers, BucketInTable DEF GetHash
<1>3. /\ ppHashTable[t] \in Tables(t) /\ OnlyDeclared(t, ppHashTable[t], from)
      /\ AllDeclared(t, ppHashTable[t], from)
  BY DEF Filled
<1>4. chain \in Seq(Entry)
  BY <1>2, <1>3 DEF Tables
<1>5. DOMAIN chain \subseteq Nat
  BY <1>4, LenProperties
<1>6. hashfnd(t, name) = IF hits = {} THEN -1 ELSE chain[Min(hits)].pos
  BY DEF hashfnd
<1>7. ASSUME NEW k \in hits PROVE m > from /\ chain[k].pos = m - 1
  <2>1. chain[k] \in Range(chain) /\ chain[k].strKey = Lower[name]
    BY DEF Range
  <2>2. PICK d \in 1 .. Count[t] :
          /\ d > from /\ chain[k].pos = d - 1
          /\ chain[k].strKey \in Names(Declared[t][d])
    BY <1>2, <1>3, <2>1 DEF OnlyDeclared
  <2> QED
    BY <1>1, <2>1, <2>2
<1>8. ASSUME m > from PROVE hits # {}
  <2>1. m \in 1 .. Count[t]
    BY <1>1, <1>8, DeclaredFacts
  <2>2. PICK e \in Range(ppHashTable[t][hash[Lower[name]] % HashSize[t]]) :
          e.strKey = Lower[name] /\ e.hash = hash[Lower[name]]
    BY <1>1, <1>3, <1>8, <2>1 DEF AllDeclared
  <2>3. e \in Range(chain)
    BY <2>2 DEF GetHash
  <2>4. PICK k \in DOMAIN chain : chain[k] = e
    BY <2>3 DEF Range
  <2> QED
    BY <2>2, <2>4
<1>9. hits \subseteq Nat
  BY <1>5
<1> HIDE DEF m, chain, hits
<1>10. CASE hits = {}
  BY <1>6, <1>8, <1>10 DEF m
<1>11. CASE hits # {}
  <2>1. Min(hits) \in hits
    BY <1>9, <1>11, MinIsLeast
  <2> QED
    BY <1>6, <1>7, <1>11, <2>1 DEF m
<1> QED
  BY <1>10, <1>11

-----------------------------------------------------------------------------
(* The inductive invariant of the tables and the steps that change them *)

\* The tables are filled from the last declaration to the first.
DispatchInv ==
  /\ hash \in HashFunction
  /\ DOMAIN toInsert = Hashed /\ DOMAIN ppHashTable = Hashed
  /\ \A t \in Hashed :
       /\ toInsert[t] \in -1 .. Count[t]
       /\ toInsert[t] >= 0 => Filled(t, ppHashTable[t], toInsert[t])

\* Before the first object there are no tables.
LEMMA DispatchInitInv ==
  ASSUME DispatchInit
  PROVE  DispatchInv
<1>1. ASSUME NEW t \in Hashed PROVE toInsert[t] = -1 /\ Count[t] \in Nat
  BY DeclaredFacts DEF DispatchInit, Hashed
<1> QED
  BY <1>1 DEF DispatchInit, DispatchInv

\* The constructor of the first object makes empty tables.
LEMMA FirstObjectInv ==
  ASSUME DispatchInv, OnInitFirstObject
  PROVE  DispatchInv'
<1>1. ASSUME NEW t \in Hashed
      PROVE  /\ toInsert'[t] = Count[t] /\ Count[t] \in Nat
             /\ ppHashTable'[t] = EmptyTable(t) /\ t \in Searched
  BY DeclaredFacts DEF OnInitFirstObject, Hashed
<1>2. ASSUME NEW t \in Hashed PROVE Filled(t, EmptyTable(t), Count[t])
  BY <1>1, EmptyIsFilled
<1> QED
  BY <1>1, <1>2 DEF OnInitFirstObject, DispatchInv, Filled, OnlyDeclared, AllDeclared

\* AddNames enters the next declaration into one table.
LEMMA AddNamesInv ==
  ASSUME DispatchInv, NEW t \in Hashed, AddNames(t)
  PROVE  DispatchInv'
<1> DEFINE j == toInsert[t]
           new == Inserted(t, Inserted(t, ppHashTable[t], Declared[t][j].rus, j - 1),
                           Declared[t][j].eng, j - 1)
<1>1. /\ t \in Searched /\ j \in 1 .. Count[t] /\ Count[t] \in Nat
      /\ Filled(t, ppHashTable[t], j) /\ hash \in HashFunction
  <2>1. t \in Searched
    BY DEF Hashed
  <2> QED
    BY <2>1, DeclaredFacts DEF DispatchInv, AddNames
<1>2. Filled(t, new, j - 1)
  <2> DEFINE i == toInsert[t]
             tb == ppHashTable[t]
  <2>1. i \in 1 .. Count[t] /\ Filled(t, tb, i)
    BY <1>1
  <2>2. new = Inserted(t, Inserted(t, tb, Declared[t][i].rus, i - 1),
                       Declared[t][i].eng, i - 1) /\ i - 1 = j - 1
    OBVIOUS
  <2> HIDE DEF i, tb, new, j
  <2> QED
    BY <1>1, <2>1, <2>2, AddedIsFilled
<1>3. /\ ppHashTable' = [ppHashTable EXCEPT ![t] = new]
      /\ toInsert' = [toInsert EXCEPT ![t] = j - 1] /\ hash' = hash
  BY DEF AddNames
<1> HIDE DEF new
<1>4. ASSUME NEW u \in Hashed
      PROVE  /\ toInsert'[u] \in -1 .. Count[u]
             /\ toInsert'[u] >= 0 => Filled(u, ppHashTable'[u], toInsert'[u])
  <2>1. CASE u = t
    <3>1. toInsert'[u] = j - 1 /\ ppHashTable'[u] = new
      BY <1>3, <2>1 DEF DispatchInv
    <3> QED
      BY <1>1, <1>2, <2>1, <3>1
  <2>2. CASE u # t
    BY <1>3, <2>2 DEF DispatchInv
  <2> QED
    BY <2>1, <2>2
<1> QED
  BY <1>3, <1>4 DEF DispatchInv, Filled, OnlyDeclared, AllDeclared

-----------------------------------------------------------------------------
(* What the invariant says *)

\* The type invariant follows.
LEMMA InvTyped ==
  ASSUME DispatchInv
  PROVE  DispatchTypeOK
BY DEF DispatchInv, DispatchTypeOK, Filled, Tables

\* A name leads to the declaration that has it, as soon as that is entered.
LEMMA InvFinds ==
  ASSUME DispatchInv
  PROVE  NameFindsDeclaration
<1> SUFFICES ASSUME NEW t \in Searched, EnteredFrom(t) >= 0, NEW name \in Spelling
             PROVE  Find(t, name) = IF Meant[t][name] > EnteredFrom(t)
                                    THEN Meant[t][name] - 1 ELSE -1
  BY DEF NameFindsDeclaration
<1> DEFINE m == Meant[t][name]
<1>1. m \in 0 .. Count[t] /\ Count[t] \in Nat
  BY MeantFacts, DeclaredFacts
<1>2. CASE Count[t] > 3
  <2>1. t \in Hashed
    BY <1>2, HashedOf
  <2>2. EnteredFrom(t) = toInsert[t] /\ toInsert[t] \in Nat
    BY <1>1, <2>1 DEF EnteredFrom, DispatchInv
  <2>3. hash \in HashFunction /\ Filled(t, ppHashTable[t], toInsert[t])
    BY <2>1, <2>2 DEF DispatchInv
  <2>4. Find(t, name) = hashfnd(t, name)
    BY <1>2, FindOf
  <2> DEFINE from == toInsert[t]
  <2>5. from \in Nat /\ Filled(t, ppHashTable[t], from)
    BY <2>2, <2>3
  <2> HIDE DEF from
  <2>6. hashfnd(t, name) = IF m > from THEN m - 1 ELSE -1
    BY <2>3, <2>5, HashFinds
  <2> QED
    BY <2>2, <2>4, <2>6 DEF from
<1>3. CASE ~(Count[t] > 3)
  <2>1. EnteredFrom(t) = 0
    BY <1>3, HashedOf DEF EnteredFrom
  <2>2. Find(t, name) = m - 1
    <3>1. CASE Count[t] = 0
      <4>1. Find(t, name) = -1
        BY <3>1, FindOf
      <4> QED
        BY <1>1, <3>1, <4>1
    <3>2. CASE Count[t] \in 1 .. 3
      <4>1. Find(t, name) = simplefnd(t, name)
        BY <3>2, FindOf
      <4> QED
        BY <4>1, SimpleFinds
    <3> QED
      BY <1>1, <1>3, <3>1, <3>2
  <2> QED
    BY <1>1, <2>1, <2>2
<1> QED
  BY <1>2, <1>3

\* When the tables are complete, the name of a declaration leads to its number.
LEMMA NameToNumber ==
  ASSUME DispatchInv, NEW t \in Searched, EnteredFrom(t) = 0,
         NEW k \in 1 .. Count[t], NEW name \in Spelling,
         Lower[name] \in Names(Declared[t][k])
  PROVE  Find(t, name) = k - 1
<1>1. Meant[t][name] = k
  BY MeantFacts
<1>2. Find(t, name) = IF Meant[t][name] > EnteredFrom(t) THEN Meant[t][name] - 1 ELSE -1
  BY InvFinds DEF NameFindsDeclaration
<1>3. k > 0
  BY DeclaredFacts
<1> QED
  BY <1>1, <1>2, <1>3

\* Functions and procedures are told apart, whichever kind is enumerated, and
\* a method runs when it is called as what it is.
LEMMA CalledAsDeclared ==
  ASSUME NEW cls \in Class, NEW k \in 1 .. Len(endmeths[cls])
  PROVE  /\ HasRetVal(cls, k - 1) <=> endmeths[cls][k].IsFunc
         /\ Called(cls, k - 1, HasRetVal(cls, k - 1)) = k - 1
         /\ Called(cls, k - 1, ~HasRetVal(cls, k - 1)) = -1
<1> DEFINE t == <<"methods", cls>>
           n == k - 1
<1>1. t \in Searched /\ Declared[t] = endmeths[cls] /\ Count[t] = Len(endmeths[cls])
  <2>1. t \in Searched
    BY DEF Searched
  <2> QED
    BY <2>1 DEF Declared, Count
<1>2. Count[t] \in Nat /\ Number[t] = 0 .. Count[t] - 1
  BY <1>1, DeclaredFacts
<1>3. n \in Number[t] /\ n + 1 = k
  BY <1>1, <1>2
<1>4. endmeths[cls][k].IsFunc \in BOOLEAN
  BY MethodsAreTyped, DeclarationsAreLists
<1>5. n \in Func[cls] <=> endmeths[cls][k].IsFunc
  BY <1>3, <1>4 DEF Func
<1>6. n \in Proc[cls] <=> ~(n \in Func[cls])
  BY <1>3 DEF Proc
<1> HIDE DEF n, t
<1>7. HasRetVal(cls, n) <=> n \in Func[cls]
  BY <1>6 DEF HasRetVal
<1>8. HasRetVal(cls, n) <=> endmeths[cls][k].IsFunc
  BY <1>5, <1>7
<1>9. Called(cls, n, HasRetVal(cls, n)) = n
  BY <1>6, <1>7 DEF Called
<1>10. Called(cls, n, ~HasRetVal(cls, n)) = -1
  BY <1>6, <1>7 DEF Called
<1> QED
  BY <1>8, <1>9, <1>10 DEF n

\* The number of parameters is the declared one, also when it is the same for
\* all methods of the class and given for every number.
LEMMA ParametersAsDeclared ==
  ASSUME NEW cls \in Class, NEW k \in 1 .. Len(endmeths[cls])
  PROVE  GetNParams(cls, k - 1) = endmeths[cls][k].nParam
<1> DEFINE t == <<"methods", cls>>
           n == k - 1
           N == Len(endmeths[cls])
           np == {d.nParam : d \in ToSet(endmeths[cls])}
           f == [j \in 1 .. N |-> endmeths[cls][j].nParam]
<1>1. N \in Nat /\ DOMAIN endmeths[cls] = 1 .. N
  BY DeclarationsAreLists
<1>2. \A j \in 1 .. N : endmeths[cls][j].nParam \in Nat
  BY <1>1, MethodsAreTyped
<1>3. np = {endmeths[cls][j].nParam : j \in 1 .. N}
  BY <1>1 DEF ToSet
<1>4. IsFiniteSet(np)
  <2>1. f \in Surjection(1 .. N, np)
    BY <1>3 DEF Surjection
  <2>2. IsFiniteSet(1 .. N)
    BY <1>1, FS_Interval
  <2> HIDE DEF f, np
  <2> QED
    BY <2>1, <2>2, FS_Surjection
<1>5. endmeths[cls][k].nParam \in np /\ np \subseteq Nat
  BY <1>2, <1>3
<1>6. t \in Searched /\ Number[t] = 0 .. N - 1
  <2>1. t \in Searched
    BY DEF Searched
  <2>2. Declared[t] = endmeths[cls] /\ Count[t] = N
    BY <2>1 DEF Declared, Count
  <2> QED
    BY <2>1, <2>2, DeclaredFacts
<1>7. n \in Number[t] /\ n + 1 = k
  BY <1>1, <1>6
<1>8. np # {}
  BY <1>5
<1>9. CommonParams(cls) = IF Cardinality(np) = 1 THEN CHOOSE x \in np : TRUE ELSE -1
  <2>1. CommonParams(cls) = CASE np = {} -> 0
                              [] Cardinality(np) = 1 -> CHOOSE x \in np : TRUE
                              [] OTHER -> -1
    BY DEF CommonParams
  <2> HIDE DEF np
  <2> QED
    BY <1>8, <2>1, Zenon
<1>10. CASE Cardinality(np) = 1
  <2>1. PICK x : np = {x}
    <3> HIDE DEF np
    <3> QED
      BY <1>4, <1>10, FS_Singleton
  <2>2. CommonParams(cls) = endmeths[cls][k].nParam
    <3> HIDE DEF np
    <3> QED
      BY <1>5, <1>9, <1>10, <2>1
  <2>3. CommonParams(cls) # -1
    BY <1>2, <2>2
  <2> QED
    BY <2>2, <2>3 DEF GetNParams
<1>11. CASE Cardinality(np) # 1
  <2>1. CommonParams(cls) = -1
    BY <1>9, <1>11
  <2> QED
    BY <1>7, <2>1 DEF GetNParams
<1> QED
  BY <1>10, <1>11

\* A property can be read and written as declared.
LEMMA AccessAsDeclared ==
  ASSUME NEW cls \in Class, NEW k \in 1 .. Len(endprops[cls])
  PROVE  /\ IsPropReadable(cls, k - 1) <=> endprops[cls][k].IsRead
         /\ IsPropWritable(cls, k - 1) <=> endprops[cls][k].IsWrite
<1> DEFINE t == <<"properties", cls>>
           n == k - 1
<1>1. t \in Searched /\ Declared[t] = endprops[cls] /\ Count[t] = Len(endprops[cls])
  <2>1. t \in Searched /\ t[1] # "methods"
    BY DEF Searched
  <2> QED
    BY <2>1 DEF Declared, Count
<1>2. Count[t] \in Nat /\ Number[t] = 0 .. Count[t] - 1
  BY <1>1, DeclaredFacts
<1>3. n \in Number[t] /\ n + 1 = k
  BY <1>1, <1>2
<1>4. endprops[cls][k].IsRead \in BOOLEAN /\ endprops[cls][k].IsWrite \in BOOLEAN
  BY PropertiesAreTyped, DeclarationsAreLists
<1>5. n \in Readable[cls] <=> endprops[cls][k].IsRead
  BY <1>3, <1>4 DEF Readable
<1>6. n \in Writable[cls] <=> endprops[cls][k].IsWrite
  BY <1>3, <1>4 DEF Writable
<1>7. IsPropReadable(cls, n) <=> n \in Readable[cls]
  BY <1>3 DEF IsPropReadable, MinorityAnswer
<1>8. IsPropWritable(cls, n) <=> n \in Writable[cls]
  BY <1>3 DEF IsPropWritable, MinorityAnswer
<1> QED
  BY <1>5, <1>6, <1>7, <1>8

\* The number for an unknown name runs nothing.
LEMMA UnknownRunsNothing ==
  ASSUME NEW cls \in Class, NEW asFunc \in BOOLEAN
  PROVE  Called(cls, -1, asFunc) = -1
<1> DEFINE t == <<"methods", cls>>
<1>1. t \in Searched
  BY DEF Searched
<1>2. -1 \notin Number[t]
  BY <1>1, DeclaredFacts
<1>3. -1 \notin Func[cls] /\ -1 \notin Proc[cls]
  BY <1>2 DEF Func, Proc
<1> QED
  BY <1>3 DEF Called

\* All answers together
LEMMA InvAnswers ==
  ASSUME DispatchInv
  PROVE  AnswersMatchDeclarations
<1> SUFFICES ASSUME NEW t \in Searched, EnteredFrom(t) = 0
             PROVE  /\ \A asFunc \in BOOLEAN : Called(t[2], -1, asFunc) = -1
                    /\ \A d \in ToSet(Declared[t]) :
                         LET n == Find(t, d.rus) IN
                         IF t[1] = "methods"
                         THEN /\ Called(t[2], n, HasRetVal(t[2], n)) = n
                              /\ Called(t[2], n, ~HasRetVal(t[2], n)) = -1
                              /\ HasRetVal(t[2], n) <=> d.IsFunc
                              /\ GetNParams(t[2], n) = d.nParam
                         ELSE /\ IsPropReadable(t[2], n) <=> d.IsRead
                              /\ IsPropWritable(t[2], n) <=> d.IsWrite
  BY DEF AnswersMatchDeclarations
<1>1. t[2] \in Class /\ DOMAIN Declared[t] = 1 .. Count[t]
  BY DeclaredFacts
<1>2. \A asFunc \in BOOLEAN : Called(t[2], -1, asFunc) = -1
  BY <1>1, UnknownRunsNothing
<1>3. ASSUME NEW d \in ToSet(Declared[t])
      PROVE  LET n == Find(t, d.rus) IN
             IF t[1] = "methods"
             THEN /\ Called(t[2], n, HasRetVal(t[2], n)) = n
                  /\ Called(t[2], n, ~HasRetVal(t[2], n)) = -1
                  /\ HasRetVal(t[2], n) <=> d.IsFunc
                  /\ GetNParams(t[2], n) = d.nParam
             ELSE /\ IsPropReadable(t[2], n) <=> d.IsRead
                  /\ IsPropWritable(t[2], n) <=> d.IsWrite
  <2>1. PICK k \in 1 .. Count[t] : d = Declared[t][k]
    BY <1>1 DEF ToSet
  <2>2. d.rus \in Spelling /\ Lower[d.rus] \in Names(Declared[t][k])
    BY <2>1, DeclaredFacts DEF Names, Spelled
  <2>3. Find(t, d.rus) = k - 1
    BY <2>2, NameToNumber
  <2> DEFINE c == t[2]
  <2>4. c \in Class
    BY <1>1
  <2>5. CASE t[1] = "methods"
    <3>1. Declared[t] = endmeths[c] /\ Count[t] = Len(endmeths[c])
      BY <2>5 DEF Declared, Count
    <3>2. k \in 1 .. Len(endmeths[c])
      BY <3>1
    <3> HIDE DEF c
    <3>3. /\ HasRetVal(c, k - 1) <=> endmeths[c][k].IsFunc
          /\ Called(c, k - 1, HasRetVal(c, k - 1)) = k - 1
          /\ Called(c, k - 1, ~HasRetVal(c, k - 1)) = -1
      BY <2>4, <3>2, CalledAsDeclared
    <3>4. GetNParams(c, k - 1) = endmeths[c][k].nParam
      BY <2>4, <3>2, ParametersAsDeclared
    <3> QED
      BY <2>1, <2>3, <2>5, <3>1, <3>3, <3>4 DEF c
  <2>6. CASE t[1] # "methods"
    <3>1. Declared[t] = endprops[c] /\ Count[t] = Len(endprops[c])
      BY <2>6 DEF Declared, Count
    <3>2. k \in 1 .. Len(endprops[c])
      BY <3>1
    <3> HIDE DEF c
    <3>3. /\ IsPropReadable(c, k - 1) <=> endprops[c][k].IsRead
          /\ IsPropWritable(c, k - 1) <=> endprops[c][k].IsWrite
      BY <2>4, <3>2, AccessAsDeclared
    <3> QED
      BY <2>1, <2>3, <2>6, <3>1, <3>3 DEF c
  <2> QED
    BY <2>5, <2>6
<1> QED
  BY <1>2, <1>3

-----------------------------------------------------------------------------
(* Walking along a list *)

\* The nodes on the way from p in at most n steps, given the walks f of fewer
\* steps
WalkFrom(h, f, n) ==
  [p \in Pointer |-> IF n = 0 \/ p \notin DOMAIN h THEN <<>>
                     ELSE <<p>> \o f[n - 1][h[p].next]]

\* The walks of up to N steps
IsWalk(h, f, N) == f = [n \in 0 .. N |-> WalkFrom(h, f, n)]

\* There is such a function for every N: one row after the other.
LEMMA WalkExists ==
  ASSUME NEW h, NEW N \in Nat
  PROVE  \E f : IsWalk(h, f, N)
<1> DEFINE S == {n \in Nat : \E f : IsWalk(h, f, n)}
<1>1. 0 \in S
  <2> DEFINE f == [n \in 0 .. 0 |-> [p \in Pointer |-> <<>>]]
  <2>1. \A n \in 0 .. 0 : WalkFrom(h, f, n) = [p \in Pointer |-> <<>>]
    BY DEF WalkFrom
  <2>2. IsWalk(h, f, 0)
    BY <2>1 DEF IsWalk
  <2> QED
    BY <2>2
<1>2. ASSUME NEW n \in Nat, n \in S PROVE n + 1 \in S
  <2>1. PICK f : IsWalk(h, f, n)
    BY <1>2
  <2> DEFINE g == [m \in 0 .. n + 1 |-> IF m <= n THEN f[m] ELSE WalkFrom(h, f, n + 1)]
  <2>2. \A m \in 0 .. n : g[m] = f[m]
    OBVIOUS
  <2>3. g[n + 1] = WalkFrom(h, f, n + 1)
    OBVIOUS
  <2>4. \A m \in 0 .. n : f[m] = WalkFrom(h, f, m)
    BY <2>1 DEF IsWalk
  <2>5. DOMAIN g = 0 .. n + 1
    OBVIOUS
  <2>6. g = [m \in 0 .. n + 1 |-> g[m]]
    OBVIOUS
  <2> HIDE DEF g
  <2>7. ASSUME NEW m \in 0 .. n + 1 PROVE WalkFrom(h, f, m) = WalkFrom(h, g, m)
    <3>1. CASE m = 0
      BY <3>1 DEF WalkFrom
    <3>2. CASE m # 0
      <4>1. m - 1 \in 0 .. n
        BY <3>2
      <4>2. f[m - 1] = g[m - 1]
        BY <2>2, <4>1
      <4> QED
        BY <4>2 DEF WalkFrom
    <3> QED
      BY <3>1, <3>2
  <2>8. ASSUME NEW m \in 0 .. n + 1 PROVE g[m] = WalkFrom(h, g, m)
    <3>1. CASE m <= n
      BY <2>2, <2>4, <2>7, <3>1
    <3>2. CASE ~(m <= n)
      <4>1. m = n + 1
        BY <3>2
      <4> QED
        BY <2>3, <2>7, <4>1
    <3> QED
      BY <3>1, <3>2
  <2>9. IsWalk(h, g, n + 1)
    BY <2>6, <2>8 DEF IsWalk
  <2> QED
    BY <2>9
<1> HIDE DEF S
<1>3. Nat \subseteq S
  BY <1>1, <1>2, SetInduction
<1> QED
  BY <1>3 DEF S

\* Nodes is one of these walks: as many steps as there are nodes.
LEMMA NodesByWalk ==
  ASSUME NEW h, NEW list
  PROVE  \E f : /\ IsWalk(h, f, Cardinality(Node))
                /\ Nodes(h, list) = f[Cardinality(Node)][list]
<1> DEFINE C == Cardinality(Node)
           walk == CHOOSE f : f = [n \in 0 .. C |->
                     [p \in Pointer |-> IF n = 0 \/ p \notin DOMAIN h THEN <<>>
                                        ELSE <<p>> \o f[n - 1][h[p].next]]]
<1>1. C \in Nat
  BY MemoryIsFinite, FS_CardinalityType
<1>2. PICK f : IsWalk(h, f, C)
  BY <1>1, WalkExists
<1>3. f = [n \in 0 .. C |->
             [p \in Pointer |-> IF n = 0 \/ p \notin DOMAIN h THEN <<>>
                                ELSE <<p>> \o f[n - 1][h[p].next]]]
  BY <1>2 DEF IsWalk, WalkFrom
<1>4. walk = [n \in 0 .. C |->
                [p \in Pointer |-> IF n = 0 \/ p \notin DOMAIN h THEN <<>>
                                   ELSE <<p>> \o walk[n - 1][h[p].next]]]
  BY <1>3
<1>5. Nodes(h, list) = walk[C][list]
  BY DEF Nodes
<1> HIDE DEF walk
<1>6. IsWalk(h, walk, C)
  BY <1>4 DEF IsWalk, WalkFrom
<1> QED
  BY <1>5, <1>6

-----------------------------------------------------------------------------
(* Lists *)

\* s are the nodes of the list that begins with p, in order: next leads from
\* each to the one behind it and from the last one to NULL.
IsChain(h, p, s) ==
  /\ s \in Seq(Node) /\ \A k \in 1 .. Len(s) : s[k] \in DOMAIN h
  /\ p = IF Len(s) = 0 THEN NULL ELSE s[1]
  /\ \A k \in 1 .. Len(s) : h[s[k]].next = IF k < Len(s) THEN s[k + 1] ELSE NULL

\* The chain without its first node is the chain from the next one on.
LEMMA ChainTail ==
  ASSUME NEW h, NEW p, NEW s, IsChain(h, p, s), Len(s) > 0
  PROVE  /\ p \in DOMAIN h /\ p \in Node /\ p = s[1]
         /\ IsChain(h, h[p].next, Tail(s)) /\ Len(Tail(s)) = Len(s) - 1
         /\ s = <<p>> \o Tail(s)
<1> DEFINE t == Tail(s)
           n == Len(s)
<1>1. /\ s \in Seq(Node) /\ \A k \in 1 .. n : s[k] \in DOMAIN h
      /\ \A k \in 1 .. n : h[s[k]].next = IF k < n THEN s[k + 1] ELSE NULL
  BY DEF IsChain
<1>2. n \in Nat /\ n > 0 /\ p = s[1] /\ \A k \in 1 .. n : s[k] \in Node
  BY <1>1, LenProperties, ElementOfSeq DEF IsChain
<1>3. /\ t \in Seq(Node) /\ Len(t) = n - 1
      /\ \A k \in 1 .. n - 1 : t[k] = s[k + 1]
  <2>1. s # <<>>
    BY <1>2
  <2> QED
    BY <1>1, <2>1, HeadTailProperties
<1> HIDE DEF t, n
<1>4. \A k \in 1 .. n - 1 : t[k] \in DOMAIN h
  BY <1>1, <1>2, <1>3
<1>5. h[p].next = IF Len(t) = 0 THEN NULL ELSE t[1]
  <2>1. h[p].next = IF 1 < n THEN s[2] ELSE NULL
    BY <1>1, <1>2
  <2>2. CASE n = 1
    BY <1>3, <2>1, <2>2
  <2>3. CASE n > 1
    <3>1. 1 \in 1 .. n - 1 /\ 1 + 1 = 2
      BY <1>2, <2>3
    <3>2. t[1] = s[2]
      BY <1>3, <3>1
    <3> QED
      BY <1>2, <1>3, <2>1, <2>3, <3>2
  <2> QED
    BY <1>2, <2>2, <2>3
<1>6. ASSUME NEW k \in 1 .. n - 1
      PROVE  h[t[k]].next = IF k < n - 1 THEN t[k + 1] ELSE NULL
  <2>1. t[k] = s[k + 1] /\ k + 1 \in 1 .. n
    BY <1>2, <1>3
  <2>2. h[s[k + 1]].next = IF k + 1 < n THEN s[k + 1 + 1] ELSE NULL
    BY <1>1, <2>1
  <2>3. CASE k < n - 1
    <3>1. k + 1 < n /\ k + 1 \in 1 .. n - 1
      BY <1>2, <2>3
    <3>2. t[k + 1] = s[k + 1 + 1]
      BY <1>3, <3>1
    <3> QED
      BY <2>1, <2>2, <2>3, <3>1, <3>2
  <2>4. CASE ~(k < n - 1)
    <3>1. ~(k + 1 < n)
      BY <1>2, <2>4
    <3> QED
      BY <2>1, <2>2, <2>4, <3>1
  <2> QED
    BY <2>3, <2>4
<1>7. IsChain(h, h[p].next, t)
  BY <1>3, <1>4, <1>5, <1>6 DEF IsChain
<1>8. s = <<p>> \o t
  <2> DEFINE b == <<p>>
  <2>1. b \in Seq(Node) /\ Len(b) = 1 /\ b[1] = p
    BY <1>2
  <2> HIDE DEF b
  <2>2. /\ b \o t \in Seq(Node) /\ Len(b \o t) = Len(b) + Len(t)
        /\ \A k \in 1 .. Len(b) + Len(t) :
             (b \o t)[k] = IF k <= Len(b) THEN b[k] ELSE t[k - Len(b)]
    <3>1. b \in Seq(Node) /\ t \in Seq(Node)
      BY <1>3, <2>1
    <3> QED
      BY <3>1, ConcatProperties
  <2>3. Len(b \o t) = n
    BY <1>2, <1>3, <2>1, <2>2
  <2>4. ASSUME NEW k \in 1 .. n PROVE s[k] = (b \o t)[k]
    <3>1. (b \o t)[k] = IF k <= 1 THEN b[k] ELSE t[k - 1]
      BY <1>2, <1>3, <2>1, <2>2
    <3>2. CASE k = 1
      BY <1>2, <2>1, <3>1, <3>2
    <3>3. CASE k > 1
      <4>1. k - 1 \in 1 .. n - 1 /\ k - 1 + 1 = k
        BY <1>2, <3>3
      <4>2. t[k - 1] = s[k]
        BY <1>3, <4>1
      <4> QED
        BY <3>1, <3>3, <4>2
    <3>4. k = 1 \/ k > 1
      BY <1>2
    <3> QED
      BY <3>2, <3>3, <3>4
  <2>5. s = b \o t
    BY <1>1, <2>2, <2>3, <2>4, SeqEqual DEF n
  <2> QED
    BY <2>5 DEF b
<1>9. p \in DOMAIN h /\ p \in Node
  BY <1>1, <1>2
<1> QED
  BY <1>2, <1>3, <1>7, <1>8, <1>9 DEF t, n

\* A walk of enough steps gives the chain.
LEMMA WalkOfChain ==
  ASSUME NEW h, NEW f, NEW N \in Nat, IsWalk(h, f, N), NULL \notin DOMAIN h
  PROVE  \A s, p, n : /\ n \in 0 .. N /\ IsChain(h, p, s) /\ Len(s) <= n
                      => f[n][p] = s
<1> DEFINE Q(j) == \A s, p, n : /\ n \in 0 .. N /\ IsChain(h, p, s)
                               /\ Len(s) = j /\ j <= n
                               => f[n][p] = s
           S == {j \in Nat : Q(j)}
<1>0. \A n \in 0 .. N : \A p \in Pointer :
        f[n][p] = IF n = 0 \/ p \notin DOMAIN h THEN <<>>
                  ELSE <<p>> \o f[n - 1][h[p].next]
  <2>1. \A n \in 0 .. N : f[n] = WalkFrom(h, f, n)
    BY DEF IsWalk
  <2> QED
    BY <2>1, ZenonT(60) DEF WalkFrom
<1>1. 0 \in S
  <2> SUFFICES ASSUME NEW s, NEW p, NEW n \in 0 .. N, IsChain(h, p, s), Len(s) = 0
               PROVE  f[n][p] = s
    OBVIOUS
  <2>1. p = NULL /\ s \in Seq(Node)
    BY DEF IsChain
  <2>2. s = <<>>
    BY <2>1, EmptySeq
  <2>3. NULL \in Pointer
    BY DEF Pointer
  <2> QED
    BY <1>0, <2>1, <2>2, <2>3
<1>2. ASSUME NEW j \in Nat, j \in S PROVE j + 1 \in S
  <2>0. j + 1 \in Nat
    OBVIOUS
  <2> SUFFICES Q(j + 1)
    BY <2>0
  <2> SUFFICES ASSUME NEW s, NEW p, NEW n, n \in 0 .. N, IsChain(h, p, s),
                      Len(s) = j + 1, j + 1 <= n
               PROVE  f[n][p] = s
    BY Zenon
  <2>1. /\ p \in DOMAIN h /\ p \in Node
        /\ IsChain(h, h[p].next, Tail(s)) /\ Len(Tail(s)) = Len(s) - 1
        /\ s = <<p>> \o Tail(s)
    BY ChainTail
  <2> DEFINE m == n - 1
             t == Tail(s)
             q == h[p].next
  <2>2. m \in 0 .. N /\ j <= m /\ n # 0 /\ Len(t) = j /\ IsChain(h, q, t)
    BY <2>1
  <2>3. f[n][p] = <<p>> \o f[m][q]
    BY <1>0, <2>1, <2>2 DEF Pointer
  <2> HIDE DEF m, t, q
  <2>4. f[m][q] = t
    BY <1>2, <2>2
  <2> QED
    BY <2>1, <2>3, <2>4 DEF t
<1> HIDE DEF S
<1>3. Nat \subseteq S
  BY <1>1, <1>2, SetInduction
<1>4. ASSUME NEW s, NEW p, NEW n \in 0 .. N, IsChain(h, p, s), Len(s) <= n
      PROVE  f[n][p] = s
  <2>1. Len(s) \in Nat
    BY <1>4, LenProperties DEF IsChain
  <2>2. Q(Len(s))
    BY <1>3, <2>1 DEF S
  <2> QED
    BY <1>4, <2>2
<1> QED
  BY <1>4

\* The list of different nodes that begins with p is what Nodes gives.
LEMMA NodesOfChain ==
  ASSUME NEW h, NEW p, NEW s, NULL \notin DOMAIN h, IsChain(h, p, s), IsInjective(s)
  PROVE  Nodes(h, p) = s
<1> DEFINE C == Cardinality(Node)
           n == Len(s)
<1>1. C \in Nat
  BY MemoryIsFinite, FS_CardinalityType
<1>2. s \in Seq(Node) /\ n \in Nat /\ DOMAIN s = 1 .. n /\ s \in [1 .. n -> Node]
  BY LenProperties DEF IsChain
<1>3. n <= C
  <2>1. s \in Injection(1 .. n, Node)
    BY <1>2 DEF Injection, IsInjective
  <2>2. Cardinality(1 .. n) <= C
    BY <2>1, MemoryIsFinite, FS_Injection
  <2>3. Cardinality(1 .. n) = n
    <3>1. 1 \in Int /\ n \in Int /\ n \in Nat
      BY <1>2
    <3> HIDE DEF n
    <3>2. Cardinality(1 .. n) = IF 1 > n THEN 0 ELSE n - 1 + 1
      BY <3>1, FS_Interval
    <3> QED
      BY <3>1, <3>2
  <2> QED
    BY <2>2, <2>3
<1>4. PICK f : IsWalk(h, f, C) /\ Nodes(h, p) = f[C][p]
  BY NodesByWalk
<1>5. C \in 0 .. C
  BY <1>1
<1> HIDE DEF C
<1> QED
  BY <1>1, <1>3, <1>4, <1>5, WalkOfChain

-----------------------------------------------------------------------------
(* The memory *)

NodeData == Header \cup Recipient \cup {Pragma}
NodeRecord == [data : NodeData, next : Pointer]

\* Two lists and the forgotten nodes share the memory h between them.
Owned(h, p, s, q, r, l) ==
  /\ h \in [DOMAIN h -> NodeRecord] /\ DOMAIN h \subseteq Node
  /\ IsChain(h, p, s) /\ IsInjective(s)
  /\ IsChain(h, q, r) /\ IsInjective(r)
  /\ DOMAIN h = Range(s) \cup Range(r) \cup l
  /\ Range(s) \cap Range(r) = {} /\ (Range(s) \cup Range(r)) \cap l = {}
  /\ \A n \in l : h[n].next \in l \cup {NULL}

\* Nodes gives the two lists.
LEMMA OwnedNodes ==
  ASSUME NEW h, NEW p, NEW s, NEW q, NEW r, NEW l, Owned(h, p, s, q, r, l)
  PROVE  Nodes(h, p) = s /\ Nodes(h, q) = r
<1>1. NULL \notin DOMAIN h
  BY DistinctNames DEF Owned
<1> QED
  BY <1>1, NodesOfChain DEF Owned

\* Neither list is the first one.
LEMMA OwnedSwap ==
  ASSUME NEW h, NEW p, NEW s, NEW q, NEW r, NEW l, Owned(h, p, s, q, r, l)
  PROVE  Owned(h, q, r, p, s, l)
BY DEF Owned

\* A list whose nodes did not change is still there.
LEMMA ChainKept ==
  ASSUME NEW h, NEW g, NEW p, NEW s, IsChain(h, p, s),
         \A n \in Range(s) : n \in DOMAIN g /\ g[n] = h[n]
  PROVE  IsChain(g, p, s)
<1>1. s \in Seq(Node) /\ DOMAIN s = 1 .. Len(s)
  BY LenProperties DEF IsChain
<1>2. \A k \in 1 .. Len(s) : s[k] \in Range(s)
  BY <1>1 DEF Range
<1>3. \A k \in 1 .. Len(s) : s[k] \in DOMAIN g /\ g[s[k]] = h[s[k]]
  BY <1>2
<1> QED
  BY <1>3 DEF IsChain

\* curl_slist_append with memory: the node n goes behind the others, the data
\* of the others and the other nodes stay.
LEMMA AppendOwned ==
  ASSUME NEW h, NEW p, NEW s, NEW q, NEW r, NEW l, Owned(h, p, s, q, r, l),
         NEW data \in NodeData, NEW n \in Node, n \notin DOMAIN h
  PROVE  LET g == Appended(h, p, data, n) IN
         /\ Owned(g, AppendResult(p, n), Append(s, n), q, r, l)
         /\ g[n].data = data
         /\ \A m \in DOMAIN h : g[m].data = h[m].data
<1> DEFINE new == [m \in DOMAIN h \cup {n} |->
                     IF m = n THEN [data |-> data, next |-> NULL] ELSE h[m]]
           g == Appended(h, p, data, n)
           last == s[Len(s)]
           e == Append(s, n)
           N == Len(s)
<1>1. /\ h \in [DOMAIN h -> NodeRecord] /\ DOMAIN h \subseteq Node
      /\ DOMAIN h = Range(s) \cup Range(r) \cup l
      /\ Range(s) \cap Range(r) = {} /\ (Range(s) \cup Range(r)) \cap l = {}
      /\ \A m \in l : h[m].next \in l \cup {NULL}
  BY DEF Owned
<1>2. IsChain(h, p, s) /\ IsInjective(s) /\ IsChain(h, q, r) /\ IsInjective(r)
  BY DEF Owned
<1>3. /\ s \in Seq(Node) /\ N \in Nat /\ DOMAIN s = 1 .. N
      /\ \A k \in 1 .. N : s[k] \in Range(s) /\ s[k] \in DOMAIN h
      /\ p = IF N = 0 THEN NULL ELSE s[1]
      /\ \A k \in 1 .. N : h[s[k]].next = IF k < N THEN s[k + 1] ELSE NULL
  BY <1>2, LenProperties DEF IsChain, Range
<1>4. n # NULL /\ NULL \notin DOMAIN h
  BY <1>1, DistinctNames
<1>5. p = NULL <=> N = 0
  BY <1>1, <1>3, <1>4
<1>6. g = IF p = NULL THEN new ELSE [new EXCEPT ![last].next = n]
  <2>1. Nodes(h, p) = s
    BY OwnedNodes
  <2> QED
    BY <2>1 DEF Appended, slist_get_last, Last
\* What the memory looks like afterwards
<1>7. /\ new \in [DOMAIN h \cup {n} -> NodeRecord]
      /\ new[n] = [data |-> data, next |-> NULL]
      /\ \A m \in DOMAIN h : new[m] = h[m]
  BY <1>1 DEF NodeRecord, Pointer
<1> HIDE DEF new, g
<1>8. N > 0 => last \in DOMAIN h /\ last \in Range(s) /\ last # n
  BY <1>3
<1> HIDE DEF last
<1>9. g \in [DOMAIN h \cup {n} -> NodeRecord]
  <2>1. CASE p = NULL
    BY <1>6, <1>7, <2>1
  <2>2. CASE p # NULL
    BY <1>3, <1>5, <1>6, <1>7, <1>8, <2>2 DEF NodeRecord, Pointer
  <2> QED
    BY <2>1, <2>2
<1>10. g[n] = [data |-> data, next |-> NULL]
  BY <1>3, <1>5, <1>6, <1>7, <1>8
<1>11. ASSUME NEW m \in DOMAIN h
       PROVE  /\ g[m].data = h[m].data
              /\ g[m].next = IF N > 0 /\ m = last THEN n ELSE h[m].next
              /\ ~(N > 0 /\ m = last) => g[m] = h[m]
  <2>1. CASE N = 0
    BY <1>5, <1>6, <1>7, <2>1
  <2>2. CASE N > 0
    <3>1. g = [new EXCEPT ![last].next = n] /\ last \in DOMAIN h
      BY <1>5, <1>6, <1>8, <2>2
    <3>2. new[last] \in NodeRecord
      BY <1>7, <3>1
    <3>3. CASE m = last
      BY <1>7, <2>2, <3>1, <3>2, <3>3 DEF NodeRecord
    <3>4. CASE m # last
      BY <1>7, <2>2, <3>1, <3>4
    <3> QED
      BY <3>3, <3>4
  <2> QED
    BY <1>3, <2>1, <2>2
\* The longer list
<1>12. /\ e \in Seq(Node) /\ Len(e) = N + 1 /\ e[N + 1] = n
       /\ \A k \in 1 .. N : e[k] = s[k]
  BY <1>3, AppendProperties
<1> HIDE DEF e
<1>13. DOMAIN e = 1 .. N + 1
  BY <1>12, LenProperties
<1>14. IsChain(g, AppendResult(p, n), e)
  <2>1. \A k \in 1 .. N + 1 : e[k] \in DOMAIN g
    BY <1>3, <1>9, <1>12
  <2>2. AppendResult(p, n) = e[1]
    <3>1. CASE N = 0
      BY <1>5, <1>12, <3>1 DEF AppendResult
    <3>2. CASE N > 0
      BY <1>3, <1>5, <1>12, <3>2 DEF AppendResult
    <3> QED
      BY <1>3, <3>1, <3>2
  <2>3. ASSUME NEW k \in 1 .. N + 1
        PROVE  g[e[k]].next = IF k < N + 1 THEN e[k + 1] ELSE NULL
    <3>1. CASE k = N + 1
      BY <1>3, <1>10, <1>12, <3>1
    <3>2. CASE k = N
      <4>1. N > 0 /\ e[k] = last /\ last \in DOMAIN h /\ e[k + 1] = n
        BY <1>3, <1>8, <1>12, <3>2 DEF last
      <4>2. g[last].next = n
        BY <1>11, <4>1
      <4> QED
        BY <1>3, <3>2, <4>1, <4>2
    <3>3. CASE k < N
      <4>1. k \in 1 .. N /\ k + 1 \in 1 .. N /\ N \in 1 .. N
        BY <1>3, <3>3
      <4>2. e[k] = s[k] /\ e[k + 1] = s[k + 1] /\ s[k] \in DOMAIN h
        BY <1>3, <1>12, <4>1
      <4>3. s[k] # last
        BY <1>2, <1>3, <3>3, <4>1 DEF IsInjective, last
      <4>4. g[s[k]].next = h[s[k]].next
        BY <1>11, <4>2, <4>3
      <4>5. h[s[k]].next = s[k + 1]
        BY <1>3, <3>3, <4>1
      <4> QED
        BY <1>3, <3>3, <4>2, <4>4, <4>5
    <3>4. k = N + 1 \/ k = N \/ k < N
      <4>1. N \in Nat
        BY <1>3
      <4> HIDE DEF N
      <4> QED
        BY <4>1
    <3> QED
      BY <3>1, <3>2, <3>3, <3>4
  <2>4. Len(e) # 0
    BY <1>3, <1>12
  <2> QED
    BY <1>12, <2>1, <2>2, <2>3, <2>4 DEF IsChain
<1>15. IsInjective(e)
  <2> SUFFICES ASSUME NEW a \in 1 .. N + 1, NEW b \in 1 .. N + 1, e[a] = e[b]
               PROVE  a = b
    BY <1>13 DEF IsInjective
  <2>1. \A k \in 1 .. N : e[k] \in DOMAIN h /\ e[k] # n
    BY <1>3, <1>12
  <2>2. a \in 1 .. N \/ a = N + 1
    BY <1>3
  <2>3. b \in 1 .. N \/ b = N + 1
    BY <1>3
  <2>4. a \in 1 .. N /\ b \in 1 .. N => a = b
    BY <1>2, <1>3, <1>12 DEF IsInjective
  <2> QED
    BY <1>12, <2>1, <2>2, <2>3, <2>4
<1>16. Range(e) = Range(s) \cup {n}
  <2>1. ASSUME NEW x \in Range(e) PROVE x \in Range(s) \cup {n}
    <3>1. PICK k \in 1 .. N + 1 : x = e[k]
      BY <1>13 DEF Range
    <3>2. k \in 1 .. N \/ k = N + 1
      BY <1>3
    <3> QED
      BY <1>3, <1>12, <3>1, <3>2
  <2>2. n \in Range(e)
    <3>1. N + 1 \in DOMAIN e
      BY <1>3, <1>13
    <3> QED
      BY <1>12, <3>1 DEF Range
  <2>3. ASSUME NEW x \in Range(s) PROVE x \in Range(e)
    <3>1. PICK k \in 1 .. N : x = s[k]
      BY <1>3 DEF Range
    <3>2. k \in DOMAIN e /\ e[k] = x
      BY <1>3, <1>12, <1>13, <3>1
    <3> QED
      BY <3>2 DEF Range
  <2> QED
    BY <2>1, <2>2, <2>3
\* The rest
<1>17. IsChain(g, q, r)
  <2>1. ASSUME NEW m \in Range(r) PROVE m \in DOMAIN g /\ g[m] = h[m]
    <3>1. m \in DOMAIN h /\ ~(N > 0 /\ m = last)
      BY <1>1, <1>8
    <3> QED
      BY <1>9, <1>11, <3>1
  <2> QED
    BY <1>2, <2>1, ChainKept
<1>18. ASSUME NEW m \in l PROVE g[m].next \in l \cup {NULL}
  <2>1. m \in DOMAIN h /\ ~(N > 0 /\ m = last)
    BY <1>1, <1>8
  <2> QED
    BY <1>1, <1>11, <2>1
<1>19. /\ DOMAIN g = Range(e) \cup Range(r) \cup l
       /\ Range(e) \cap Range(r) = {} /\ (Range(e) \cup Range(r)) \cap l = {}
       /\ DOMAIN g \subseteq Node /\ g \in [DOMAIN g -> NodeRecord]
  BY <1>1, <1>9, <1>16
<1>20. Owned(g, AppendResult(p, n), e, q, r, l)
  BY <1>2, <1>14, <1>15, <1>17, <1>18, <1>19 DEF Owned
<1> QED
  BY <1>10, <1>11, <1>20 DEF g, e

\* A list without nodes
LEMMA EmptyChain ==
  ASSUME NEW h
  PROVE  IsChain(h, NULL, <<>>) /\ IsInjective(<<>>) /\ Range(<<>>) = {}
<1>1. <<>> \in Seq(Node) /\ Len(<<>>) = 0 /\ DOMAIN <<>> = {}
  OBVIOUS
<1> QED
  BY <1>1 DEF IsChain, IsInjective, Range

\* The memory before the first object is made
LEMMA EmptyOwned == Owned(<<>>, NULL, <<>>, NULL, <<>>, {})
<1>1. DOMAIN <<>> = {} /\ <<>> \in [{} -> NodeRecord]
  OBVIOUS
<1> QED
  BY <1>1, EmptyChain DEF Owned

\* curl_slist_append without memory: the nodes of the list are forgotten.
LEMMA ForgetOwned ==
  ASSUME NEW h, NEW p, NEW s, NEW q, NEW r, NEW l, Owned(h, p, s, q, r, l)
  PROVE  Owned(h, NULL, <<>>, q, r, l \cup Range(s))
<1>1. /\ h \in [DOMAIN h -> NodeRecord] /\ DOMAIN h \subseteq Node
      /\ DOMAIN h = Range(s) \cup Range(r) \cup l
      /\ Range(s) \cap Range(r) = {} /\ (Range(s) \cup Range(r)) \cap l = {}
      /\ \A m \in l : h[m].next \in l \cup {NULL}
  BY DEF Owned
<1>2. IsChain(h, p, s) /\ IsChain(h, q, r) /\ IsInjective(r)
  BY DEF Owned
<1>3. s \in Seq(Node) /\ Len(s) \in Nat /\ DOMAIN s = 1 .. Len(s)
  BY <1>2, LenProperties DEF IsChain
<1>4. ASSUME NEW m \in Range(s) PROVE h[m].next \in Range(s) \cup {NULL}
  <2>1. PICK k \in 1 .. Len(s) : m = s[k]
    BY <1>3 DEF Range
  <2>2. h[m].next = IF k < Len(s) THEN s[k + 1] ELSE NULL
    BY <1>2, <2>1 DEF IsChain
  <2>3. k < Len(s) => k + 1 \in DOMAIN s
    BY <1>3
  <2> QED
    BY <2>2, <2>3 DEF Range
<1>5. \A m \in l \cup Range(s) : h[m].next \in l \cup Range(s) \cup {NULL}
  BY <1>1, <1>4
<1>6. DOMAIN h = {} \cup Range(r) \cup (l \cup Range(s))
  BY <1>1
<1>7. {} \cap Range(r) = {} /\ ({} \cup Range(r)) \cap (l \cup Range(s)) = {}
  BY <1>1
<1>8. IsChain(h, NULL, <<>>) /\ IsInjective(<<>>) /\ Range(<<>>) = {}
  BY EmptyChain
<1> QED
  BY <1>1, <1>2, <1>5, <1>6, <1>7, <1>8 DEF Owned

\* curl_slist_free_all: the nodes of the list go, the others stay as they are.
LEMMA FreeOwned ==
  ASSUME NEW h, NEW p, NEW s, NEW q, NEW r, NEW l, Owned(h, p, s, q, r, l)
  PROVE  Owned(curl_slist_free_all(h, p), NULL, <<>>, q, r, l)
<1> DEFINE g == curl_slist_free_all(h, p)
<1>1. /\ h \in [DOMAIN h -> NodeRecord] /\ DOMAIN h \subseteq Node
      /\ DOMAIN h = Range(s) \cup Range(r) \cup l
      /\ Range(s) \cap Range(r) = {} /\ (Range(s) \cup Range(r)) \cap l = {}
      /\ \A m \in l : h[m].next \in l \cup {NULL}
  BY DEF Owned
<1>2. IsChain(h, q, r) /\ IsInjective(r)
  BY DEF Owned
<1>3. g = [m \in DOMAIN h \ Range(s) |-> h[m]]
  <2>1. Nodes(h, p) = s
    BY OwnedNodes
  <2>2. ToSet(s) = Range(s)
    BY DEF ToSet, Range
  <2> QED
    BY <2>1, <2>2 DEF curl_slist_free_all, Restrict
<1> HIDE DEF g
<1>4. DOMAIN g = Range(r) \cup l /\ \A m \in DOMAIN g : g[m] = h[m]
  BY <1>1, <1>3
<1>5. g \in [DOMAIN g -> NodeRecord] /\ DOMAIN g \subseteq Node
  BY <1>1, <1>3
<1>6. IsChain(g, q, r)
  <2>1. \A m \in Range(r) : m \in DOMAIN g /\ g[m] = h[m]
    BY <1>4
  <2> QED
    BY <1>2, <2>1, ChainKept
<1>7. \A m \in l : g[m].next \in l \cup {NULL}
  BY <1>1, <1>4
<1>8. IsChain(g, NULL, <<>>) /\ IsInjective(<<>>) /\ Range(<<>>) = {}
  BY EmptyChain
<1>9. /\ DOMAIN g = {} \cup Range(r) \cup l
      /\ {} \cap Range(r) = {} /\ ({} \cup Range(r)) \cap l = {}
  BY <1>1, <1>4
<1>10. Owned(g, NULL, <<>>, q, r, l)
  BY <1>2, <1>5, <1>6, <1>7, <1>8, <1>9 DEF Owned
<1> QED
  BY <1>10 DEF g

\* Both lists are freed; what was forgotten remains.
LEMMA FreeBothOwned ==
  ASSUME NEW h, NEW p, NEW s, NEW q, NEW r, NEW l, Owned(h, p, s, q, r, l)
  PROVE  Owned(curl_slist_free_all(curl_slist_free_all(h, p), q),
               NULL, <<>>, NULL, <<>>, l)
<1> DEFINE g == curl_slist_free_all(h, p)
<1>1. Owned(g, NULL, <<>>, q, r, l)
  BY FreeOwned
<1> HIDE DEF g
<1>2. Owned(g, q, r, NULL, <<>>, l)
  BY <1>1, OwnedSwap
<1>3. Owned(curl_slist_free_all(g, q), NULL, <<>>, NULL, <<>>, l)
  BY <1>2, FreeOwned
<1> QED
  BY <1>3 DEF g

\* What the nodes of a list carry
DataOf(h, s) == [k \in DOMAIN s |-> h[s[k]].data]

\* is a sequence as long as the list, and begins with what its head carries.
LEMMA DataFacts ==
  ASSUME NEW h, NEW p, NEW s, NEW q, NEW r, NEW l, Owned(h, p, s, q, r, l)
  PROVE  /\ DataOf(h, s) \in Seq(NodeData)
         /\ Len(DataOf(h, s)) = Len(s) /\ Len(s) \in Nat
         /\ p = NULL <=> Len(s) = 0
         /\ Len(s) > 0 => DataOf(h, s)[1] = h[p].data
<1>1. h \in [DOMAIN h -> NodeRecord] /\ DOMAIN h \subseteq Node
  BY DEF Owned
<1>2. IsChain(h, p, s)
  BY DEF Owned
<1>3. s \in Seq(Node) /\ Len(s) \in Nat /\ DOMAIN s = 1 .. Len(s)
  BY <1>2, LenProperties DEF IsChain
<1>4. /\ \A k \in 1 .. Len(s) : s[k] \in DOMAIN h
      /\ p = IF Len(s) = 0 THEN NULL ELSE s[1]
  BY <1>2 DEF IsChain
<1>5. p = NULL <=> Len(s) = 0
  BY <1>1, <1>3, <1>4, DistinctNames
<1> DEFINE n == Len(s)
           d == DataOf(h, s)
<1>6. d = [k \in 1 .. n |-> h[s[k]].data] /\ n \in Nat
  BY <1>3 DEF DataOf
<1>7. \A k \in 1 .. n : h[s[k]].data \in NodeData
  BY <1>1, <1>4 DEF NodeRecord
<1> HIDE DEF n, d
<1>8. d \in Seq(NodeData) /\ Len(d) = n
  BY <1>6, <1>7
<1>9. n > 0 => d[1] = h[p].data
  BY <1>4, <1>6 DEF n
<1> QED
  BY <1>3, <1>5, <1>8, <1>9 DEF n, d

\* An appended node adds its data at the end.
LEMMA AppendData ==
  ASSUME NEW h, NEW p, NEW s, NEW q, NEW r, NEW l, Owned(h, p, s, q, r, l),
         NEW data \in NodeData, NEW n \in Node, n \notin DOMAIN h
  PROVE  LET g == Appended(h, p, data, n) IN
         /\ DataOf(g, Append(s, n)) = Append(DataOf(h, s), data)
         /\ DataOf(g, r) = DataOf(h, r)
<1> DEFINE g == Appended(h, p, data, n)
           e == Append(s, n)
           N == Len(s)
           d == DataOf(h, s)
           c == Append(d, data)
<1>1. g[n].data = data /\ \A m \in DOMAIN h : g[m].data = h[m].data
  BY AppendOwned
<1> HIDE DEF g
<1>2. IsChain(h, p, s) /\ IsChain(h, q, r)
  BY DEF Owned
<1>3. s \in Seq(Node) /\ N \in Nat /\ DOMAIN s = 1 .. N
  BY <1>2, LenProperties DEF IsChain
<1>4. \A k \in 1 .. N : s[k] \in DOMAIN h
  BY <1>2 DEF IsChain
<1>5. \A k \in DOMAIN r : r[k] \in DOMAIN h
  <2>1. DOMAIN r = 1 .. Len(r)
    BY <1>2, LenProperties DEF IsChain
  <2> QED
    BY <1>2, <2>1 DEF IsChain
<1>6. DataOf(g, r) = DataOf(h, r)
  BY <1>1, <1>5 DEF DataOf
<1>7. d \in Seq(NodeData) /\ Len(d) = N /\ d = [k \in 1 .. N |-> h[s[k]].data]
  <2>1. d \in Seq(NodeData) /\ Len(d) = N
    BY DataFacts
  <2>2. d = [k \in 1 .. N |-> h[s[k]].data]
    BY <1>3 DEF DataOf
  <2> QED
    BY <2>1, <2>2
<1>8. /\ e \in Seq(Node) /\ Len(e) = N + 1 /\ e[N + 1] = n
      /\ \A k \in 1 .. N : e[k] = s[k]
  BY <1>3, AppendProperties
<1> HIDE DEF d
<1>9. /\ c \in Seq(NodeData) /\ Len(c) = N + 1 /\ c[N + 1] = data
      /\ \A k \in 1 .. N : c[k] = d[k]
  BY <1>7, AppendProperties
<1> HIDE DEF e, c, N
<1>10. DOMAIN e = 1 .. N + 1
  BY <1>8, LenProperties
<1> DEFINE b == DataOf(g, e)
<1>11. b = [k \in 1 .. N + 1 |-> g[e[k]].data]
  BY <1>10 DEF DataOf
<1>12. ASSUME NEW k \in 1 .. N + 1 PROVE g[e[k]].data = c[k]
  <2>1. CASE k = N + 1
    BY <1>1, <1>8, <1>9, <2>1
  <2>2. CASE k \in 1 .. N
    <3>1. e[k] = s[k] /\ c[k] = d[k] /\ s[k] \in DOMAIN h
      BY <1>4, <1>8, <1>9, <2>2
    <3>2. d[k] = h[s[k]].data
      BY <1>7, <2>2
    <3> QED
      BY <1>1, <3>1, <3>2
  <2>3. k = N + 1 \/ k \in 1 .. N
    BY <1>3
  <2> QED
    BY <2>1, <2>2, <2>3
<1>13. c = [k \in 1 .. N + 1 |-> c[k]]
  <2>1. c \in [1 .. Len(c) -> NodeData]
    BY <1>9, LenProperties
  <2> QED
    BY <1>9, <2>1
<1>14. b = c
  BY <1>11, <1>12, <1>13
<1> QED
  BY <1>6, <1>14 DEF b, c, d, e, g

-----------------------------------------------------------------------------
(* The inductive invariant *)

HeaderNodes == Nodes(heap, headers)
RecipientNodes == Nodes(heap, recipients)

\* The two lists of the object and the forgotten nodes share the memory.
ListsOwned == Owned(heap, headers, HeaderNodes, recipients, RecipientNodes, lost)

\* The handle is told of the headers once the script has set one, and of the
\* recipients at all times.
OptionsFollow ==
  m_curl = [HTTPHEADER |-> IF Data(headers) \in {<<>>, <<Pragma>>} THEN NULL
                           ELSE headers,
            MAIL_RCPT |-> recipients]

\* Without an object there are no lists; with one the tables are filled.
ObjectComplete ==
  /\ alive \in BOOLEAN
  /\ ~alive => headers = NULL /\ recipients = NULL
  /\ alive => MapsReady

ScriptInv ==
  DispatchInv /\ ListsOwned /\ OptionsFollow /\ ObjectComplete /\ asked \in Asked

-----------------------------------------------------------------------------
(* What the invariant says of a state *)

\* The headers as the script sees them: their texts, and whether the first is
\* the object's own
LEMMA HeaderFacts ==
  ASSUME ListsOwned
  PROVE  /\ Data(headers) = DataOf(heap, HeaderNodes)
         /\ Data(headers) \in Seq(NodeData)
         /\ Len(Data(headers)) = Len(HeaderNodes) /\ Len(HeaderNodes) \in Nat
         /\ headers = NULL <=> Len(Data(headers)) = 0
         /\ OwnInFront <=> Len(Data(headers)) > 0 /\ Data(headers)[1] = Pragma
<1>1. Data(headers) = DataOf(heap, HeaderNodes)
  BY DEF Data, DataOf, HeaderNodes
<1> DEFINE s == HeaderNodes
           r == RecipientNodes
<1>2. Owned(heap, headers, s, recipients, r, lost)
  BY DEF ListsOwned
<1> HIDE DEF s, r
<1>3. /\ DataOf(heap, s) \in Seq(NodeData)
      /\ Len(DataOf(heap, s)) = Len(s) /\ Len(s) \in Nat
      /\ headers = NULL <=> Len(s) = 0
      /\ Len(s) > 0 => DataOf(heap, s)[1] = heap[headers].data
  BY <1>2, DataFacts
<1>4. Data(headers) = DataOf(heap, s)
  BY <1>1 DEF s
<1> QED
  BY <1>1, <1>3, <1>4 DEF s, OwnInFront

\* The recipients, likewise
LEMMA RecipientFacts ==
  ASSUME ListsOwned
  PROVE  /\ Data(recipients) = DataOf(heap, RecipientNodes)
         /\ Data(recipients) \in Seq(NodeData)
         /\ recipients = NULL <=> Len(Data(recipients)) = 0
<1>1. Data(recipients) = DataOf(heap, RecipientNodes)
  BY DEF Data, DataOf, RecipientNodes
<1> DEFINE s == HeaderNodes
           r == RecipientNodes
<1>2. Owned(heap, headers, s, recipients, r, lost)
  BY DEF ListsOwned
<1> HIDE DEF s, r
<1>3. Owned(heap, recipients, r, headers, s, lost)
  BY <1>2, OwnedSwap
<1>4. /\ DataOf(heap, r) \in Seq(NodeData)
      /\ Len(DataOf(heap, r)) = Len(r)
      /\ recipients = NULL <=> Len(r) = 0
  BY <1>3, DataFacts
<1>5. Data(recipients) = DataOf(heap, r)
  BY <1>1 DEF r
<1> QED
  BY <1>1, <1>4, <1>5

\* No list, no data
LEMMA DataOfNothing ==
  ASSUME ListsOwned
  PROVE  Data(NULL) = <<>>
<1>1. NULL \notin DOMAIN heap
  BY DistinctNames DEF ListsOwned, Owned
<1>2. Nodes(heap, NULL) = <<>>
  BY <1>1, EmptyChain, NodesOfChain
<1> QED
  BY <1>2 DEF Data

-----------------------------------------------------------------------------
(* What a step does to the lists *)

\* Once the memory after a step is known to be shared between two lists, the
\* lists are what the variables give.
LEMMA StepLists ==
  ASSUME NEW s, NEW r, Owned(heap', headers', s, recipients', r, lost')
  PROVE  /\ ListsOwned' /\ HeaderNodes' = s /\ RecipientNodes' = r
         /\ Data(headers)' = DataOf(heap', s) /\ Data(recipients)' = DataOf(heap', r)
<1>1. Nodes(heap', headers') = s /\ Nodes(heap', recipients') = r
  BY OwnedNodes
<1>2. HeaderNodes' = s /\ RecipientNodes' = r
  BY <1>1 DEF HeaderNodes, RecipientNodes
<1>3. ListsOwned'
  BY <1>2 DEF ListsOwned
<1>4. Data(headers)' = DataOf(heap', s) /\ Data(recipients)' = DataOf(heap', r)
  BY <1>1 DEF Data, DataOf
<1> QED
  BY <1>2, <1>3, <1>4

\* One more header
LEMMA HeaderAdded ==
  ASSUME ListsOwned, NEW data \in NodeData, NEW n \in Fresh,
         heap' = Appended(heap, headers, data, n),
         headers' = AppendResult(headers, n), recipients' = recipients, lost' = lost
  PROVE  /\ ListsOwned' /\ Data(headers)' = Append(Data(headers), data)
         /\ Data(recipients)' = Data(recipients)
<1> DEFINE s == HeaderNodes
           r == RecipientNodes
<1>1. n \in Node /\ n \notin DOMAIN heap
  BY DEF Fresh, Allocated
<1>2. Owned(heap, headers, s, recipients, r, lost)
  BY DEF ListsOwned
<1>3. Data(headers) = DataOf(heap, s) /\ Data(recipients) = DataOf(heap, r)
  BY HeaderFacts, RecipientFacts
<1> HIDE DEF s, r
<1> DEFINE g == Appended(heap, headers, data, n)
           e == Append(s, n)
<1>4. Owned(g, AppendResult(headers, n), e, recipients, r, lost)
  BY <1>1, <1>2, AppendOwned
<1>5. DataOf(g, e) = Append(DataOf(heap, s), data) /\ DataOf(g, r) = DataOf(heap, r)
  BY <1>1, <1>2, AppendData
<1>6. Owned(heap', headers', e, recipients', r, lost')
  BY <1>4
<1> HIDE DEF e
<1>7. /\ ListsOwned' /\ Data(headers)' = DataOf(heap', e)
      /\ Data(recipients)' = DataOf(heap', r)
  BY <1>6, StepLists
<1> QED
  BY <1>3, <1>5, <1>7

\* One more recipient
LEMMA RecipientAdded ==
  ASSUME ListsOwned, NEW data \in NodeData, NEW n \in Fresh,
         heap' = Appended(heap, recipients, data, n),
         recipients' = AppendResult(recipients, n), headers' = headers, lost' = lost
  PROVE  /\ ListsOwned' /\ Data(recipients)' = Append(Data(recipients), data)
         /\ Data(headers)' = Data(headers)
<1> DEFINE s == HeaderNodes
           r == RecipientNodes
<1>1. n \in Node /\ n \notin DOMAIN heap
  BY DEF Fresh, Allocated
<1>2. Owned(heap, headers, s, recipients, r, lost)
  BY DEF ListsOwned
<1>3. Data(headers) = DataOf(heap, s) /\ Data(recipients) = DataOf(heap, r)
  BY HeaderFacts, RecipientFacts
<1> HIDE DEF s, r
<1> DEFINE g == Appended(heap, recipients, data, n)
           e == Append(r, n)
<1>4. Owned(heap, recipients, r, headers, s, lost)
  BY <1>2, OwnedSwap
<1>5. Owned(g, AppendResult(recipients, n), e, headers, s, lost)
  BY <1>1, <1>4, AppendOwned
<1>6. DataOf(g, e) = Append(DataOf(heap, r), data) /\ DataOf(g, s) = DataOf(heap, s)
  BY <1>1, <1>4, AppendData
<1> HIDE DEF e
<1>7. Owned(g, headers, s, AppendResult(recipients, n), e, lost)
  BY <1>5, OwnedSwap
<1>8. Owned(heap', headers', s, recipients', e, lost')
  BY <1>7
<1>9. /\ ListsOwned' /\ Data(headers)' = DataOf(heap', s)
      /\ Data(recipients)' = DataOf(heap', e)
  BY <1>8, StepLists
<1> QED
  BY <1>3, <1>6, <1>9

\* The headers are forgotten.
LEMMA HeadersForgotten ==
  ASSUME ListsOwned, heap' = heap, headers' = NULL, recipients' = recipients,
         lost' = lost \cup ToSet(Nodes(heap, headers))
  PROVE  /\ ListsOwned' /\ Data(headers)' = <<>>
         /\ Data(recipients)' = Data(recipients)
<1> DEFINE s == HeaderNodes
           r == RecipientNodes
<1>1. Owned(heap, headers, s, recipients, r, lost)
  BY DEF ListsOwned
<1>2. Data(recipients) = DataOf(heap, r)
  BY RecipientFacts
<1>3. lost' = lost \cup Range(s)
  BY DEF ToSet, Range, HeaderNodes
<1> HIDE DEF s, r
<1>4. Owned(heap, NULL, <<>>, recipients, r, lost \cup Range(s))
  BY <1>1, ForgetOwned
<1>5. Owned(heap', headers', <<>>, recipients', r, lost')
  BY <1>3, <1>4
<1>6. /\ ListsOwned' /\ Data(headers)' = DataOf(heap', <<>>)
      /\ Data(recipients)' = DataOf(heap', r)
  BY <1>5, StepLists
<1>7. DataOf(heap', <<>>) = <<>>
  BY DEF DataOf
<1> QED
  BY <1>2, <1>6, <1>7

\* The recipients are forgotten.
LEMMA RecipientsForgotten ==
  ASSUME ListsOwned, heap' = heap, recipients' = NULL, headers' = headers,
         lost' = lost \cup ToSet(Nodes(heap, recipients))
  PROVE  /\ ListsOwned' /\ Data(recipients)' = <<>>
         /\ Data(headers)' = Data(headers)
<1> DEFINE s == HeaderNodes
           r == RecipientNodes
<1>1. Owned(heap, headers, s, recipients, r, lost)
  BY DEF ListsOwned
<1>2. Data(headers) = DataOf(heap, s)
  BY HeaderFacts
<1>3. lost' = lost \cup Range(r)
  BY DEF ToSet, Range, RecipientNodes
<1> HIDE DEF s, r
<1>4. Owned(heap, recipients, r, headers, s, lost)
  BY <1>1, OwnedSwap
<1>5. Owned(heap, NULL, <<>>, headers, s, lost \cup Range(r))
  BY <1>4, ForgetOwned
<1>6. Owned(heap, headers, s, NULL, <<>>, lost \cup Range(r))
  BY <1>5, OwnedSwap
<1>7. Owned(heap', headers', s, recipients', <<>>, lost')
  BY <1>3, <1>6
<1>8. /\ ListsOwned' /\ Data(headers)' = DataOf(heap', s)
      /\ Data(recipients)' = DataOf(heap', <<>>)
  BY <1>7, StepLists
<1>9. DataOf(heap', <<>>) = <<>>
  BY DEF DataOf
<1> QED
  BY <1>2, <1>8, <1>9

\* Both lists are freed.
LEMMA ListsFreed ==
  ASSUME ListsOwned, headers' = NULL, recipients' = NULL, lost' = lost,
         heap' = curl_slist_free_all(curl_slist_free_all(heap, headers), recipients)
  PROVE  ListsOwned' /\ Data(headers)' = <<>> /\ Data(recipients)' = <<>>
<1> DEFINE s == HeaderNodes
           r == RecipientNodes
<1>1. Owned(heap, headers, s, recipients, r, lost)
  BY DEF ListsOwned
<1> HIDE DEF s, r
<1>2. Owned(curl_slist_free_all(curl_slist_free_all(heap, headers), recipients),
            NULL, <<>>, NULL, <<>>, lost)
  BY <1>1, FreeBothOwned
<1>3. Owned(heap', headers', <<>>, recipients', <<>>, lost')
  BY <1>2
<1>4. /\ ListsOwned' /\ Data(headers)' = DataOf(heap', <<>>)
      /\ Data(recipients)' = DataOf(heap', <<>>)
  BY <1>3, StepLists
<1>5. DataOf(heap', <<>>) = <<>>
  BY DEF DataOf
<1> QED
  BY <1>4, <1>5

\* A step that leaves the lists alone
LEMMA ListsKept ==
  ASSUME ListsOwned, heap' = heap, headers' = headers, recipients' = recipients,
         lost' = lost
  PROVE  /\ ListsOwned' /\ Data(headers)' = Data(headers)
         /\ Data(recipients)' = Data(recipients) /\ OwnInFront' = OwnInFront
BY DEF ListsOwned, HeaderNodes, RecipientNodes, Data, OwnInFront

-----------------------------------------------------------------------------
(* The headers as the script sees them *)

\* The first header as the memory has it and as the sequence of texts has it
FrontByData ==
  /\ OwnInFront <=> Len(Data(headers)) > 0 /\ Data(headers)[1] = Pragma
  /\ headers = NULL <=> Len(Data(headers)) = 0

\* On a well-formed list the two agree, before a step of the code
THEOREM FrontFacts == ListsOwned => FrontByData
BY HeaderFacts DEF FrontByData

\* and after it.
THEOREM FrontFactsNext == ListsOwned' => FrontByData'
BY FrontFacts, PTL

\* The headers of the script: those behind the object's own one, or all
ScriptHeaders == IF OwnInFront THEN Tail(Data(headers)) ELSE Data(headers)

\* A list of headers with one more at its end is neither empty nor just the
\* object's own header.
LEMMA LongerList ==
  ASSUME NEW d \in Seq(NodeData), NEW text \in Header
  PROVE  Append(d, text) \notin {<<>>, <<Pragma>>}
<1> DEFINE c == Append(d, text)
           n == Len(d)
<1>1. n \in Nat
  BY LenProperties
<1>2. text \in NodeData
  BY DEF NodeData
<1>3. Len(c) = n + 1 /\ c[n + 1] = text
  BY <1>2, AppendProperties
<1> HIDE DEF c, n
<1>4. c # <<>>
  BY <1>1, <1>3
<1>5. c # <<Pragma>>
  <2> SUFFICES ASSUME c = <<Pragma>> PROVE FALSE
    OBVIOUS
  <2>1. Len(c) = 1 /\ c[1] = Pragma
    OBVIOUS
  <2>2. n = 0
    BY <1>1, <1>3, <2>1
  <2> QED
    BY <1>3, <2>1, <2>2, DistinctNames
<1> QED
  BY <1>4, <1>5 DEF c

\* For the script, one more header is one more header of its own.
LEMMA ScriptAdded ==
  ASSUME ListsOwned, ListsOwned', NEW text \in Header,
         Data(headers)' = Append(Data(headers), text)
  PROVE  /\ OwnInFront' <=> OwnInFront
         /\ ScriptHeaders' = Append(ScriptHeaders, text)
<1> DEFINE d == Data(headers)
           c == Append(d, text)
           n == Len(d)
<1>1. d \in Seq(NodeData) /\ n \in Nat /\ (OwnInFront <=> n > 0 /\ d[1] = Pragma)
  BY HeaderFacts
<1>2. OwnInFront' <=> Len(c) > 0 /\ c[1] = Pragma
  BY FrontFactsNext DEF FrontByData
<1>3. ScriptHeaders' = IF OwnInFront' THEN Tail(c) ELSE c
  BY DEF ScriptHeaders
<1>4. ScriptHeaders = IF OwnInFront THEN Tail(d) ELSE d
  BY DEF ScriptHeaders
<1> HIDE DEF d
<1>5. text \in NodeData
  BY DEF NodeData
<1>6. /\ Len(c) = n + 1 /\ c[n + 1] = text
      /\ \A k \in 1 .. n : c[k] = d[k]
  BY <1>1, <1>5, AppendProperties
<1>7. d # <<>> => Tail(c) = Append(Tail(d), text)
  BY <1>1, <1>5, HeadTailAppend
<1> HIDE DEF c, n
<1>8. CASE n = 0
  BY <1>1, <1>2, <1>3, <1>4, <1>6, <1>8, DistinctNames DEF c
<1>9. CASE n > 0
  <2>1. c[1] = d[1] /\ Len(c) > 0
    BY <1>1, <1>6, <1>9
  <2>2. OwnInFront' <=> OwnInFront
    BY <1>1, <1>2, <1>9, <2>1
  <2>3. d # <<>>
    BY <1>9 DEF n
  <2> QED
    BY <1>3, <1>4, <1>7, <2>2, <2>3 DEF c
<1>10. n = 0 \/ n > 0
  BY <1>1
<1> QED
  BY <1>8, <1>9, <1>10

\* and no headers are no headers.
LEMMA ScriptEmptied ==
  ASSUME ListsOwned', Data(headers)' = <<>>
  PROVE  ~OwnInFront' /\ ScriptHeaders' = <<>>
BY FrontFactsNext DEF FrontByData, ScriptHeaders

\* A step that leaves the lists alone leaves them alone for the script.
LEMMA ScriptKept ==
  ASSUME ListsOwned, ListsOwned', Data(headers)' = Data(headers)
  PROVE  (OwnInFront' <=> OwnInFront) /\ ScriptHeaders' = ScriptHeaders
BY FrontFacts, FrontFactsNext DEF FrontByData, ScriptHeaders

-----------------------------------------------------------------------------
(* The operations: what each does to the lists and to the options *)

\* The rest of the code sees an operation on the lists only as this.
ListOutcome(d, r) ==
  /\ ListsOwned' /\ OptionsFollow'
  /\ Data(headers)' = d /\ Data(recipients)' = r

\* easy_setopt with a header: one more, or none
LEMMA SetHeaderOutcome ==
  ASSUME ListsOwned, OptionsFollow, NEW text \in Header, SetoptHttpheader(text)
  PROVE  \/ ListOutcome(Append(Data(headers), text), Data(recipients))
         \/ ListOutcome(<<>>, Data(recipients))
<1>1. /\ m_curl' = [m_curl EXCEPT !.HTTPHEADER = headers']
      /\ recipients' = recipients
  BY DEF SetoptHttpheader
<1>2. m_curl' = [HTTPHEADER |-> headers', MAIL_RCPT |-> recipients']
  BY <1>1 DEF OptionsFollow
<1>3. ASSUME NEW n \in Fresh, heap' = Appended(heap, headers, text, n),
             headers' = AppendResult(headers, n), lost' = lost
      PROVE  ListOutcome(Append(Data(headers), text), Data(recipients))
  <2>1. text \in NodeData
    BY DEF NodeData
  <2>2. /\ ListsOwned' /\ Data(headers)' = Append(Data(headers), text)
        /\ Data(recipients)' = Data(recipients)
    BY <1>1, <1>3, <2>1, HeaderAdded
  <2>3. Append(Data(headers), text) \notin {<<>>, <<Pragma>>}
    <3>1. Data(headers) \in Seq(NodeData)
      BY HeaderFacts
    <3> QED
      BY <3>1, LongerList
  <2>4. OptionsFollow'
    BY <1>2, <2>2, <2>3 DEF OptionsFollow
  <2> QED
    BY <2>2, <2>4 DEF ListOutcome
<1>4. ASSUME headers' = NULL, heap' = heap,
             lost' = lost \cup ToSet(Nodes(heap, headers))
      PROVE  ListOutcome(<<>>, Data(recipients))
  <2>1. /\ ListsOwned' /\ Data(headers)' = <<>>
        /\ Data(recipients)' = Data(recipients)
    BY <1>1, <1>4, HeadersForgotten
  <2>2. OptionsFollow'
    BY <1>2, <1>4, <2>1 DEF OptionsFollow
  <2> QED
    BY <2>1, <2>2 DEF ListOutcome
<1> QED
  BY <1>3, <1>4 DEF SetoptHttpheader

\* easy_setopt with a recipient: one more, or none
LEMMA SetRecipientOutcome ==
  ASSUME ListsOwned, OptionsFollow, NEW address \in Recipient,
         SetoptMailRcpt(address)
  PROVE  \/ ListOutcome(Data(headers), Append(Data(recipients), address))
         \/ ListOutcome(Data(headers), <<>>)
<1>1. /\ m_curl' = [m_curl EXCEPT !.MAIL_RCPT = recipients']
      /\ headers' = headers
  BY DEF SetoptMailRcpt
<1>2. m_curl' = [HTTPHEADER |-> IF Data(headers) \in {<<>>, <<Pragma>>} THEN NULL
                                ELSE headers',
                 MAIL_RCPT |-> recipients']
  BY <1>1 DEF OptionsFollow
<1>3. ASSUME NEW n \in Fresh, heap' = Appended(heap, recipients, address, n),
             recipients' = AppendResult(recipients, n), lost' = lost
      PROVE  ListOutcome(Data(headers), Append(Data(recipients), address))
  <2>1. address \in NodeData
    BY DEF NodeData
  <2>2. /\ ListsOwned' /\ Data(recipients)' = Append(Data(recipients), address)
        /\ Data(headers)' = Data(headers)
    BY <1>1, <1>3, <2>1, RecipientAdded
  <2>3. OptionsFollow'
    BY <1>2, <2>2 DEF OptionsFollow
  <2> QED
    BY <2>2, <2>3 DEF ListOutcome
<1>4. ASSUME recipients' = NULL, heap' = heap,
             lost' = lost \cup ToSet(Nodes(heap, recipients))
      PROVE  ListOutcome(Data(headers), <<>>)
  <2>1. /\ ListsOwned' /\ Data(recipients)' = <<>>
        /\ Data(headers)' = Data(headers)
    BY <1>1, <1>4, RecipientsForgotten
  <2>2. OptionsFollow'
    BY <1>2, <2>1 DEF OptionsFollow
  <2> QED
    BY <2>1, <2>2 DEF ListOutcome
<1> QED
  BY <1>3, <1>4 DEF SetoptMailRcpt

\* easy_cleanup and the destructor: nothing is left.
LEMMA FreeOutcome ==
  ASSUME ListsOwned, easy_cleanup \/ Destruct
  PROVE  ListOutcome(<<>>, <<>>)
<1>1. /\ headers' = NULL /\ recipients' = NULL /\ m_curl' = NewHandle /\ lost' = lost
      /\ heap' = curl_slist_free_all(curl_slist_free_all(heap, headers), recipients)
  BY DEF easy_cleanup, Destruct
<1>2. ListsOwned' /\ Data(headers)' = <<>> /\ Data(recipients)' = <<>>
  BY <1>1, ListsFreed
<1>3. OptionsFollow'
  BY <1>1, <1>2 DEF OptionsFollow, NewHandle
<1> QED
  BY <1>2, <1>3 DEF ListOutcome

\* The constructor: the object's own header, or nothing
LEMMA ConstructOutcome ==
  ASSUME ListsOwned, headers = NULL, recipients = NULL, Construct
  PROVE  ListOutcome(<<Pragma>>, <<>>) \/ ListOutcome(<<>>, <<>>)
<1>1. m_curl' = NewHandle /\ recipients' = NULL /\ lost' = lost
  BY DEF Construct
<1>2. Data(headers) = <<>> /\ Data(recipients) = <<>>
  BY DataOfNothing
<1>3. ASSUME NEW n \in Fresh, heap' = Appended(heap, NULL, Pragma, n), headers' = n
      PROVE  ListOutcome(<<Pragma>>, <<>>)
  <2>1. Pragma \in NodeData /\ headers' = AppendResult(headers, n)
    BY <1>3 DEF NodeData, AppendResult
  <2>2. /\ ListsOwned' /\ Data(headers)' = Append(Data(headers), Pragma)
        /\ Data(recipients)' = Data(recipients)
    BY <1>1, <1>3, <2>1, HeaderAdded
  <2>3. Data(headers)' = <<Pragma>> /\ Data(recipients)' = <<>>
    BY <1>2, <2>2
  <2>4. OptionsFollow'
    BY <1>1, <2>3 DEF OptionsFollow, NewHandle
  <2> QED
    BY <2>2, <2>3, <2>4 DEF ListOutcome
<1>4. ASSUME heap' = heap, headers' = NULL
      PROVE  ListOutcome(<<>>, <<>>)
  <2>1. /\ ListsOwned' /\ Data(headers)' = <<>> /\ Data(recipients)' = <<>>
    BY <1>1, <1>2, <1>4, ListsKept
  <2>2. OptionsFollow'
    BY <1>1, <2>1 DEF OptionsFollow, NewHandle
  <2> QED
    BY <2>1, <2>2 DEF ListOutcome
<1> QED
  BY <1>3, <1>4 DEF Construct

\* The methods that only read the lists
LEMMA ReadOutcome ==
  ASSUME ListsOwned, OptionsFollow, UNCHANGED <<heap, headers, recipients, m_curl, lost>>
  PROVE  ListOutcome(Data(headers), Data(recipients))
<1>1. /\ ListsOwned' /\ Data(headers)' = Data(headers)
      /\ Data(recipients)' = Data(recipients)
  BY ListsKept
<1>2. OptionsFollow'
  BY <1>1 DEF OptionsFollow
<1> QED
  BY <1>1, <1>2 DEF ListOutcome

-----------------------------------------------------------------------------
(* The lookup of a method *)

\* Nothing changes in the tables.
LEMMA TablesKept ==
  ASSUME DispatchInv, UNCHANGED dispatchVars
  PROVE  DispatchInv' /\ (MapsReady' <=> MapsReady)
<1>1. hash' = hash /\ ppHashTable' = ppHashTable /\ toInsert' = toInsert
  BY DEF dispatchVars
<1> QED
  BY <1>1 DEF DispatchInv, MapsReady, Filled, OnlyDeclared, AllDeclared, Tables,
              Entry, EntryOf, GetHash

\* With filled tables the function that runs is the one that is meant; a name
\* without one runs nothing.
LEMMA RunsAsMeant ==
  ASSUME DispatchInv, MapsReady, NEW name \in Spelling
  PROVE  /\ \/ MeantFunction(name) = Runs(name)
            \/ MeantFunction(name) = "unknown" /\ Runs(name) = "none"
         /\ MeantFunction(name) \in Asked
<1> DEFINE t == <<"methods", "CcURL">>
           k == Meant[t][name]
           N == Len(endmeths["CcURL"])
<1>1. t \in Searched /\ t = Methods /\ Declared[t] = endmeths["CcURL"]
  <2>1. t \in Searched /\ t[1] = "methods" /\ t[2] = "CcURL"
    BY ObjectHasClass DEF Searched
  <2> QED
    BY <2>1 DEF Declared, Methods
<1>2. N \in Nat /\ DOMAIN endmeths["CcURL"] = 1 .. N /\ Count[t] = N
  BY <1>1, ObjectHasClass, DeclarationsAreLists DEF Count
<1>3. EnteredFrom(t) = 0
  BY DEF EnteredFrom, MapsReady
<1> HIDE DEF t
<1>4. k \in 0 .. N
  BY <1>1, <1>2, MeantFacts
<1>5. Find(t, name) = IF k > 0 THEN k - 1 ELSE -1
  <2>1. EnteredFrom(t) >= 0
    BY <1>3
  <2> QED
    BY <1>1, <1>3, <2>1, InvFinds DEF NameFindsDeclaration
<1>6. /\ MeantFunction(name) = IF k = 0 THEN "unknown" ELSE Function(k - 1)
  BY <1>1 DEF MeantFunction
<1> DEFINE n == Find(t, name)
           run == Called("CcURL", n, HasRetVal("CcURL", n))
<1>7. Runs(name) = IF run = -1 THEN "none" ELSE Function(run)
  BY <1>1 DEF Runs
<1> HIDE DEF k, N, n
<1>8. CASE k = 0
  <2>1. n = -1
    BY <1>5, <1>8 DEF n
  <2>2. run = -1
    BY <2>1 DEF Called
  <2> HIDE DEF run
  <2>3. MeantFunction(name) = "unknown" /\ Runs(name) = "none"
    BY <1>6, <1>7, <1>8, <2>2
  <2> QED
    BY <2>3 DEF Asked
<1>9. CASE k > 0
  <2>1. k \in 1 .. N /\ n = k - 1 /\ k - 1 # -1
    BY <1>2, <1>4, <1>5, <1>9 DEF n
  <2>2. run = k - 1
    BY <2>1, CalledAsDeclared, ObjectHasClass DEF N
  <2>3. Function(k - 1) = endmeths["CcURL"][k].fn
    BY <2>1 DEF Function
  <2> QED
    BY <1>2, <1>6, <1>7, <1>9, <2>1, <2>2, <2>3 DEF Asked, ToSet
<1>10. k = 0 \/ k > 0
  BY <1>2, <1>4
<1> QED
  BY <1>8, <1>9, <1>10

-----------------------------------------------------------------------------
(* A call *)

\* A call by name runs what the script asks for by that name; a method that is
\* not about the lists, or an option that is not, leaves them alone.
LEMMA CallAsAsked ==
  ASSUME DispatchInv, MapsReady, NEW c \in Calls, Call(c)
  PROVE  /\ UNCHANGED dispatchVars /\ asked' \in Asked
         /\ \/ asked' = "easy_setopt" /\ \E text \in Header : SetoptHttpheader(text)
            \/ /\ asked' = "easy_setopt"
               /\ \E address \in Recipient : SetoptMailRcpt(address)
            \/ asked' = "easy_cleanup" /\ easy_cleanup
            \/ asked' = "GetHeaders" /\ GetHeaders
            \/ asked' = "easy_perform" /\ easy_perform
            \/ /\ asked' \notin {"easy_cleanup", "GetHeaders", "easy_perform"}
               /\ OtherMethod
<1>1. PICK name \in Spelling : c = [meant |-> MeantFunction(name), runs |-> Runs(name)]
  BY DEF Calls
<1>2. c.meant = MeantFunction(name) /\ c.runs = Runs(name)
  BY <1>1
<1>3. /\ c.meant = c.runs \/ (c.meant = "unknown" /\ c.runs = "none")
      /\ c.meant \in Asked
  BY <1>2, RunsAsMeant
<1>4. UNCHANGED dispatchVars /\ asked' = c.meant
  BY DEF Call
<1>5. CASE c.runs = "easy_setopt"
  <2>1. asked' = "easy_setopt"
    BY <1>3, <1>4, <1>5
  <2>2. \/ \E text \in Header : SetoptHttpheader(text)
        \/ \E address \in Recipient : SetoptMailRcpt(address)
        \/ OtherMethod
    BY <1>5 DEF Call, ListFunctions
  <2> QED
    BY <1>3, <1>4, <2>1, <2>2
<1>6. CASE c.runs = "easy_cleanup"
  <2>1. easy_cleanup
    BY <1>6 DEF Call, ListFunctions
  <2> QED
    BY <1>3, <1>4, <1>6, <2>1
<1>7. CASE c.runs = "GetHeaders"
  <2>1. GetHeaders
    BY <1>7 DEF Call, ListFunctions
  <2> QED
    BY <1>3, <1>4, <1>7, <2>1
<1>8. CASE c.runs = "easy_perform"
  <2>1. easy_perform
    BY <1>8 DEF Call, ListFunctions
  <2> QED
    BY <1>3, <1>4, <1>8, <2>1
<1>9. CASE c.runs \notin ListFunctions
  <2>1. OtherMethod
    BY <1>9 DEF Call, ListFunctions
  <2>2. asked' \notin {"easy_cleanup", "GetHeaders", "easy_perform"}
    BY <1>3, <1>4, <1>9 DEF ListFunctions
  <2> QED
    BY <1>3, <1>4, <2>1, <2>2
<1> QED
  BY <1>5, <1>6, <1>7, <1>8, <1>9 DEF ListFunctions

-----------------------------------------------------------------------------
(* Every step is one of RequestHeaders. *)

\* A header is set.
LEMMA SetHeaderImplements ==
  ASSUME ListsOwned, OptionsFollow, NEW text \in Header, SetoptHttpheader(text),
         asked' = "easy_setopt"
  PROVE  ListsOwned' /\ OptionsFollow' /\ Abstract!SetHeader
<1>1. alive /\ alive' /\ answer' = NoAnswer
  BY DEF SetoptHttpheader
<1>2. CASE ListOutcome(Append(Data(headers), text), Data(recipients))
  <2>1. /\ ListsOwned' /\ OptionsFollow'
        /\ Data(headers)' = Append(Data(headers), text)
        /\ Data(recipients)' = Data(recipients)
    BY <1>2 DEF ListOutcome
  <2>2. /\ OwnInFront' <=> OwnInFront
        /\ ScriptHeaders' = Append(ScriptHeaders, text)
    BY <2>1, ScriptAdded
  <2>3. OwnInFront' = OwnInFront
    BY <2>2, Zenon
  <2> QED
    BY <1>1, <2>1, <2>2, <2>3
    DEF ScriptHeaders, Abstract!SetHeader, Abstract!Call, Abstract!NoAnswer, NoAnswer
<1>3. CASE ListOutcome(<<>>, Data(recipients))
  <2>1. /\ ListsOwned' /\ OptionsFollow'
        /\ Data(headers)' = <<>> /\ Data(recipients)' = Data(recipients)
    BY <1>3 DEF ListOutcome
  <2>2. ~OwnInFront' /\ ScriptHeaders' = <<>>
    BY <2>1, ScriptEmptied
  <2> QED
    BY <1>1, <2>1, <2>2
    DEF ScriptHeaders, Abstract!SetHeader, Abstract!Call, Abstract!NoAnswer, NoAnswer
<1> QED
  BY <1>2, <1>3, SetHeaderOutcome

\* A recipient is set.
LEMMA SetRecipientImplements ==
  ASSUME ListsOwned, OptionsFollow, NEW address \in Recipient,
         SetoptMailRcpt(address), asked' = "easy_setopt"
  PROVE  ListsOwned' /\ OptionsFollow' /\ Abstract!SetRecipient
<1>1. alive /\ alive' /\ answer' = NoAnswer
  BY DEF SetoptMailRcpt
<1>2. /\ ListsOwned' /\ OptionsFollow' /\ Data(headers)' = Data(headers)
      /\ \/ Data(recipients)' = Append(Data(recipients), address)
         \/ Data(recipients)' = <<>>
  BY SetRecipientOutcome DEF ListOutcome
<1>3. (OwnInFront' <=> OwnInFront) /\ ScriptHeaders' = ScriptHeaders
  BY <1>2, ScriptKept
<1>4. OwnInFront' = OwnInFront
  BY <1>3, Zenon
<1> QED
  BY <1>1, <1>2, <1>3, <1>4
  DEF ScriptHeaders, Abstract!SetRecipient, Abstract!Call, Abstract!NoAnswer, NoAnswer

\* easy_cleanup
LEMMA CleanupImplements ==
  ASSUME ListsOwned, easy_cleanup, asked' = "easy_cleanup"
  PROVE  ListsOwned' /\ OptionsFollow' /\ Abstract!Reset
<1>1. alive /\ alive' /\ answer' = NoAnswer
  BY DEF easy_cleanup
<1>2. /\ ListsOwned' /\ OptionsFollow'
      /\ Data(headers)' = <<>> /\ Data(recipients)' = <<>>
  BY FreeOutcome DEF ListOutcome
<1>3. ~OwnInFront' /\ ScriptHeaders' = <<>>
  BY <1>2, ScriptEmptied
<1> QED
  BY <1>1, <1>2, <1>3
  DEF ScriptHeaders, Abstract!Reset, Abstract!Call, Abstract!NoAnswer, NoAnswer

\* GetHeaders
LEMMA GetHeadersImplements ==
  ASSUME ListsOwned, OptionsFollow, GetHeaders, asked' = "GetHeaders"
  PROVE  ListsOwned' /\ OptionsFollow' /\ Abstract!List
<1>1. alive /\ alive'
  BY DEF GetHeaders
<1>2. UNCHANGED <<heap, headers, recipients, m_curl, lost>>
  BY DEF GetHeaders
<1>3. /\ ListsOwned' /\ OptionsFollow'
      /\ Data(headers)' = Data(headers) /\ Data(recipients)' = Data(recipients)
  BY <1>2, ReadOutcome DEF ListOutcome
<1>4. (OwnInFront' <=> OwnInFront) /\ ScriptHeaders' = ScriptHeaders
  BY <1>3, ScriptKept
<1>5. OwnInFront' = OwnInFront
  BY <1>4, Zenon
<1>6. /\ Data(headers) \in Seq(NodeData) /\ Len(Data(headers)) \in Nat
      /\ OwnInFront => headers # NULL
      /\ headers = NULL <=> Data(headers) = <<>>
  BY HeaderFacts
<1> DEFINE rows == IF headers = NULL THEN <<>> ELSE Tail(Data(headers))
           Rows == IF OwnInFront \/ ScriptHeaders = <<>> THEN ScriptHeaders
                   ELSE Tail(ScriptHeaders)
<1>7. rows = Rows
  BY <1>6 DEF ScriptHeaders
<1>8. headers = NULL <=> ~OwnInFront /\ ScriptHeaders = <<>>
  BY <1>6 DEF ScriptHeaders
<1>9. (headers = NULL) = (~OwnInFront /\ ScriptHeaders = <<>>)
  BY <1>8, Zenon
<1>10. answer' = [NoAnswer EXCEPT !.failed = headers = NULL, !.rows = rows]
  BY DEF GetHeaders
<1> HIDE DEF rows, Rows
<1>11. answer' = [NoAnswer EXCEPT !.failed = (~OwnInFront /\ ScriptHeaders = <<>>),
                                  !.rows = Rows]
  BY <1>7, <1>9, <1>10, Zenon
<1>12. answer' = [NoAnswer EXCEPT !.rows = Rows,
                                  !.failed = (~OwnInFront /\ ScriptHeaders = <<>>)]
  BY <1>11 DEF NoAnswer
<1> QED
  BY <1>1, <1>3, <1>4, <1>5, <1>12
  DEF ScriptHeaders, Rows, Abstract!List, Abstract!Rows, Abstract!Call,
      Abstract!NoAnswer, NoAnswer

\* easy_perform
LEMMA PerformImplements ==
  ASSUME ListsOwned, OptionsFollow, easy_perform, asked' = "easy_perform"
  PROVE  ListsOwned' /\ OptionsFollow' /\ Abstract!Send
<1>1. alive /\ alive'
  BY DEF easy_perform
<1>2. UNCHANGED <<heap, headers, recipients, m_curl, lost>>
  BY DEF easy_perform
<1>3. /\ ListsOwned' /\ OptionsFollow'
      /\ Data(headers)' = Data(headers) /\ Data(recipients)' = Data(recipients)
  BY <1>2, ReadOutcome DEF ListOutcome
<1>4. (OwnInFront' <=> OwnInFront) /\ ScriptHeaders' = ScriptHeaders
  BY <1>3, ScriptKept
<1>5. OwnInFront' = OwnInFront
  BY <1>4, Zenon
<1> DEFINE d == Data(headers)
           sent == IF ScriptHeaders = <<>> THEN <<>>
                   ELSE IF OwnInFront THEN <<Pragma>> \o ScriptHeaders
                   ELSE ScriptHeaders
<1>6. m_curl.MAIL_RCPT = recipients
  BY DEF OptionsFollow
<1>7. m_curl.HTTPHEADER = IF d \in {<<>>, <<Pragma>>} THEN NULL ELSE headers
  BY DEF OptionsFollow
<1>8. /\ d \in Seq(NodeData) /\ Len(d) \in Nat
      /\ OwnInFront <=> Len(d) > 0 /\ d[1] = Pragma
  BY HeaderFacts
<1>9. Data(m_curl.HTTPHEADER) = IF d \in {<<>>, <<Pragma>>} THEN <<>> ELSE d
  BY <1>7, DataOfNothing
<1>10. ScriptHeaders = IF OwnInFront THEN Tail(d) ELSE d
  BY DEF ScriptHeaders
<1> HIDE DEF d
<1>11. Data(m_curl.HTTPHEADER) = sent
  <2>1. CASE OwnInFront
    <3>1. d # <<>> /\ Head(d) = Pragma
      BY <1>8, <2>1
    <3>2. d = <<Pragma>> \o Tail(d)
      BY <1>8, <3>1
    <3>3. d = <<Pragma>> <=> Tail(d) = <<>>
      <4>1. Tail(d) \in Seq(NodeData) /\ Len(Tail(d)) = Len(d) - 1
        BY <1>8, <3>1, HeadTailProperties
      <4>2. d = <<Pragma>> <=> Len(d) = 1
        BY <1>8, <2>1
      <4>3. Tail(d) = <<>> <=> Len(Tail(d)) = 0
        BY <4>1, EmptySeq
      <4> QED
        BY <1>8, <4>1, <4>2, <4>3
    <3> QED
      BY <1>9, <1>10, <2>1, <3>1, <3>2, <3>3
  <2>2. CASE ~OwnInFront
    <3>1. d # <<Pragma>>
      BY <1>8, <2>2
    <3> QED
      BY <1>9, <1>10, <2>2, <3>1
  <2> QED
    BY <2>1, <2>2
<1>12. answer' = [NoAnswer EXCEPT !.headers = sent, !.recipients = Data(recipients)]
  BY <1>6, <1>11 DEF easy_perform
<1> QED
  BY <1>1, <1>3, <1>4, <1>5, <1>12
  DEF ScriptHeaders, Abstract!Send, Abstract!Call, Abstract!NoAnswer, NoAnswer

\* A method that has nothing to do with the lists
LEMMA OtherImplements ==
  ASSUME ListsOwned, OptionsFollow, OtherMethod,
         asked' \notin {"easy_cleanup", "GetHeaders", "easy_perform"}
  PROVE  ListsOwned' /\ OptionsFollow' /\ Abstract!Other
<1>1. alive /\ alive' /\ answer' = NoAnswer
  BY DEF OtherMethod
<1>2. UNCHANGED <<heap, headers, recipients, m_curl, lost>>
  BY DEF OtherMethod
<1>3. /\ ListsOwned' /\ OptionsFollow'
      /\ Data(headers)' = Data(headers) /\ Data(recipients)' = Data(recipients)
  BY <1>2, ReadOutcome DEF ListOutcome
<1>4. (OwnInFront' <=> OwnInFront) /\ ScriptHeaders' = ScriptHeaders
  BY <1>3, ScriptKept
<1>5. OwnInFront' = OwnInFront
  BY <1>4, Zenon
<1> QED
  BY <1>1, <1>3, <1>4, <1>5
  DEF ScriptHeaders, Abstract!Other, Abstract!NoAnswer, NoAnswer

\* The constructor
LEMMA CreateImplements ==
  ASSUME ListsOwned, headers = NULL, recipients = NULL, Construct, asked' = "none"
  PROVE  ListsOwned' /\ OptionsFollow' /\ Abstract!Create
<1>1. ~alive /\ alive' /\ answer' = NoAnswer
  BY DEF Construct
<1>2. /\ ListsOwned' /\ OptionsFollow' /\ Data(recipients)' = <<>>
      /\ Data(headers)' = <<Pragma>> \/ Data(headers)' = <<>>
  BY ConstructOutcome DEF ListOutcome
<1>3. ScriptHeaders' = <<>>
  <2>1. CASE Data(headers)' = <<Pragma>>
    <3>1. OwnInFront'
      BY <1>2, <2>1, FrontFactsNext DEF FrontByData
    <3>2. Tail(<<Pragma>>) = <<>>
      OBVIOUS
    <3> QED
      BY <2>1, <3>1, <3>2 DEF ScriptHeaders
  <2>2. CASE Data(headers)' = <<>>
    BY <1>2, <2>2, ScriptEmptied
  <2> QED
    BY <1>2, <2>1, <2>2
<1>4. OwnInFront' \in BOOLEAN
  BY DEF OwnInFront
<1> QED
  BY <1>1, <1>2, <1>3, <1>4
  DEF ScriptHeaders, Abstract!Create, Abstract!NoAnswer, NoAnswer

\* The destructor
LEMMA DestructImplements ==
  ASSUME ListsOwned, Destruct, asked' = "none"
  PROVE  ListsOwned' /\ OptionsFollow' /\ Abstract!Destroy
<1>1. alive /\ ~alive' /\ answer' = NoAnswer
  BY DEF Destruct
<1>2. /\ ListsOwned' /\ OptionsFollow'
      /\ Data(headers)' = <<>> /\ Data(recipients)' = <<>>
  BY FreeOutcome DEF ListOutcome
<1>3. ~OwnInFront' /\ ScriptHeaders' = <<>>
  BY <1>2, ScriptEmptied
<1> QED
  BY <1>1, <1>2, <1>3
  DEF ScriptHeaders, Abstract!Destroy, Abstract!NoAnswer, NoAnswer

-----------------------------------------------------------------------------
(* The invariant holds at all times. *)

\* It holds at the start.
LEMMA ScriptInitInv == ScriptInit => ScriptInv
<1> SUFFICES ASSUME ScriptInit PROVE ScriptInv
  OBVIOUS
<1>1. DispatchInv
  BY DispatchInitInv DEF ScriptInit
<1>2. /\ heap = <<>> /\ headers = NULL /\ recipients = NULL /\ m_curl = NewHandle
      /\ alive = FALSE /\ lost = {} /\ asked = "none"
  BY DEF ScriptInit, ListInit
<1>3. HeaderNodes = <<>> /\ RecipientNodes = <<>>
  BY <1>2, EmptyOwned, OwnedNodes DEF HeaderNodes, RecipientNodes
<1>4. ListsOwned
  BY <1>2, <1>3, EmptyOwned DEF ListsOwned
<1>5. Data(headers) = <<>>
  BY <1>2, <1>4, DataOfNothing
<1>6. OptionsFollow
  BY <1>2, <1>5 DEF OptionsFollow, NewHandle
<1>7. ObjectComplete
  BY <1>2 DEF ObjectComplete
<1>8. asked \in Asked
  BY <1>2 DEF Asked
<1> QED
  BY <1>1, <1>4, <1>6, <1>7, <1>8 DEF ScriptInv

\* A call keeps it, and is a step of RequestHeaders.
LEMMA CallStep ==
  ASSUME ScriptInv, alive, NEW c \in Calls, Call(c)
  PROVE  ScriptInv' /\ Abstract!Next
<1>1. DispatchInv /\ ListsOwned /\ OptionsFollow /\ ObjectComplete /\ MapsReady
  BY DEF ScriptInv, ObjectComplete
<1>2. UNCHANGED dispatchVars /\ asked' \in Asked
  BY <1>1, CallAsAsked
<1>3. DispatchInv' /\ MapsReady'
  BY <1>1, <1>2, TablesKept
<1>4. ASSUME alive', ListsOwned', OptionsFollow' PROVE ScriptInv'
  <2>1. alive' \in BOOLEAN
    BY <1>1 DEF ObjectComplete, Call, SetoptHttpheader, SetoptMailRcpt, OtherMethod,
                easy_cleanup, GetHeaders, easy_perform
  <2>2. ObjectComplete'
    BY <1>3, <1>4, <2>1 DEF ObjectComplete
  <2> QED
    BY <1>2, <1>3, <1>4, <2>2 DEF ScriptInv
<1>5. ASSUME NEW text \in Header, SetoptHttpheader(text), asked' = "easy_setopt"
      PROVE  ScriptInv' /\ Abstract!Next
  <2>1. ListsOwned' /\ OptionsFollow' /\ Abstract!SetHeader
    BY <1>1, <1>5, SetHeaderImplements
  <2>2. alive'
    BY <1>5 DEF SetoptHttpheader
  <2> QED
    BY <1>4, <2>1, <2>2 DEF Abstract!Next
<1>6. ASSUME NEW address \in Recipient, SetoptMailRcpt(address),
             asked' = "easy_setopt"
      PROVE  ScriptInv' /\ Abstract!Next
  <2>1. ListsOwned' /\ OptionsFollow' /\ Abstract!SetRecipient
    BY <1>1, <1>6, SetRecipientImplements
  <2>2. alive'
    BY <1>6 DEF SetoptMailRcpt
  <2> QED
    BY <1>4, <2>1, <2>2 DEF Abstract!Next
<1>7. ASSUME easy_cleanup, asked' = "easy_cleanup"
      PROVE  ScriptInv' /\ Abstract!Next
  <2>1. ListsOwned' /\ OptionsFollow' /\ Abstract!Reset
    BY <1>1, <1>7, CleanupImplements
  <2>2. alive'
    BY <1>7 DEF easy_cleanup
  <2> QED
    BY <1>4, <2>1, <2>2 DEF Abstract!Next
<1>8. ASSUME GetHeaders, asked' = "GetHeaders"
      PROVE  ScriptInv' /\ Abstract!Next
  <2>1. ListsOwned' /\ OptionsFollow' /\ Abstract!List
    BY <1>1, <1>8, GetHeadersImplements
  <2>2. alive'
    BY <1>8 DEF GetHeaders
  <2> QED
    BY <1>4, <2>1, <2>2 DEF Abstract!Next
<1>9. ASSUME easy_perform, asked' = "easy_perform"
      PROVE  ScriptInv' /\ Abstract!Next
  <2>1. ListsOwned' /\ OptionsFollow' /\ Abstract!Send
    BY <1>1, <1>9, PerformImplements
  <2>2. alive'
    BY <1>9 DEF easy_perform
  <2> QED
    BY <1>4, <2>1, <2>2 DEF Abstract!Next
<1>10. ASSUME OtherMethod, asked' \notin {"easy_cleanup", "GetHeaders", "easy_perform"}
       PROVE  ScriptInv' /\ Abstract!Next
  <2>1. ListsOwned' /\ OptionsFollow' /\ Abstract!Other
    BY <1>1, <1>10, OtherImplements
  <2>2. alive'
    BY <1>10 DEF OtherMethod
  <2> QED
    BY <1>4, <2>1, <2>2 DEF Abstract!Next
<1>11. \/ asked' = "easy_setopt" /\ \E text \in Header : SetoptHttpheader(text)
       \/ /\ asked' = "easy_setopt"
          /\ \E address \in Recipient : SetoptMailRcpt(address)
       \/ asked' = "easy_cleanup" /\ easy_cleanup
       \/ asked' = "GetHeaders" /\ GetHeaders
       \/ asked' = "easy_perform" /\ easy_perform
       \/ /\ asked' \notin {"easy_cleanup", "GetHeaders", "easy_perform"}
          /\ OtherMethod
  BY <1>1, CallAsAsked
<1> QED
  BY <1>5, <1>6, <1>7, <1>8, <1>9, <1>10, <1>11

\* Filling the tables, or doing nothing, changes nothing for the script.
LEMMA Unseen ==
  ASSUME ScriptInv, UNCHANGED <<listVars, asked>>, DispatchInv',
         alive => MapsReady'
  PROVE  ScriptInv' /\ UNCHANGED <<alive, asked, ScriptHeaders, OwnInFront,
                                   Data(recipients), answer>>
<1>1. /\ heap' = heap /\ headers' = headers /\ recipients' = recipients
      /\ m_curl' = m_curl /\ lost' = lost /\ answer' = answer /\ asked' = asked
  BY DEF listVars
<1>2. alive' = alive
  BY DEF listVars
<1>3. ListsOwned /\ OptionsFollow /\ ObjectComplete /\ asked \in Asked
  BY DEF ScriptInv
<1>4. /\ ListsOwned' /\ OptionsFollow'
      /\ Data(headers)' = Data(headers) /\ Data(recipients)' = Data(recipients)
  BY <1>1, <1>3, ReadOutcome DEF ListOutcome
<1>5. (OwnInFront' <=> OwnInFront) /\ ScriptHeaders' = ScriptHeaders
  BY <1>3, <1>4, ScriptKept
<1>6. OwnInFront' = OwnInFront
  BY <1>5, Zenon
<1>7. ObjectComplete'
  BY <1>1, <1>2, <1>3 DEF ObjectComplete
<1>8. asked' \in Asked
  BY <1>1, <1>3
<1>9. ScriptInv'
  BY <1>4, <1>7, <1>8 DEF ScriptInv
<1> QED
  BY <1>1, <1>2, <1>4, <1>5, <1>6, <1>9

\* Every step keeps the invariant and is a step of RequestHeaders or none.
LEMMA ScriptStep ==
  ASSUME ScriptInv, [ScriptNext]_scriptVars
  PROVE  /\ ScriptInv'
         /\ \/ Abstract!Next
            \/ UNCHANGED <<alive, asked, ScriptHeaders, OwnInFront,
                           Data(recipients), answer>>
<1>1. DispatchInv /\ ListsOwned /\ OptionsFollow /\ ObjectComplete
  BY DEF ScriptInv
<1>2. CASE FirstObject
  <2>1. DispatchInv'
    BY <1>1, <1>2, FirstObjectInv DEF FirstObject
  <2> QED
    BY <1>2, <2>1, Unseen DEF FirstObject
<1>3. CASE FillMaps
  <2>1. PICK t \in Hashed : AddNames(t) /\ UNCHANGED <<listVars, asked>>
    BY <1>3 DEF FillMaps
  <2>2. DispatchInv'
    BY <1>1, <2>1, AddNamesInv
  <2>3. ~alive
    <3>1. toInsert[t] > 0
      BY <2>1 DEF AddNames
    <3>2. toInsert[t] # 0
      BY <3>1
    <3> QED
      BY <1>1, <3>2 DEF ObjectComplete, MapsReady
  <2> QED
    BY <2>1, <2>2, <2>3, Unseen
<1>4. CASE CreateObject
  <2>1. MapsReady /\ Construct /\ asked' = "none" /\ UNCHANGED dispatchVars
    BY <1>4 DEF CreateObject
  <2>2. ~alive /\ alive' = TRUE
    BY <2>1 DEF Construct
  <2>3. headers = NULL /\ recipients = NULL
    BY <1>1, <2>2 DEF ObjectComplete
  <2>4. ListsOwned' /\ OptionsFollow' /\ Abstract!Create
    BY <1>1, <2>1, <2>3, CreateImplements
  <2>5. DispatchInv' /\ MapsReady'
    BY <1>1, <2>1, TablesKept
  <2>6. ObjectComplete' /\ asked' \in Asked
    BY <2>1, <2>2, <2>5 DEF ObjectComplete, Asked
  <2> QED
    BY <2>4, <2>5, <2>6 DEF ScriptInv, Abstract!Next
<1>5. CASE alive /\ \E c \in Calls : Call(c)
  BY <1>5, CallStep
<1>6. CASE ReleaseObject
  <2>1. Destruct /\ asked' = "none" /\ UNCHANGED dispatchVars
    BY <1>6 DEF ReleaseObject
  <2>2. alive' = FALSE /\ headers' = NULL /\ recipients' = NULL
    BY <2>1 DEF Destruct
  <2>3. ListsOwned' /\ OptionsFollow' /\ Abstract!Destroy
    BY <1>1, <2>1, DestructImplements
  <2>4. DispatchInv'
    BY <1>1, <2>1, TablesKept
  <2>5. ObjectComplete' /\ asked' \in Asked
    BY <2>1, <2>2 DEF ObjectComplete, Asked
  <2> QED
    BY <2>3, <2>4, <2>5 DEF ScriptInv, Abstract!Next
<1>7. CASE UNCHANGED scriptVars
  <2>1. UNCHANGED dispatchVars /\ UNCHANGED <<listVars, asked>>
    BY <1>7, Zenon DEF scriptVars
  <2>2. DispatchInv' /\ (MapsReady' <=> MapsReady)
    BY <1>1, <2>1, TablesKept
  <2>3. alive => MapsReady'
    BY <1>1, <2>2 DEF ObjectComplete
  <2> QED
    BY <2>1, <2>2, <2>3, Unseen
<1> QED
  BY <1>2, <1>3, <1>4, <1>5, <1>6, <1>7 DEF ScriptNext

\* The invariant of the tables and the lists, for every script
THEOREM Invariance == ScriptSpec => []ScriptInv
<1>1. ScriptInv /\ [ScriptNext]_scriptVars => ScriptInv'
  BY ScriptStep
<1> QED
  BY <1>1, ScriptInitInv, PTL DEF ScriptSpec

-----------------------------------------------------------------------------
(* The properties *)

\* The lists are well formed: no next leads out of the memory in use.
LEMMA InvListTyped ==
  ASSUME ScriptInv
  PROVE  ListTypeOK
<1> DEFINE s == HeaderNodes
           r == RecipientNodes
<1>1. Owned(heap, headers, s, recipients, r, lost)
  BY DEF ScriptInv, ListsOwned
<1>2. /\ heap \in [DOMAIN heap -> NodeRecord] /\ DOMAIN heap \subseteq Node
      /\ DOMAIN heap = Range(s) \cup Range(r) \cup lost
  BY <1>1 DEF Owned
<1>3. IsChain(heap, headers, s) /\ IsChain(heap, recipients, r)
  BY <1>1 DEF Owned
<1>4. ASSUME NEW p, NEW c, IsChain(heap, p, c)
      PROVE  /\ \A n \in Range(c) : heap[n].next \in DOMAIN heap \cup {NULL}
             /\ p \in DOMAIN heap \cup {NULL}
  <2>1. c \in Seq(Node) /\ Len(c) \in Nat /\ DOMAIN c = 1 .. Len(c)
    BY <1>4, LenProperties DEF IsChain
  <2>2. \A k \in 1 .. Len(c) : c[k] \in DOMAIN heap
    BY <1>4 DEF IsChain
  <2>3. ASSUME NEW n \in Range(c) PROVE heap[n].next \in DOMAIN heap \cup {NULL}
    <3>1. PICK k \in 1 .. Len(c) : n = c[k]
      BY <2>1 DEF Range
    <3>2. heap[n].next = IF k < Len(c) THEN c[k + 1] ELSE NULL
      BY <1>4, <3>1 DEF IsChain
    <3>3. k < Len(c) => k + 1 \in 1 .. Len(c)
      BY <2>1
    <3> QED
      BY <2>2, <3>2, <3>3
  <2>4. p \in DOMAIN heap \cup {NULL}
    <3>1. p = IF Len(c) = 0 THEN NULL ELSE c[1]
      BY <1>4 DEF IsChain
    <3>2. Len(c) # 0 => 1 \in 1 .. Len(c)
      BY <2>1
    <3> QED
      BY <2>2, <3>1, <3>2
  <2> QED
    BY <2>3, <2>4
<1>5. \A n \in lost : heap[n].next \in lost \cup {NULL}
  BY <1>1 DEF Owned
<1> HIDE DEF s, r
<1>6. \A n \in DOMAIN heap : heap[n].next \in DOMAIN heap \cup {NULL}
  BY <1>2, <1>3, <1>4, <1>5
<1>7. headers \in Pointer /\ recipients \in Pointer
  BY <1>2, <1>3, <1>4 DEF Pointer
<1>8. m_curl \in [HTTPHEADER : Pointer, MAIL_RCPT : Pointer]
  BY <1>7 DEF ScriptInv, OptionsFollow, Pointer
<1>9. lost \subseteq Node
  BY <1>2
<1>10. alive \in BOOLEAN
  BY DEF ScriptInv, ObjectComplete
<1> QED
  BY <1>2, <1>6, <1>7, <1>8, <1>9, <1>10 DEF ListTypeOK, Allocated

\* Type correctness: after any sequence of calls the tables and the lists are
\* well formed, and no node points to memory that was given back.
THEOREM TypeCorrect == ScriptSpec => []ScriptTypeOK
<1>1. ScriptInv => ScriptTypeOK
  BY InvListTyped, InvTyped DEF ScriptInv, ScriptTypeOK
<1> QED
  BY <1>1, Invariance, PTL

\* FindMethod and FindProp lead every spelling of every name to its
\* declaration, for all classes, all declarations and all hash functions, also
\* while the constructor of the first object is filling the tables.
THEOREM FindsByName == ScriptSpec => []NameFindsDeclaration
<1>1. ScriptInv => NameFindsDeclaration
  BY InvFinds DEF ScriptInv
<1> QED
  BY <1>1, Invariance, PTL

\* HasRetVal, CallAsFunc, CallAsProc, GetNParams, IsPropReadable and
\* IsPropWritable answer what the declaration says, for all declarations and
\* whichever kind is the rarer one.
THEOREM AnswersAsDeclared == ScriptSpec => []AnswersMatchDeclarations
<1>1. ScriptInv => AnswersMatchDeclarations
  BY InvAnswers DEF ScriptInv
<1> QED
  BY <1>1, Invariance, PTL

\* The options of the easy handle never point to a list that easy_cleanup or a
\* failed curl_slist_append took away, for any amount of memory.
THEOREM OptionsAreLive == ScriptSpec => []OptionsPointToLists
<1>1. ScriptInv => OptionsPointToLists
  BY DEF ScriptInv, OptionsFollow, OptionsPointToLists
<1> QED
  BY <1>1, Invariance, PTL

\* Every node that curl_slist_append allocated is on exactly one list, or was
\* forgotten when memory ran out; every list ends.
THEOREM NodesAreAccounted == ScriptSpec => []NodesAccounted
<1>1. ScriptInv => NodesAccounted
  <2> SUFFICES ASSUME ScriptInv PROVE NodesAccounted
    OBVIOUS
  <2> DEFINE s == HeaderNodes
             r == RecipientNodes
  <2>1. Owned(heap, headers, s, recipients, r, lost)
    BY DEF ScriptInv, ListsOwned
  <2>2. /\ DOMAIN heap = Range(s) \cup Range(r) \cup lost
        /\ Range(s) \cap Range(r) = {} /\ (Range(s) \cup Range(r)) \cap lost = {}
    BY <2>1 DEF Owned
  <2>3. IsChain(heap, headers, s) /\ IsChain(heap, recipients, r)
    BY <2>1 DEF Owned
  <2>4. ASSUME NEW p, NEW c, IsChain(heap, p, c), Nodes(heap, p) = c, p # NULL
        PROVE  p \in Allocated /\ heap[slist_get_last(heap, p)].next = NULL
    <3>1. c \in Seq(Node) /\ Len(c) \in Nat
      BY <2>4, LenProperties DEF IsChain
    <3>2. Len(c) # 0 /\ p = c[1]
      BY <2>4 DEF IsChain
    <3>3. 1 \in 1 .. Len(c) /\ Len(c) \in 1 .. Len(c)
      BY <3>1, <3>2
    <3>4. heap[c[Len(c)]].next = NULL
      BY <2>4, <3>1, <3>3 DEF IsChain
    <3>5. p \in DOMAIN heap
      BY <2>4, <3>2, <3>3 DEF IsChain
    <3> QED
      BY <2>4, <3>4, <3>5 DEF Allocated, slist_get_last, Last
  <2>5. Nodes(heap, headers) = s /\ Nodes(heap, recipients) = r
    BY DEF HeaderNodes, RecipientNodes
  <2>6. ToSet(s) = Range(s) /\ ToSet(r) = Range(r)
    BY DEF ToSet, Range
  <2> HIDE DEF s, r
  <2>7. \A list \in {headers, recipients} \ {NULL} :
          list \in Allocated /\ heap[slist_get_last(heap, list)].next = NULL
    BY <2>3, <2>4, <2>5
  <2> QED
    BY <2>2, <2>5, <2>6, <2>7 DEF NodesAccounted, Allocated
<1> QED
  BY <1>1, Invariance, PTL

\* The lookup by name, the linked lists and the handle options together do
\* what RequestHeaders promises, for every script, all names, all hash
\* functions and any amount of memory.
THEOREM Implements == ScriptSpec => ImplementsRequestHeaders
<1>1. ScriptInit => Abstract!Init
  <2> SUFFICES ASSUME ScriptInit PROVE Abstract!Init
    OBVIOUS
  <2>1. /\ headers = NULL /\ recipients = NULL /\ asked = "none"
        /\ answer = NoAnswer
    BY DEF ScriptInit, ListInit
  <2>2. alive = FALSE
    BY DEF ScriptInit, ListInit
  <2>3. Data(NULL) = <<>>
    BY ScriptInitInv, DataOfNothing DEF ScriptInv
  <2>4. ~OwnInFront
    BY <2>1 DEF OwnInFront
  <2> QED
    BY <2>1, <2>2, <2>3, <2>4
    DEF Abstract!Init, Abstract!Nothing, Abstract!NoAnswer, NoAnswer
<1>2. ScriptInv /\ [ScriptNext]_scriptVars
        => [Abstract!Next]_<<alive, asked, ScriptHeaders, OwnInFront,
                             Data(recipients), answer>>
  BY ScriptStep
<1> QED
  BY <1>1, <1>2, Invariance, PTL
  DEF ScriptSpec, ImplementsRequestHeaders, Abstract!Spec, ScriptHeaders

=============================================================================
