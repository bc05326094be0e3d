------------------------------ MODULE StringMap -------------------------------
(***************************************************************************)
(* CIStringMap, the hash table behind CCollection and the parameter tables: *)
(* chained buckets, cells that come from blocks through a free list, and a  *)
(* table that is rebuilt when it gets too full or too empty.                *)
(*                                                                         *)
(* A chain is the sequence of its cells from the head on.  A cell is its    *)
(* number in the order of allocation.  Keys stand for strings that differ   *)
(* by more than their case, so that Compare is equality.                    *)
(***************************************************************************)
EXTENDS Integers, SequencesExt

CONSTANTS
  Key, Value,
  HashKey,                   \* the full hash of every key; keys may collide
  DEFAULT_HASH_TABLE_SIZE,
  DEFAULT_BLOCK_SIZE_RATIO,
  DEFAULT_MAX_BLOCK_SIZE,
  Wanted                     \* the sizes users ask InitHashTable for (bound)

ASSUME HashIsNatural == HashKey \in [Key -> Nat]
ASSUME SizesArePositive ==
  /\ DEFAULT_BLOCK_SIZE_RATIO \in Nat \ {0}
  /\ DEFAULT_MAX_BLOCK_SIZE \in Nat \ {0}
  /\ DEFAULT_HASH_TABLE_SIZE \in Nat
  /\ DEFAULT_HASH_TABLE_SIZE >= DEFAULT_BLOCK_SIZE_RATIO
ASSUME WantedSizes == Wanted \subseteq Nat

VARIABLES
  m_pHashTable,      \* the chains by bucket; no bucket when the pointer is NULL
  m_nHashTableSize,
  m_nCount,
  m_pFreeList,       \* the free cells, from the head on
  cells,             \* how many cells the blocks hold
  m_nBlockSize,
  assoc,             \* key, value and nHashValue of the cells in use
  iterating,         \* a user is between GetStartPosition and the last key
  pos,               \* its POSITION
  visited            \* the keys that iteration has returned

table == <<m_pHashTable, m_nHashTableSize, m_nBlockSize>>
pool == <<m_nCount, m_pFreeList, cells>>
iteration == <<iterating, pos, visited>>
vars == <<table, pool, assoc, iteration>>

NULL == 0
BEFORE_START_POSITION == -1

HasTable == DOMAIN m_pHashTable # {}
Bucket(hash) == hash % m_nHashTableSize

-----------------------------------------------------------------------------
(* GetAssocAt: the cell of a key, or NULL. *)

Matches(c, key) == assoc[c].nHashValue = HashKey[key] /\ assoc[c].key = key

\* Where the key is in a chain, or 0
Position(chain, key) == SelectInSeq(chain, LAMBDA c : Matches(c, key))

GetAssocAt(key) ==
  IF ~HasTable THEN NULL
  ELSE LET chain == m_pHashTable[Bucket(HashKey[key])]
           k == Position(chain, key) IN
       IF k = 0 THEN NULL ELSE chain[k]

(* InitHashTable *)

\* The least power of two not below n: b2 after each round of the loop
PowerAbove(n) ==
  LET b2[k \in 0 .. n] ==
        IF k = 0 THEN 1
        ELSE IF b2[k - 1] < n THEN b2[k - 1] * 2 ELSE b2[k - 1]
  IN b2[n]

NewSize(n) ==
  PowerAbove(Max({n, DEFAULT_HASH_TABLE_SIZE})) + 1

BlockSize(size) ==
  Min({DEFAULT_MAX_BLOCK_SIZE, size \div DEFAULT_BLOCK_SIZE_RATIO})

Traversal(buckets) ==
  FlattenSeq([j \in 1 .. Cardinality(DOMAIN buckets) |-> buckets[j - 1]])

\* Mutant: the cells go to the bucket of the old size.
RehashByOldSize(buckets, size) ==
  [j \in 0 .. size - 1 |->
     IF j \in DOMAIN buckets THEN Reverse(buckets[j]) ELSE <<>>]

\* Every cell is taken off its chain in turn and put at the head of the new
\* one.
Rehash(buckets, size) ==
  LET moving == Traversal(buckets)
      new[n \in 0 .. Len(moving)] ==
        IF n = 0 THEN [j \in 0 .. size - 1 |-> <<>>]
        ELSE [new[n - 1] EXCEPT ![assoc[moving[n]].nHashValue % size] =
                                   Cons(moving[n], @)]
  IN new[Len(moving)]

\* The table, its size and the block size when it is not rebuilt
Kept(buckets) ==
  [buckets |-> buckets, size |-> m_nHashTableSize, block |-> m_nBlockSize]

\* The same after InitHashTable(n), which does nothing when the table would get
\* too small.
InitHashTable(n, buckets, count) ==
  IF n > count \/ n > m_nHashTableSize
  THEN [buckets |-> Rehash(buckets, NewSize(n)), size |-> NewSize(n),
        block |-> BlockSize(NewSize(n))]
  ELSE Kept(buckets)

NewTable(t) ==
  /\ m_pHashTable' = t.buckets
  /\ m_nHashTableSize' = t.size
  /\ m_nBlockSize' = t.block

(* NewAssoc and FreeAssoc *)

\* The free list that NewAssoc takes its cell from: a new block if need be.
Replenished(block) ==
  IF m_pFreeList = <<>> THEN [k \in 1 .. block |-> cells + k] ELSE m_pFreeList

\* Mutant: the cell is not given back.
FreeNothing(c) == m_pFreeList

FreeAssoc(c) == Cons(c, m_pFreeList)

-----------------------------------------------------------------------------
\* m_nBlockSize has no value yet; InitHashTable sets it before it is read.
Init ==
  /\ m_pHashTable = [j \in {} |-> <<>>]
  /\ m_nHashTableSize = DEFAULT_HASH_TABLE_SIZE
  /\ m_nBlockSize = 0
  /\ m_nCount = 0 /\ m_pFreeList = <<>> /\ cells = 0
  /\ assoc = [c \in {} |-> c]
  /\ iterating = FALSE /\ pos = NULL /\ visited = <<>>

\* Mutant: the value goes to every key with the same hash.
SetSameHash(key, value) ==
  /\ GetAssocAt(key) # NULL
  /\ assoc' = [c \in DOMAIN assoc |->
                 IF assoc[c].nHashValue = HashKey[key]
                 THEN [assoc[c] EXCEPT !.value = value] ELSE assoc[c]]
  /\ UNCHANGED <<table, pool, iteration>>

\* SetAt of a key that is present; users do this while they iterate.
SetExisting(key, value) ==
  /\ GetAssocAt(key) # NULL
  /\ assoc' = [assoc EXCEPT ![GetAssocAt(key)].value = value]
  /\ UNCHANGED <<table, pool, iteration>>

\* Mutant: the table never grows.
NeverGrown ==
  IF HasTable THEN Kept(m_pHashTable)
  ELSE InitHashTable(m_nHashTableSize, m_pHashTable, m_nCount)

\* The table that operator[] adds a new key to
Grown ==
  IF ~HasTable
  THEN InitHashTable(m_nHashTableSize, m_pHashTable, m_nCount)
  ELSE IF m_nCount * 2 >= m_nHashTableSize
  THEN InitHashTable(m_nHashTableSize * 2, m_pHashTable, m_nCount)
  ELSE Kept(m_pHashTable)

\* SetAt of a key that is not present
SetNew(key, value) ==
  /\ ~iterating /\ GetAssocAt(key) = NULL
  /\ LET t == Grown
         free == Replenished(t.block)
         c == Head(free)
         nHash == HashKey[key] % t.size IN
     /\ NewTable([t EXCEPT !.buckets[nHash] = Cons(c, @)])
     /\ m_pFreeList' = Tail(free)
     /\ cells' = IF m_pFreeList = <<>> THEN cells + t.block ELSE cells
     /\ assoc' = [d \in DOMAIN assoc \cup {c} |->
                    IF d = c THEN [key |-> key, value |-> value,
                                   nHashValue |-> HashKey[key]]
                    ELSE assoc[d]]
  /\ m_nCount' = m_nCount + 1
  /\ UNCHANGED iteration

\* The table after RemoveKey: it shrinks when it is nearly empty.
Shrunk(buckets, count) ==
  IF /\ m_nHashTableSize > DEFAULT_HASH_TABLE_SIZE
     /\ count * 8 < m_nHashTableSize
  THEN InitHashTable(m_nHashTableSize \div 2, buckets, count)
  ELSE Kept(buckets)

\* Mutant: the count is decremented by the unlinking and by FreeAssoc.
RemoveCountsTwice(key) ==
  /\ ~iterating /\ GetAssocAt(key) # NULL
  /\ LET c == GetAssocAt(key)
         unlinked == [m_pHashTable EXCEPT ![Bucket(HashKey[key])] =
                                            RemoveAt(@, Position(@, key))] IN
     /\ NewTable(Shrunk(unlinked, m_nCount - 1))
     /\ m_pFreeList' = FreeAssoc(c)
     /\ assoc' = Restrict(assoc, DOMAIN assoc \ {c})
  /\ m_nCount' = m_nCount - 2
  /\ UNCHANGED <<cells, iteration>>

RemoveKey(key) ==
  /\ ~iterating /\ GetAssocAt(key) # NULL
  /\ LET c == GetAssocAt(key)
         unlinked == [m_pHashTable EXCEPT ![Bucket(HashKey[key])] =
                                            RemoveAt(@, Position(@, key))] IN
     /\ NewTable(Shrunk(unlinked, m_nCount - 1))
     /\ m_pFreeList' = FreeAssoc(c)
     /\ assoc' = Restrict(assoc, DOMAIN assoc \ {c})
  /\ m_nCount' = m_nCount - 1
  /\ UNCHANGED <<cells, iteration>>

RemoveAll ==
  /\ ~iterating
  /\ m_pHashTable' = [j \in {} |-> <<>>]
  /\ m_nHashTableSize' = DEFAULT_HASH_TABLE_SIZE
  /\ m_nCount' = 0 /\ m_pFreeList' = <<>> /\ cells' = 0
  /\ assoc' = [c \in {} |-> c]
  /\ UNCHANGED <<m_nBlockSize, iteration>>

\* InitHashTable is public: users may ask for any size at any time.
Resize(n) ==
  /\ ~iterating
  /\ NewTable(InitHashTable(n, m_pHashTable, m_nCount))
  /\ UNCHANGED <<pool, assoc, iteration>>

-----------------------------------------------------------------------------
(* An iteration, during which the users of this code change values only.    *)

GetStartPosition ==
  /\ ~iterating /\ m_nCount # 0
  /\ iterating' = TRUE /\ pos' = BEFORE_START_POSITION /\ visited' = <<>>
  /\ UNCHANGED <<table, pool, assoc>>

\* The head of the first chain from a bucket on, or NULL
FirstFrom(nBucket) ==
  LET used == {j \in nBucket .. m_nHashTableSize - 1 : m_pHashTable[j] # <<>>}
  IN IF used = {} THEN NULL ELSE Head(m_pHashTable[Min(used)])

\* Mutant: the search for the next chain starts one bucket too late.
NextSkipsBucket(c) ==
  LET nHash == Bucket(assoc[c].nHashValue)
      chain == m_pHashTable[nHash]
      k == SelectInSeq(chain, LAMBDA d : d = c) IN
  IF k < Len(chain) THEN chain[k + 1] ELSE FirstFrom(nHash + 2)

\* pNext, or the head of the next chain
NextOf(c) ==
  LET nHash == Bucket(assoc[c].nHashValue)
      chain == m_pHashTable[nHash]
      k == SelectInSeq(chain, LAMBDA d : d = c) IN
  IF k < Len(chain) THEN chain[k + 1] ELSE FirstFrom(nHash + 1)

GetNextAssoc ==
  /\ iterating /\ pos # NULL
  /\ LET c == IF pos = BEFORE_START_POSITION THEN FirstFrom(0) ELSE pos IN
     /\ pos' = NextOf(c)
     /\ visited' = Append(visited, assoc[c].key)
  /\ UNCHANGED <<table, pool, assoc, iterating>>

\* while(pos) ends
EndIteration ==
  /\ iterating /\ pos = NULL
  /\ iterating' = FALSE /\ visited' = <<>>
  /\ UNCHANGED <<table, pool, assoc, pos>>

Next ==
  \/ \E key \in Key, value \in Value : SetExisting(key, value)
  \/ \E key \in Key, value \in Value : SetNew(key, value)
  \/ \E key \in Key : RemoveKey(key)
  \/ RemoveAll
  \/ \E n \in Wanted : Resize(n)
  \/ GetStartPosition \/ GetNextAssoc \/ EndIteration

Spec == Init /\ [][Next]_vars

-----------------------------------------------------------------------------
(* Properties *)

Chained == Traversal(m_pHashTable)

TypeOK ==
  /\ m_nHashTableSize \in Nat \ {0} /\ m_nBlockSize \in Nat
  /\ m_nCount \in Nat /\ cells \in Nat
  /\ HasTable => DOMAIN m_pHashTable = 0 .. m_nHashTableSize - 1
  /\ \A j \in DOMAIN m_pHashTable : m_pHashTable[j] \in Seq(1 .. cells)
  /\ m_pFreeList \in Seq(1 .. cells)
  /\ \A c \in DOMAIN assoc :
       assoc[c] \in [key : Key, value : Value, nHashValue : Nat]
  /\ iterating \in BOOLEAN /\ pos \in -1 .. cells
  /\ visited \in Seq(Key)

\* Every cell of the blocks is in exactly one place, one chain or the free
\* list, through every rebuilding of the table: none is lost, used twice or
\* given out while it is in use; m_nCount counts the ones in the chains.
CellsAccounted ==
  LET everywhere == Chained \o m_pFreeList IN
  /\ IsInjective(everywhere) /\ Range(everywhere) = 1 .. cells
  /\ Range(Chained) = DOMAIN assoc
  /\ m_nCount = Len(Chained)

\* A key is found where GetAssocAt looks for it: its cell is in the bucket of
\* its full hash for the current size, whatever sizes the table had before,
\* and no key is there twice.
EveryKeyIsFound ==
  \A c \in DOMAIN assoc : GetAssocAt(assoc[c].key) = c

\* The table always has more buckets than keys: it grows before it is full,
\* and neither shrinking nor a user's InitHashTable makes it too small.
LoadBounded == m_nCount # 0 => HasTable /\ m_nCount < m_nHashTableSize

\* An iteration returns every key once, although values are set meanwhile.
IterationComplete ==
  iterating /\ pos = NULL =>
    /\ IsInjective(visited)
    /\ Range(visited) = {assoc[c].key : c \in DOMAIN assoc}

\* What Lookup answers for every key
Contents ==
  [key \in {k \in Key : GetAssocAt(k) # NULL} |-> assoc[GetAssocAt(key)].value]

Abstract == INSTANCE Dictionary WITH map <- Contents

\* The table is a dictionary: what Lookup answers changes only by SetAt,
\* RemoveKey and RemoveAll, and never by growing, shrinking or iterating.
ImplementsDictionary == Abstract!Spec

=============================================================================
