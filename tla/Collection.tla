------------------------------ MODULE Collection ------------------------------
(***************************************************************************)
(* CCollection: named items in an array, with a hash table                  *)
(* (CIStringMapToIndex) from the names to the array indexes.  Every         *)
(* operation has to keep the two in step.                                   *)
(*                                                                         *)
(* The ASSERTs of the code are not compiled into a release build: the        *)
(* guards below are the calls they allow, and what an operation does is      *)
(* what a release build does.  SetName has no ASSERT, and so no guard: any   *)
(* item may get any name.                                                    *)
(*                                                                         *)
(* The table keeps its keys by reference.  SetName hands it the caller's     *)
(* string (lent), and drops the result of realloc.  Both can end in a read   *)
(* or a write of freed memory; what follows is undefined and not followed.   *)
(***************************************************************************)
EXTENDS Integers, SequencesExt

CONSTANTS
  Item,     \* the CCollectionItem objects
  Name,     \* names that differ by more than their case
  MaxSize   \* the most items of the array (bound)

ASSUME MaxSizeIsNatural == MaxSize \in Nat

VARIABLES
  m_Items,        \* the array
  m_ItemsHash,    \* the table: name -> index
  m_Name,         \* GetName of every item
  m_pCollection,  \* whether an item points back to the collection
  lent,           \* the keys whose string belongs to a caller of SetName
  condition       \* history: "intact", "clashed" by a rename to a used name,
                  \* or "undefined"

vars == <<m_Items, m_ItemsHash, m_Name, m_pCollection, lent, condition>>

Defined == condition # "undefined"
Intact == condition = "intact"

\* GetCount() of the table
Count == Cardinality(DOMAIN m_ItemsHash)
Index == 0 .. Len(m_Items) - 1
Found(name) == name \in DOMAIN m_ItemsHash

-----------------------------------------------------------------------------
(* CIStringMapToIndex, on the table f.  SetAt replaces the value of a key    *)
(* that is present and adds one that is not.                                 *)

SetAt(f, name, value) ==
  [n \in DOMAIN f \cup {name} |-> IF n = name THEN value ELSE f[n]]

RemoveKey(f, name) == Restrict(f, DOMAIN f \ {name})

ShiftIndexes(f, nStartIndex, nDelta) ==
  [name \in DOMAIN f |->
     IF f[name] >= nStartIndex THEN f[name] + nDelta ELSE f[name]]

HashAdd(f, name) == SetAt(f, name, Cardinality(DOMAIN f))

HashInsert(f, nIndex, name) == SetAt(ShiftIndexes(f, nIndex, 1), name, nIndex)

\* Mutant: the entries behind the removed one are shifted, but not the first.
RemoveShiftsLate(f, name) ==
  ShiftIndexes(RemoveKey(f, name), f[name] + 2, -1)

HashRemove(f, name) == ShiftIndexes(RemoveKey(f, name), f[name], -1)

\* Mutant: the entry changes places with the one at its new index.
MoveSwaps(f, nIndex, nOffset) ==
  LET nNewIndex == nIndex + nOffset IN
  [name \in DOMAIN f |->
     IF f[name] = nIndex THEN nNewIndex
     ELSE IF f[name] = nNewIndex THEN nIndex
     ELSE f[name]]

HashMove(f, nIndex, nOffset) ==
  LET nNewIndex == nIndex + nOffset IN
  [name \in DOMAIN f |->
     IF f[name] = nIndex THEN nNewIndex
     ELSE IF nIndex <= f[name] /\ f[name] <= nNewIndex THEN f[name] - 1
     ELSE IF nNewIndex <= f[name] /\ f[name] <= nIndex THEN f[name] + 1
     ELSE f[name]]

-----------------------------------------------------------------------------
Init ==
  /\ m_Items = <<>>
  /\ m_ItemsHash = <<>>
  /\ m_Name \in [Item -> Name]
  /\ m_pCollection = [i \in Item |-> FALSE]
  /\ lent = {} /\ condition = "intact"

\* ASSERT( !bFound ) of the table
MayEnter(i) == Defined /\ Len(m_Items) < MaxSize /\ ~Found(m_Name[i])

\* ASSERT( nHashIndex == nArrayIndex )
Add(i) ==
  /\ MayEnter(i) /\ Count = Len(m_Items)
  /\ m_ItemsHash' = HashAdd(m_ItemsHash, m_Name[i])
  /\ m_Items' = Append(m_Items, i)
  /\ m_pCollection' = [m_pCollection EXCEPT ![i] = TRUE]
  /\ UNCHANGED <<m_Name, lent, condition>>

\* The index is in the array, and the table ASSERTs its own bound.
Insert(nIndex, i) ==
  /\ MayEnter(i) /\ nIndex \in 0 .. Len(m_Items) /\ nIndex <= Count
  /\ m_Items' = InsertAt(m_Items, nIndex + 1, i)
  /\ m_ItemsHash' = HashInsert(m_ItemsHash, nIndex, m_Name[i])
  /\ m_pCollection' = [m_pCollection EXCEPT ![i] = TRUE]
  /\ UNCHANGED <<m_Name, lent, condition>>

\* Mutant: the item is not told that it has left.
RemoveForgetsItem(nIndex) ==
  /\ Defined /\ nIndex \in Index
  /\ LET name == m_Name[m_Items[nIndex + 1]] IN
     /\ Found(name)
     /\ m_ItemsHash' = HashRemove(m_ItemsHash, name)
     /\ lent' = lent \ {name}
  /\ m_Items' = RemoveAt(m_Items, nIndex + 1)
  /\ UNCHANGED <<m_Name, m_pCollection, condition>>

\* ASSERT(bFound) of the table
RemoveItem(nIndex) ==
  /\ Defined /\ nIndex \in Index
  /\ LET pItem == m_Items[nIndex + 1]
         name == m_Name[pItem] IN
     /\ Found(name)
     /\ m_ItemsHash' = HashRemove(m_ItemsHash, name)
     /\ lent' = lent \ {name}
     /\ m_pCollection' = [m_pCollection EXCEPT ![pItem] = FALSE]
  /\ m_Items' = RemoveAt(m_Items, nIndex + 1)
  /\ UNCHANGED <<m_Name, condition>>

Clear ==
  /\ Defined
  /\ m_Items' = <<>> /\ m_ItemsHash' = <<>> /\ lent' = {}
  /\ m_pCollection' = [i \in Item |-> m_pCollection[i] /\ i \notin Range(m_Items)]
  /\ condition' = "intact"
  /\ UNCHANGED m_Name

\* The ASSERT of CCollection lets the new index be the size of the array; the
\* one of the table, which the same call runs, does not.
Move(nIndex, nOffset) ==
  LET nNewIndex == nIndex + nOffset IN
  /\ Defined /\ nOffset # 0
  /\ nIndex \in Index /\ nIndex < Count
  /\ nNewIndex \in 0 .. Len(m_Items) /\ nNewIndex < Count
  /\ m_Items' = InsertAt(RemoveAt(m_Items, nIndex + 1), nNewIndex + 1,
                         m_Items[nIndex + 1])
  /\ m_ItemsHash' = HashMove(m_ItemsHash, nIndex, nOffset)
  /\ UNCHANGED <<m_Name, m_pCollection, lent, condition>>

\* operator[] of a name that is not in the table adds it with the value 0.
IndexOf(name) == IF Found(name) THEN m_ItemsHash[name] ELSE 0

\* What a rename makes of the collection: a name that is used by another
\* entry takes that entry over.
AfterRename(i, szName) ==
  IF Found(szName) /\ szName # m_Name[i] THEN "clashed" ELSE condition

\* Mutant: the old entry is removed after the new one was made.
RenameRemovesLast(i, szName) ==
  RemoveKey(SetAt(m_ItemsHash, szName, IndexOf(m_Name[i])), m_Name[i])

\* Mutant: the entry is made again at the end.
RenameToEnd(i, szName) ==
  LET f == RemoveKey(m_ItemsHash, m_Name[i]) IN
  SetAt(f, szName, Cardinality(DOMAIN f))

\* The entry is removed and made again under the new name.
HashRename(i, szName) ==
  SetAt(RemoveKey(m_ItemsHash, m_Name[i]), szName, IndexOf(m_Name[i]))

\* CCollectionItem::SetName of an item in the collection.  A new entry refers
\* to the caller's string.  realloc may have moved the name.
SetName(i, szName, moved) ==
  /\ Defined /\ m_pCollection[i]
  /\ m_ItemsHash' = HashRename(i, szName)
  /\ lent' = LET kept == lent \ {m_Name[i]} IN
             IF Found(szName) /\ szName # m_Name[i] THEN kept ELSE kept \cup {szName}
  /\ m_Name' = [m_Name EXCEPT ![i] = szName]
  /\ condition' = IF moved THEN "undefined" ELSE AfterRename(i, szName)
  /\ UNCHANGED <<m_Items, m_pCollection>>

\* SetName of an item that is in no collection
SetNameOutside(i, szName, moved) ==
  /\ Defined /\ ~m_pCollection[i] /\ szName # m_Name[i]
  /\ m_Name' = [m_Name EXCEPT ![i] = szName]
  /\ condition' = IF moved THEN "undefined" ELSE condition
  /\ UNCHANGED <<m_Items, m_ItemsHash, m_pCollection, lent>>

\* The caller of SetName frees or changes its string while a key refers to it.
CallerFrees(name) ==
  /\ Defined /\ name \in lent
  /\ condition' = "undefined"
  /\ UNCHANGED <<m_Items, m_ItemsHash, m_Name, m_pCollection, lent>>

Undefined == ~Defined /\ UNCHANGED vars

Next ==
  \/ \E i \in Item : Add(i)
  \/ \E i \in Item, nIndex \in 0 .. Len(m_Items) : Insert(nIndex, i)
  \/ \E nIndex \in Index : RemoveItem(nIndex)
  \/ Clear
  \/ \E nIndex \in Index, nNewIndex \in 0 .. Len(m_Items) :
        Move(nIndex, nNewIndex - nIndex)
  \/ \E i \in Item, szName \in Name, moved \in BOOLEAN : SetName(i, szName, moved)
  \/ \E i \in Item, szName \in Name, moved \in BOOLEAN :
        SetNameOutside(i, szName, moved)
  \/ \E name \in Name : CallerFrees(name)
  \/ Undefined

Spec == Init /\ [][Next]_vars

-----------------------------------------------------------------------------
(* Properties *)

TypeOK ==
  /\ m_Items \in Seq(Item) /\ Len(m_Items) <= MaxSize
  /\ m_Name \in [Item -> Name]
  /\ m_pCollection \in [Item -> BOOLEAN]
  /\ DOMAIN m_ItemsHash \subseteq Name
  /\ \A name \in DOMAIN m_ItemsHash : m_ItemsHash[name] \in Int
  /\ lent \subseteq DOMAIN m_ItemsHash
  /\ condition \in {"intact", "clashed", "undefined"}

\* As long as no item was renamed to the name of another one, operator
\* [](szName) finds the item of that name, for every item in the array and
\* after any sequence of insertions, removals, moves and renames.  Clear makes
\* good what such a rename did.
NameFindsItem ==
  Intact =>
    \A nIndex \in Index :
      LET name == m_Name[m_Items[nIndex + 1]] IN
      Found(name) /\ m_ItemsHash[name] = nIndex

\* An item that points back to the collection is in the array, whatever the
\* names are; without a clash every item in the array does, and is there once.
MembersKnowIt ==
  /\ Defined => \A i \in Item : m_pCollection[i] => i \in Range(m_Items)
  /\ Intact => /\ \A i \in Item : i \in Range(m_Items) => m_pCollection[i]
               /\ IsInjective(m_Items)

\* The keys have the indexes 0, 1, ... with nothing left out or used twice.
Contiguous == IsInjective(m_ItemsHash) /\ Range(m_ItemsHash) = 0 .. Count - 1

\* CIStringMapToIndex gives its keys a contiguous index until a rename takes
\* the name of another item.
IndexContiguous == Intact => Contiguous

\* The list of names the table stands for
NamesInOrder ==
  [k \in 1 .. Count |-> CHOOSE name \in DOMAIN m_ItemsHash :
                          m_ItemsHash[name] = k - 1]

Abstract == INSTANCE NamedList WITH
  list <- IF Intact THEN NamesInOrder ELSE <<>>, standing <- condition

\* The hash table by itself behaves as a list of names: every operation of
\* the collection is the operation of that list, until a rename takes a used
\* name or a string is lost.
ImplementsNamedList == Abstract!Spec

=============================================================================
