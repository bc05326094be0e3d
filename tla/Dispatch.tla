------------------------------- MODULE Dispatch -------------------------------
(***************************************************************************)
(* CContextImpl: how a script's call of a method, or use of a property, by  *)
(* name reaches the C++ function.  The templates of contextimpl.hpp turn    *)
(* the declarations of a class into a search by name, chosen by their       *)
(* number, and into answers by number, chosen by which kind is rarer.  Only *)
(* the search in a class with more than three declarations has state: a     *)
(* hash table that the constructor of the first object fills, name by name. *)
(*                                                                         *)
(* A spelling is a name as written; Lower is the table of lower-case        *)
(* letters applied to it.  The hash of a name is any number: hash is        *)
(* chosen at the start and covers every way in which names can collide.     *)
(***************************************************************************)
EXTENDS Integers, SequencesExt

CONSTANTS
  Class,
  endmeths, endprops,  \* class -> its methods (properties) in order
  Spelling,            \* the names as declared and as scripts write them
  Lower,               \* spelling -> its lower-case form
  HashFunction         \* the hash functions to consider

ASSUME LowerIsLower == \A s \in Spelling : Lower[Lower[s]] = Lower[s]

\* What the class declares: lists of methods and of properties, each with a
\* name in both languages.
Spelled(d) == d.rus \in Spelling /\ d.eng \in Spelling
ASSUME DeclarationsAreLists ==
  \A cls \in Class : \A ds \in {endmeths[cls], endprops[cls]} :
    /\ Len(ds) \in Nat /\ DOMAIN ds = 1 .. Len(ds)
    /\ \A k \in DOMAIN ds : Spelled(ds[k])
ASSUME MethodsAreTyped ==
  \A cls \in Class : \A k \in DOMAIN endmeths[cls] :
    LET d == endmeths[cls][k] IN
    d.IsFunc \in BOOLEAN /\ d.nParam \in Nat
ASSUME PropertiesAreTyped ==
  \A cls \in Class : \A k \in DOMAIN endprops[cls] :
    LET d == endprops[cls][k] IN d.IsRead \in BOOLEAN /\ d.IsWrite \in BOOLEAN

ASSUME HashesAreNumbers ==
  \A h \in HashFunction : \A s \in Spelling : h[Lower[s]] \in Nat

\* No two methods, and no two properties, of a class have a name in common.
Names(d) == {Lower[d.rus], Lower[d.eng]}
ASSUME NamesDistinct ==
  \A cls \in Class : \A ds \in {endmeths[cls], endprops[cls]} :
    \A j, k \in DOMAIN ds : j # k => Names(ds[j]) \cap Names(ds[k]) = {}

VARIABLES
  hash,         \* lower-case name -> the value GetHash computes
  ppHashTable,  \* the table of every searched list of declarations
  toInsert      \* the declarations whose names are still to be inserted

dispatchVars == <<hash, ppHashTable, toInsert>>

\* The lists of declarations that can be searched
Searched == {"methods", "properties"} \X Class
Declared ==
  [t \in Searched |-> IF t[1] = "methods" THEN endmeths[t[2]] ELSE endprops[t[2]]]
Count == [t \in Searched |-> Len(Declared[t])]
Number == [t \in Searched |-> 0 .. Count[t] - 1]

-----------------------------------------------------------------------------
(* The search by name; numbers count from 0. *)

\* fndselector, chosen when the class is compiled
Policy ==
  [t \in Searched |->
     CASE Count[t] = 0        -> "nofnd_pol"
       [] Count[t] = 1        -> "onefnd_pol"
       [] Count[t] \in 2 .. 3 -> "simplefnd_pol"
       [] Count[t] > 3        -> "hashfnd_pol"]

hashsizes(n) ==
  IF n < 53 THEN Min({p \in {13, 19, 29, 37, 47, 53} : p >= n})
  ELSE LET m == n + n \div 2 IN IF m % 2 = 0 THEN m + 1 ELSE m

HashSize == [t \in Searched |-> hashsizes(2 * Count[t])]

GetHash(t, name) == hash[Lower[name]] % HashSize[t]

\* onefnd_pol and simplefnd_pol: the names are compared from the last
\* declaration to the first.
simplefnd(t, name) ==
  Max({-1} \cup {n \in Number[t] : Lower[name] \in Names(Declared[t][n + 1])})

\* Mutant: the chain is searched by the hash alone.
FindByHash(t, name) ==
  LET chain == ppHashTable[t][GetHash(t, name)]
      hits == {k \in DOMAIN chain : chain[k].hash = hash[Lower[name]]}
  IN IF hits = {} THEN -1 ELSE chain[Min(hits)].pos

hashfnd(t, name) ==
  LET chain == ppHashTable[t][GetHash(t, name)]
      hits == {k \in DOMAIN chain : /\ chain[k].hash = hash[Lower[name]]
                                    /\ chain[k].strKey = Lower[name]}
  IN IF hits = {} THEN -1 ELSE chain[Min(hits)].pos

\* FindMethod and FindProp
Find(t, name) ==
  CASE Policy[t] = "nofnd_pol"     -> -1
    [] Policy[t] \in {"onefnd_pol", "simplefnd_pol"} -> simplefnd(t, name)
    [] Policy[t] = "hashfnd_pol"   -> hashfnd(t, name)

-----------------------------------------------------------------------------
(* The answers by number *)

\* The functions and the procedures of a class
Func ==
  [cls \in Class |->
     {n \in Number[<<"methods", cls>>] : endmeths[cls][n + 1].IsFunc}]
Proc == [cls \in Class |-> Number[<<"methods", cls>>] \ Func[cls]]

\* The rarer kind is enumerated; a number that is neither gets the answer for
\* the other kind.
HasRetVal(cls, n) ==
  IF Cardinality(Func[cls]) <= Cardinality(Proc[cls]) THEN n \in Func[cls]
  ELSE n \notin Proc[cls]

\* some_np: the number of parameters all methods have, 0 without methods
CommonParams(cls) ==
  LET np == {d.nParam : d \in ToSet(endmeths[cls])} IN
  CASE np = {} -> 0
    [] Cardinality(np) = 1 -> CHOOSE n \in np : TRUE
    [] OTHER -> -1

GetNParams(cls, n) ==
  IF CommonParams(cls) # -1 THEN CommonParams(cls)
  ELSE IF n \in Number[<<"methods", cls>>] THEN endmeths[cls][n + 1].nParam
  ELSE -1

\* The properties that can be read, and those that can be written
Readable ==
  [cls \in Class |->
     {n \in Number[<<"properties", cls>>] : endprops[cls][n + 1].IsRead}]
Writable ==
  [cls \in Class |->
     {n \in Number[<<"properties", cls>>] : endprops[cls][n + 1].IsWrite}]

\* Again the rarer of with and without is enumerated.
MinorityAnswer(with, without, n) ==
  IF Cardinality(with) < Cardinality(without) THEN n \in with ELSE n \notin without

IsPropReadable(cls, n) ==
  MinorityAnswer(Readable[cls], Number[<<"properties", cls>>] \ Readable[cls], n)

\* Mutant: the properties that cannot be read are taken for those that cannot
\* be written.
IsPropWritableMixed(cls, n) ==
  MinorityAnswer(Writable[cls], Number[<<"properties", cls>>] \ Readable[cls], n)

IsPropWritable(cls, n) ==
  MinorityAnswer(Writable[cls], Number[<<"properties", cls>>] \ Writable[cls], n)

\* The number of the method that CallAsFunc (asFunc) or CallAsProc runs; both
\* answer FALSE and run nothing (-1) for a method of the other kind.
Called(cls, n, asFunc) ==
  IF n \in (IF asFunc THEN Func[cls] ELSE Proc[cls]) THEN n ELSE -1

-----------------------------------------------------------------------------
(* The tables *)

\* Mutant: a table without its first chain
EmptyTableFromOne(t) == [p \in 1 .. HashSize[t] - 1 |-> <<>>]

EmptyTable(t) == [p \in 0 .. HashSize[t] - 1 |-> <<>>]
Hashed == {t \in Searched : Policy[t] = "hashfnd_pol"}

DispatchInit ==
  /\ hash \in HashFunction
  /\ ppHashTable = [t \in Hashed |-> <<>>]
  /\ toInsert = [t \in Hashed |-> -1]

\* hashfnd_pol::Insert at the head of the chain
Inserted(t, table, name, pos) ==
  LET p == GetHash(t, name)
      assoc == [hash |-> hash[Lower[name]], strKey |-> Lower[name], pos |-> pos]
  IN [table EXCEPT ![p] = <<assoc>> \o @]

MapsReady == \A t \in Hashed : toInsert[t] = 0

\* The constructor of the first object: init_all_map makes empty tables.
\* Later ones find the static object there.
OnInitFirstObject ==
  /\ \A t \in Hashed : toInsert[t] = -1
  /\ ppHashTable' = [t \in Hashed |-> EmptyTable(t)]
  /\ toInsert' = [t \in Hashed |-> Count[t]]
  /\ UNCHANGED hash

\* Mutant: a name is entered where there was a chain already.
AddNamesOverwrites(t) ==
  LET d == Declared[t][toInsert[t]]
      assoc(name) == [hash |-> hash[Lower[name]], strKey |-> Lower[name],
                      pos |-> toInsert[t] - 1] IN
  /\ toInsert[t] > 0
  /\ ppHashTable' = [ppHashTable EXCEPT
       ![t][GetHash(t, d.rus)] = <<assoc(d.rus)>>,
       ![t][GetHash(t, d.eng)] = <<assoc(d.eng)>> \o @]
  /\ toInsert' = [toInsert EXCEPT ![t] = @ - 1]
  /\ UNCHANGED hash

\* AddNames of one declaration, the last one first: its Russian name, then
\* its English one
AddNames(t) ==
  LET d == Declared[t][toInsert[t]] IN
  /\ toInsert[t] > 0
  /\ ppHashTable' = [ppHashTable EXCEPT ![t] =
       Inserted(t, Inserted(t, @, d.rus, toInsert[t] - 1),
                d.eng, toInsert[t] - 1)]
  /\ toInsert' = [toInsert EXCEPT ![t] = @ - 1]
  /\ UNCHANGED hash

-----------------------------------------------------------------------------
(* Properties *)

DispatchTypeOK ==
  /\ hash \in HashFunction
  /\ \A t \in Hashed :
       /\ toInsert[t] \in -1 .. Count[t]
       /\ toInsert[t] >= 0 =>
            DOMAIN ppHashTable[t] = 0 .. HashSize[t] - 1

\* The declaration a script means by a name, or 0
Meant ==
  [t \in Searched |-> [name \in Spelling |->
     LET ks == {k \in 1 .. Count[t] : Lower[name] \in Names(Declared[t][k])} IN
     IF ks = {} THEN 0 ELSE CHOOSE k \in ks : TRUE]]

\* The declarations from this number on have been entered.
EnteredFrom(t) == IF t \in Hashed THEN toInsert[t] ELSE 0

\* A name in any spelling leads to the number of the declaration that has it,
\* in either language, and every other name to -1, whichever way the hashes
\* of the names collide; and while the constructor of the first object is
\* filling a table, no entry ever hides an earlier one.
NameFindsDeclaration ==
  \A t \in Searched : EnteredFrom(t) >= 0 =>
    \A name \in Spelling :
      LET k == Meant[t][name] IN
      Find(t, name) = IF k > EnteredFrom(t) THEN k - 1 ELSE -1

\* The number that a name leads to gets the answers of its declaration: the
\* method is run when it is called the way HasRetVal says and never the other
\* way, with the declared number of parameters, and a property may be read
\* and written as declared.  The number for an unknown name runs nothing.
AnswersMatchDeclarations ==
  \A t \in Searched : EnteredFrom(t) = 0 =>
    /\ \A asFunc \in BOOLEAN : Called(t[2], -1, asFunc) = -1
    /\ \A d \in ToSet(Declared[t]) :
         LET n == Find(t, d.rus) IN
         IF t[1] = "methods"
         THEN /\ Called(t[2], n, HasRetVal(t[2], n)) = n
              /\ Called(t[2], n, ~HasRetVal(t[2], n)) = -1
              /\ HasRetVal(t[2], n) <=> d.IsFunc
              /\ GetNParams(t[2], n) = d.nParam
         ELSE /\ IsPropReadable(t[2], n) <=> d.IsRead
              /\ IsPropWritable(t[2], n) <=> d.IsWrite

=============================================================================
