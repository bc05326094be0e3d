------------------------------- MODULE Induction ------------------------------
(***************************************************************************)
(* Induction over the natural numbers for the proofs of this project, with  *)
(* sets in place of predicates: what is to be shown of every number is the  *)
(* set of the numbers it holds for.                                         *)
(***************************************************************************)
EXTENDS Integers, FiniteSetsExt, WellFoundedInduction, TLAPS

\* A set of natural numbers with an element has a least one.
LEMMA LeastNatural ==
  ASSUME NEW T, T \subseteq Nat, T # {}
  PROVE  \E x \in T : \A y \in T : x <= y
<1> DEFINE R == {ss \in Nat \X Nat : ss[1] < ss[2]}
<1>1. IsWellFoundedOn(R, Nat)
  BY NatLessThanWellFounded DEF OpToRel
<1>2. \A x, y \in Nat : <<y, x>> \in R <=> y < x
  OBVIOUS
<1> HIDE DEF R
<1>3. PICK x \in T : \A y \in T : ~(<<y, x>> \in R)
  BY <1>1, WFMin
<1>4. ASSUME NEW y \in T PROVE x <= y
  <2>1. x \in Nat /\ y \in Nat /\ ~(y < x)
    BY <1>2, <1>3
  <2> QED
    BY <2>1
<1> QED
  BY <1>3, <1>4

\* Min of such a set is its least element.
LEMMA MinIsLeast ==
  ASSUME NEW T, T \subseteq Nat, T # {}
  PROVE  Min(T) \in T /\ \A y \in T : Min(T) <= y
BY LeastNatural DEF Min

\* Induction: a set with 0 that contains n + 1 whenever it contains n has all
\* natural numbers.
LEMMA SetInduction ==
  ASSUME NEW S, 0 \in S, \A n \in Nat : n \in S => n + 1 \in S
  PROVE  Nat \subseteq S
<1> SUFFICES ASSUME Nat \ S # {} PROVE FALSE
  OBVIOUS
<1>1. PICK x \in Nat \ S : \A y \in Nat \ S : x <= y
  BY LeastNatural
<1>2. x # 0 /\ x - 1 \in Nat /\ x - 1 \in S
  BY <1>1
<1> QED
  BY <1>2

\* The values of a recursion over 0 .. N: F[n] is what round n makes of the
\* value of the round before it.
Rounds(f, T, N, base, F) ==
  /\ f \in [0 .. N -> T] /\ f[0] = base
  /\ \A n \in 1 .. N : f[n] = F[n][f[n - 1]]

\* There are such values.
LEMMA Recursion ==
  ASSUME NEW T, NEW N \in Nat, NEW base \in T, NEW F \in [1 .. N -> [T -> T]]
  PROVE  \E f : Rounds(f, T, N, base, F)
<1> DEFINE Solves(f, n) == /\ f \in [0 .. n -> T] /\ f[0] = base
                           /\ \A m \in 1 .. n : f[m] = F[m][f[m - 1]]
           S == {n \in Nat : n <= N => \E f : Solves(f, n)}
<1>1. 0 \in S
  <2> DEFINE f == [n \in 0 .. 0 |-> base]
  <2>1. Solves(f, 0)
    OBVIOUS
  <2> QED
    BY <2>1
<1>2. ASSUME NEW n \in Nat, n \in S PROVE n + 1 \in S
  <2> SUFFICES ASSUME n + 1 <= N PROVE \E g : Solves(g, n + 1)
    OBVIOUS
  <2>1. PICK f : Solves(f, n)
    BY <1>2
  <2> DEFINE x == F[n + 1][f[n]]
             g == [m \in 0 .. n + 1 |-> IF m <= n THEN f[m] ELSE x]
  <2>2. n \in 0 .. n /\ n + 1 \in 1 .. N
    OBVIOUS
  <2>3. f[n] \in T /\ F[n + 1] \in [T -> T]
    BY <2>1, <2>2
  <2>4. x \in T
    BY <2>3
  <2>5. x = F[n + 1][f[n]]
    OBVIOUS
  <2> HIDE DEF x
  <2>6. g \in [0 .. n + 1 -> T] /\ (\A m \in 0 .. n : g[m] = f[m]) /\ g[n + 1] = x
    BY <2>1, <2>4
  <2> HIDE DEF g
  <2>7. ASSUME NEW m \in 1 .. n + 1 PROVE g[m] = F[m][g[m - 1]]
    <3>1. CASE m = n + 1
      <4>1. m - 1 = n
        BY <3>1
      <4> QED
        BY <2>2, <2>5, <2>6, <3>1, <4>1
    <3>2. CASE m # n + 1
      <4>1. m \in 1 .. n /\ m \in 0 .. n /\ m - 1 \in 0 .. n
        BY <3>2
      <4>2. g[m] = f[m] /\ g[m - 1] = f[m - 1] /\ f[m] = F[m][f[m - 1]]
        BY <2>1, <2>6, <4>1
      <4> QED
        BY <4>2
    <3> QED
      BY <3>1, <3>2
  <2>8. g[0] = base
    BY <2>1, <2>6
  <2>9. Solves(g, n + 1)
    BY <2>6, <2>7, <2>8
  <2> QED
    BY <2>9
<1> HIDE DEF S
<1>3. Nat \subseteq S
  BY <1>1, <1>2, SetInduction
<1>4. PICK f : Solves(f, N)
  BY <1>3 DEF S
<1> QED
  BY <1>4 DEF Rounds

=============================================================================
