----------------------------- MODULE MCCollection -----------------------------
(* Insertions, removals and moves in the middle and at both ends, renames to  *)
(* a name that is free, the item's own or another item's, and what can be     *)
(* done with the collection after that.                                       *)
EXTENDS Collection

Symmetry == Permutations(Item) \cup Permutations(Name)
=============================================================================
