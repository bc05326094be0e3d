------------------------------ MODULE NamedList -------------------------------
(***************************************************************************)
(* What a CCollection promises its users: a list of names without           *)
(* repetitions, counted from 0, that can be extended, cut, rearranged and   *)
(* renamed.  Collection implements it with an array and a hash table.       *)
(*                                                                         *)
(* The promise is kept while the list is "intact".  A rename to a name that *)
(* is in use ends it until the list is emptied, a string that is freed too  *)
(* early ends it for good.                                                  *)
(***************************************************************************)
EXTENDS Integers, SequencesExt

CONSTANT Name

VARIABLES
  list,
  standing    \* "intact", "clashed" or "undefined"

vars == <<list, standing>>

Init == list = <<>> /\ standing = "intact"

Indexes == 0 .. Len(list) - 1
Unused == Name \ Range(list)

Insert(k, name) == list' = InsertAt(list, k + 1, name)

Delete(k) == list' = RemoveAt(list, k + 1)

\* The name at k goes to position k + offset; the others close the gap.
Move(k, offset) ==
  list' = InsertAt(RemoveAt(list, k + 1), k + offset + 1, list[k + 1])

Rename(k, name) == list' = [list EXCEPT ![k + 1] = name]

Keep ==
  /\ standing = "intact" /\ UNCHANGED standing
  /\ \/ \E name \in Unused, k \in 0 .. Len(list) : Insert(k, name)
     \/ \E k \in Indexes : Delete(k)
     \/ \E k, l \in Indexes : Move(k, l - k)
     \/ \E name \in Unused, k \in Indexes : Rename(k, name)

Empty == standing # "undefined" /\ list' = <<>> /\ standing' = "intact"

\* One of at least two names becomes another one.
Clash ==
  /\ standing = "intact" /\ Len(list) >= 2
  /\ list' = <<>> /\ standing' = "clashed"

Lose == list' = <<>> /\ standing' = "undefined"

Next == Keep \/ Empty \/ Clash \/ Lose

Spec == Init /\ [][Next]_vars
=============================================================================
