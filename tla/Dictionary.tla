------------------------------ MODULE Dictionary ------------------------------
(***************************************************************************)
(* What a string map promises: every key has at most one value, the one it  *)
(* was given last, until the key is removed.  StringMap implements it with  *)
(* chained buckets, cells from a pool, and a table that grows and shrinks.  *)
(***************************************************************************)
EXTENDS Functions

CONSTANTS Key, Value

VARIABLE map

Init == map = [k \in {} |-> k]

Put(key, value) ==
  map' = [k \in DOMAIN map \cup {key} |-> IF k = key THEN value ELSE map[k]]

Delete(key) == map' = Restrict(map, DOMAIN map \ {key})

Clear == map' = [k \in {} |-> k]

Next ==
  \/ \E key \in Key, value \in Value : Put(key, value)
  \/ \E key \in DOMAIN map : Delete(key)
  \/ Clear

Spec == Init /\ [][Next]_map
=============================================================================
