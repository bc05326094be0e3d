----------------------------- MODULE MCStringMap ------------------------------
(* Three keys, two of them with the same full hash, and a table that starts   *)
(* with two buckets (the code: 32), so that three keys make it grow and shrink *)
(* again.  The hash values land in different buckets for different sizes.     *)
EXTENDS StringMap

MCKey == {"a", "b", "c"}
MCHash == [k \in MCKey |-> IF k = "a" THEN 1 ELSE 10]
=============================================================================
