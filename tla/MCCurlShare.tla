----------------------------- MODULE MCCurlShare -----------------------------
(* Model-checking instance of CurlShare: the identities are interchangeable. *)
EXTENDS CurlShare, TLC

Symmetry ==
  Permutations(Object) \cup Permutations(Handle) \cup Permutations(Share)
    \cup Permutations(Conn)

=============================================================================
