---------------------------- MODULE MCEasyPerform ----------------------------
(* Model-checking instance of EasyPerform: the texts are interchangeable. *)
EXTENDS EasyPerform, TLC

Symmetry == Permutations(Text)

=============================================================================
