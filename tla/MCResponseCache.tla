-------------------------- MODULE MCResponseCache --------------------------
(* The instance of ResponseCache that TLC checks. *)
EXTENDS ResponseCache, TLC

Symmetry == Permutations(Readers)
=============================================================================
