------------------------- MODULE MCCaseAnnotations -------------------------
(* Instances of CaseAnnotations for TLC. *)
EXTENDS CaseAnnotations, TLC

Symmetry == Permutations(Requests)
=============================================================================
