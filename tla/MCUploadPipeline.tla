-------------------------- MODULE MCUploadPipeline --------------------------
(***************************************************************************)
(* Instances of UploadPipeline for TLC.                                    *)
(***************************************************************************)
EXTENDS UploadPipeline, TLC

\* One content of every type.
AllTypes == [c \in Contents |-> c]

Symmetry == Permutations(Uploads)
=============================================================================
