----------------------------- MODULE MCCodePages -----------------------------
(* Instances of CodePages for TLC. *)
EXTENDS CodePages, TLC

MCBodies == {<<3, 3>>, <<4, 2>>}
MCHeader == <<3, 1>>
Symmetry == Permutations(Modules)
=============================================================================
