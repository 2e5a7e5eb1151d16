------------------------------ MODULE MCSoZone ------------------------------
(* Small instances of SoZone. *)
EXTENDS SoZone, TLC

Symmetry == Permutations(Proc)
=============================================================================
