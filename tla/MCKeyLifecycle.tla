--------------------------- MODULE MCKeyLifecycle ---------------------------
(* Instances of KeyLifecycle for TLC: devices are model values. *)
EXTENDS KeyLifecycle, TLC

CONSTANTS d1, d2

Symmetry == Permutations(Devices)
=============================================================================
