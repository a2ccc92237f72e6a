--------------------------- MODULE MCLocalPrivacy ---------------------------
(* Instances of LocalPrivacy for TLC. The slots of the tasks are alike, and so are the *)
(* epochs.                                                                              *)
EXTENDS LocalPrivacy, TLC

CONSTANTS e1, e2

SlotSymmetry == Permutations(Tasks) \cup Permutations(Epochs)
=============================================================================
