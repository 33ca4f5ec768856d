----------------------------- MODULE MCSessions -----------------------------
(* Instances of Sessions for TLC. *)
EXTENDS Sessions, TLC

CONSTANTS w1, w2

WorkerSymmetry == Permutations(Workers)
=============================================================================
