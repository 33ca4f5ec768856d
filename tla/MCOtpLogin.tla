----------------------------- MODULE MCOtpLogin -----------------------------
(* Instances of OtpLogin for TLC. *)
EXTENDS OtpLogin, TLC

CONSTANTS w1, w2, w3

(* No definition tells one worker from another. *)
WorkerSymmetry == Permutations(Workers)
=============================================================================
