----------------------------- MODULE MCRateLimit -----------------------------
(* Small instances of RateLimit. *)
EXTENDS RateLimit, TLC

TaskSymmetry == Permutations(Tasks)
=============================================================================
