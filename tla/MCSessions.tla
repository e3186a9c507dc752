----------------------------- MODULE MCSessions -----------------------------
(* Instances of Sessions for TLC. *)
EXTENDS Sessions, TLC

\* Neither browsers nor requests differ.
SessionsSymmetry == Permutations(Browsers) \cup Permutations(Requests)
=============================================================================
