--------------------------- MODULE MCFailureAlerts ---------------------------
(* Instances of FailureAlerts for TLC. *)
EXTENDS FailureAlerts, TLC

\* The alerts are alike.
AlertSymmetry == Permutations(Alerts)
=============================================================================
