------------------------------ MODULE MCBilling ------------------------------
(* Instances of Billing for TLC. *)
EXTENDS Billing, TLC

\* Neither users nor requests nor handlers differ.
BillingSymmetry ==
  Permutations(Users) \cup Permutations(Clients) \cup Permutations(Hooks)
=============================================================================
