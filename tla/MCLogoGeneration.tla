-------------------------- MODULE MCLogoGeneration --------------------------
(* Instances of LogoGeneration for TLC. *)
EXTENDS LogoGeneration
=============================================================================
