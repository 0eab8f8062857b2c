----------------------------- MODULE MCChildren -----------------------------
(* Instances of Children for TLC. *)
EXTENDS Children
CONSTANTS s1, s2
=============================================================================
