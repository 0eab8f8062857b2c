---------------------------- MODULE MCSharedData ----------------------------
(* Instances of SharedData for TLC. *)
EXTENDS SharedData

CONSTANTS w1, w2, w3, r1, r2

ThreeWaiters == {w1, w2, w3}
TwoResumers == {r1, r2}
=============================================================================
