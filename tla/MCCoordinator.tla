--------------------------- MODULE MCCoordinator ---------------------------
(* Instances of Coordinator for TLC. *)
EXTENDS Coordinator

\* No newline, one line, or lines of one or two bytes.
SomeLayouts(n) == {{}, {n - 1}, {p \in 0 .. n - 1 : p % 2 = 0}} \cap SUBSET (0 .. n - 1)
Counts == 0 .. MAX_IPS + 1
=============================================================================
