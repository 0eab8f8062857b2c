---------------------------- MODULE MCDivideFile ----------------------------
(* Instances of DivideFile for TLC. *)
EXTENDS DivideFile

\* In a small file every placement of newlines; in a larger one lines of one or
\* two bytes: a newline at every even position, and at any of the odd ones.
SmallSize == 8
EvenPositions(n) == {p \in 0 .. n - 1 : p % 2 = 0}
OddPositions(n) == {p \in 0 .. n - 1 : p % 2 = 1}
AllOrShortLines(n) ==
  IF n <= SmallSize THEN SUBSET (0 .. n - 1)
  ELSE {EvenPositions(n) \cup odd : odd \in SUBSET OddPositions(n)}

SmallAndLargeSizes == 0 .. SmallSize \cup {16, 20, 21}
UpToFive == 0 .. 5
=============================================================================
