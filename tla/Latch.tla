------------------------------- MODULE Latch -------------------------------
(***************************************************************************)
(* What SharedData promises its callers: a bit that resume raises, and     *)
(* that wait takes down again in one step once it is raised.  Raising a    *)
(* raised latch has no effect: two resumes may let only one wait return.   *)
(***************************************************************************)
EXTENDS Naturals

CONSTANTS Waiters, Resumers

VARIABLES
  raised,    \* 0 or 1
  waiting,   \* waiting[w]: the call of w has not returned
  resumed    \* resumed[r]: the call of r has taken effect

Init ==
  /\ raised = 0
  /\ waiting = [w \in Waiters |-> TRUE]
  /\ resumed = [r \in Resumers |-> FALSE]

Take(w) ==
  /\ raised = 1
  /\ waiting[w]
  /\ raised' = 0
  /\ waiting' = [waiting EXCEPT ![w] = FALSE]
  /\ UNCHANGED resumed

Raise(r) ==
  /\ ~resumed[r]
  /\ raised' = 1
  /\ resumed' = [resumed EXCEPT ![r] = TRUE]
  /\ UNCHANGED waiting

Next ==
  \/ \E w \in Waiters : Take(w)
  \/ \E r \in Resumers : Raise(r)

Spec == Init /\ [][Next]_<<raised, waiting, resumed>>
=============================================================================
