-------------------------- MODULE SharedDataProofs --------------------------
(***************************************************************************)
(* What the runs check of SharedData on a few threads, for every set of    *)
(* threads: its types, that no wake-up is lost, and that it implements the *)
(* atomic latch of module Latch.                                           *)
(***************************************************************************)
EXTENDS SharedData, TLAPS

\* The mutex belongs to the thread inside, a waiter about to clear the flag saw it
\* raised, and a sleeper beside a raised flag is going to be noticed.
IInv ==
  /\ TypeOK
  /\ \A t \in Threads : pc[t] \in {"clearing", "unlocking"} => flag = 1
  /\ NoLostWakeup

\* Everything the invariant says holds before the first call.
LEMMA InitIInv == Init => IInv
BY NoThreadAssumption, MaxSpuriousAssumption
   DEF Init, IInv, TypeOK, Inside, NoLostWakeup, Asleep, Threads,
       WaiterSteps, ResumerSteps

\* No step of wait or resume breaks it: the mutex keeps the flag and the wait set
\* from changing between a check and what follows from it.
LEMMA NextIInv == IInv /\ [Next]_vars => IInv'
<1> SUFFICES ASSUME IInv, [Next]_vars PROVE IInv'
  OBVIOUS
<1> USE DisjointRoles, NoThreadAssumption, MaxSpuriousAssumption
    DEF IInv, TypeOK, Inside, NoLostWakeup, Asleep, Threads, WaiterSteps,
        ResumerSteps, goto
<1>1. ASSUME NEW w \in Waiters, Lock(w) PROVE IInv'
  BY <1>1 DEF Lock
<1>2. ASSUME NEW w \in Waiters, Sleep(w) PROVE IInv'
  BY <1>2 DEF Sleep
<1>3. ASSUME NEW w \in Waiters, CheckPasses(w) PROVE IInv'
  BY <1>3 DEF CheckPasses
<1>4. ASSUME NEW w \in Waiters, Clear(w) PROVE IInv'
  BY <1>4 DEF Clear
<1>5. ASSUME NEW w \in Waiters, SpuriousWake(w) PROVE IInv'
  BY <1>5 DEF SpuriousWake
<1>6. ASSUME NEW r \in Resumers, LockGuard(r) PROVE IInv'
  BY <1>6 DEF LockGuard
<1>7. ASSUME NEW r \in Resumers, Set(r) PROVE IInv'
  BY <1>7 DEF Set
<1>8. ASSUME NEW r \in Resumers, Unlock(r) PROVE IInv'
  BY <1>8 DEF Unlock
<1>9. ASSUME NEW r \in Resumers, NotifyOne(r) PROVE IInv'
  BY <1>9 DEF NotifyOne
<1>10. ASSUME NEW r \in Resumers, NotifyNobody(r) PROVE IInv'
  BY <1>10 DEF NotifyNobody
<1>11. CASE UNCHANGED vars
  BY <1>11 DEF vars
<1> QED
  BY <1>1, <1>2, <1>3, <1>4, <1>5, <1>6, <1>7, <1>8, <1>9, <1>10, <1>11
     DEF Next, wait, resume

\* Every reachable state satisfies the invariant.
LEMMA Invariance == Spec => []IInv
BY InitIInv, NextIInv, PTL DEF Spec

\* Every variable of the latch stays in its type, and the critical sections of
\* wait and resume exclude each other: a thread is inside one exactly when it owns
\* the mutex (threadSafety.cpp:11-24), for any threads.
THEOREM LatchTypes == Spec => []TypeOK
<1>1. IInv => TypeOK
  BY DEF IInv
<1> QED
  BY <1>1, Invariance, PTL

\* No wake-up is lost, however many threads wait and resume: a thread that sleeps
\* beside a raised flag is going to be woken or forestalled (threadSafety.cpp:20-27).
THEOREM LatchLosesNoWakeup == Spec => []NoLostWakeup
<1>1. IInv => NoLostWakeup
  BY DEF IInv
<1> QED
  BY <1>1, Invariance, PTL

\* wait and resume, with their mutex and condition variable, behave like the two
\* atomic operations of module Latch (threadSafety.cpp:10-27).
THEOREM LatchRefinement == Spec => ImplementsLatch
<1>1. Init => Promised!Init
  BY DisjointRoles DEF Init, Promised!Init, Threads
<1>2. ASSUME IInv, [Next]_vars
      PROVE [Promised!Next]_<<flag, [w \in Waiters |-> pc[w] # "returned"],
              [r \in Resumers |-> pc[r] \notin {"calling", "setting"}]>>
  <2> USE <1>2, DisjointRoles DEF IInv, TypeOK, Threads, WaiterSteps, ResumerSteps, goto
  <2> DEFINE
        W == [w \in Waiters |-> pc[w] # "returned"]
        R == [r \in Resumers |-> pc[r] \notin {"calling", "setting"}]
  <2>1. ASSUME NEW w \in Waiters, Clear(w) PROVE Promised!Take(w)
    <3>1. flag = 1 /\ W[w] /\ flag' = 0
      BY <2>1 DEF Clear
    <3>2. W' = [W EXCEPT ![w] = FALSE]
      BY <2>1 DEF Clear
    <3>3. R' = R
      BY <2>1 DEF Clear
    <3> QED
      BY <3>1, <3>2, <3>3 DEF Promised!Take
  <2>2. ASSUME NEW r \in Resumers, Set(r) PROVE Promised!Raise(r)
    <3>1. ~R[r] /\ flag' = 1
      BY <2>2 DEF Set
    <3>2. R' = [R EXCEPT ![r] = TRUE]
      BY <2>2 DEF Set
    <3>3. W' = W
      BY <2>2 DEF Set
    <3> QED
      BY <3>1, <3>2, <3>3 DEF Promised!Raise
  <2>3. ASSUME NEW w \in Waiters, Lock(w) \/ Sleep(w) \/ CheckPasses(w) \/ SpuriousWake(w)
        PROVE UNCHANGED <<flag, W, R>>
    BY <2>3 DEF Lock, Sleep, CheckPasses, SpuriousWake
  <2>4. ASSUME NEW r \in Resumers, LockGuard(r) \/ Unlock(r) \/ NotifyNobody(r)
        PROVE UNCHANGED <<flag, W, R>>
    BY <2>4 DEF LockGuard, Unlock, NotifyNobody
  <2>5. ASSUME NEW r \in Resumers, NotifyOne(r)
        PROVE UNCHANGED <<flag, W, R>>
    BY <2>5 DEF NotifyOne, Asleep
  <2>6. CASE UNCHANGED vars
    BY <2>6 DEF vars
  <2> QED
    BY <2>1, <2>2, <2>3, <2>4, <2>5, <2>6 DEF Next, wait, resume, Promised!Next
<1> QED
  BY <1>1, <1>2, Invariance, PTL DEF Spec, ImplementsLatch, Promised!Spec
=============================================================================
