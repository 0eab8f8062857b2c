----------------------------- MODULE SharedData -----------------------------
(***************************************************************************)
(* The one-bit latch of src/threadSafety.cpp: a SharedData holds a mutex,  *)
(* a condition variable and a flag; wait blocks until the flag is 1 and    *)
(* clears it, resume sets it under the mutex and calls notify_one after    *)
(* the mutex is released.                                                  *)
(*                                                                         *)
(* Every thread makes one call, as the handlers of this program do: a job  *)
(* handler waits once on each latch, and a transfer resumes one at most    *)
(* once.  The steps are the points where another thread can interleave.    *)
(***************************************************************************)
EXTENDS Naturals

CONSTANTS
  Waiters,      \* threads that call wait
  Resumers,     \* threads that call resume
  NoThread,     \* the owner of a free mutex
  MaxSpurious   \* bound on the wake-ups nobody asked for

Threads == Waiters \cup Resumers

ASSUME DisjointRoles == Waiters \cap Resumers = {}
ASSUME NoThreadAssumption == NoThread \notin Threads
ASSUME MaxSpuriousAssumption == MaxSpurious \in Nat

VARIABLES
  flag,      \* data.flag
  mtx,       \* the thread that holds data.mtx
  pc,        \* where each thread is in its call
  spurious   \* spurious wake-ups so far

vars == <<flag, mtx, pc, spurious>>

WaiterSteps == {"calling", "checking", "asleep", "woken", "clearing", "returned"}
ResumerSteps == {"calling", "setting", "unlocking", "notifying", "returned"}

Asleep == {w \in Waiters : pc[w] = "asleep"}

\* The critical sections of wait and of resume.
Inside(t) == pc[t] \in {"checking", "clearing", "setting", "unlocking"}

goto(t, there) == pc' = [pc EXCEPT ![t] = there]

Init ==
  /\ flag = 0
  /\ mtx = NoThread
  /\ pc = [t \in Threads |-> "calling"]
  /\ spurious = 0

-----------------------------------------------------------------------------
(* wait *)

\* std::unique_lock, and the lock that a wake-up takes again.
Lock(w) ==
  /\ pc[w] \in {"calling", "woken"}
  /\ mtx = NoThread
  /\ mtx' = w
  /\ goto(w, "checking")
  /\ UNCHANGED <<flag, spurious>>

\* The predicate of cv.wait is false: release the mutex and sleep in one step.
Sleep(w) ==
  /\ pc[w] = "checking"
  /\ flag # 1
  /\ mtx' = NoThread
  /\ goto(w, "asleep")
  /\ UNCHANGED <<flag, spurious>>

CheckUnlocked(w) ==   \* the mutex is released before the flag is cleared
  /\ pc[w] = "checking"
  /\ flag = 1
  /\ mtx' = NoThread
  /\ goto(w, "clearing")
  /\ UNCHANGED <<flag, spurious>>

CheckPasses(w) ==
  /\ pc[w] = "checking"
  /\ flag = 1
  /\ goto(w, "clearing")
  /\ UNCHANGED <<flag, mtx, spurious>>

\* data.flag = 0, and the unlock of the destructor.
Clear(w) ==
  /\ pc[w] = "clearing"
  /\ flag' = 0
  /\ mtx' = NoThread
  /\ goto(w, "returned")
  /\ UNCHANGED spurious

\* A condition variable may wake a thread that nobody notified.
SpuriousWake(w) ==
  /\ pc[w] = "asleep"
  /\ spurious < MaxSpurious
  /\ spurious' = spurious + 1
  /\ goto(w, "woken")
  /\ UNCHANGED <<flag, mtx>>

-----------------------------------------------------------------------------
(* resume *)

SetUnguarded(r) ==   \* the flag is set without the lock_guard
  /\ pc[r] = "calling"
  /\ goto(r, "setting")
  /\ UNCHANGED <<flag, mtx, spurious>>

LockGuard(r) ==
  /\ pc[r] = "calling"
  /\ mtx = NoThread
  /\ mtx' = r
  /\ goto(r, "setting")
  /\ UNCHANGED <<flag, spurious>>

Set(r) ==
  /\ pc[r] = "setting"
  /\ flag' = 1
  /\ goto(r, "unlocking")
  /\ UNCHANGED <<mtx, spurious>>

UnlockSilently(r) ==   \* without notify_one
  /\ pc[r] = "unlocking"
  /\ mtx' = NoThread
  /\ goto(r, "returned")
  /\ UNCHANGED <<flag, spurious>>

Unlock(r) ==
  /\ pc[r] = "unlocking"
  /\ mtx' = NoThread
  /\ goto(r, "notifying")
  /\ UNCHANGED <<flag, spurious>>

NotifyDropped(r) ==   \* the notification does not arrive
  /\ pc[r] = "notifying"
  /\ goto(r, "returned")
  /\ UNCHANGED <<flag, mtx, spurious>>

\* notify_one wakes one of the sleeping threads, any of them.
NotifyOne(r) ==
  /\ pc[r] = "notifying"
  /\ \E w \in Asleep : pc' = [pc EXCEPT ![r] = "returned", ![w] = "woken"]
  /\ UNCHANGED <<flag, mtx, spurious>>

NotifyNobody(r) ==
  /\ pc[r] = "notifying"
  /\ Asleep = {}
  /\ goto(r, "returned")
  /\ UNCHANGED <<flag, mtx, spurious>>

-----------------------------------------------------------------------------
wait(w) == Lock(w) \/ Sleep(w) \/ CheckPasses(w) \/ Clear(w)

resume(r) ==
  LockGuard(r) \/ Set(r) \/ Unlock(r) \/ NotifyOne(r) \/ NotifyNobody(r)

Next ==
  \/ \E w \in Waiters : wait(w) \/ SpuriousWake(w)
  \/ \E r \in Resumers : resume(r)

Spec == Init /\ [][Next]_vars

\* The scheduler runs every thread; it owes nobody a spurious wake-up.
Fairness ==
  /\ \A w \in Waiters : WF_vars(wait(w))
  /\ \A r \in Resumers : WF_vars(resume(r))

FairSpec == Spec /\ Fairness

-----------------------------------------------------------------------------
(* Properties *)

\* Every thread is at a step of its own function, and a thread is inside the
\* critical section of wait or of resume exactly when it owns the mutex.
TypeOK ==
  /\ flag \in {0, 1}
  /\ mtx \in Threads \cup {NoThread}
  /\ spurious \in 0 .. MaxSpurious
  /\ pc \in [Threads -> WaiterSteps \cup ResumerSteps]
  /\ \A w \in Waiters : pc[w] \in WaiterSteps
  /\ \A r \in Resumers : pc[r] \in ResumerSteps
  /\ \A t \in Threads : Inside(t) <=> mtx = t

\* While the flag is up and a thread sleeps on it, somebody is on the way who
\* will look at the flag or wake the sleeper: calling notify_one after the mutex
\* is released (threadSafety.cpp:26) loses no wake-up.
NoLostWakeup ==
  flag = 1 /\ Asleep # {} =>
    \/ \E r \in Resumers : pc[r] \in {"unlocking", "notifying"}
    \/ \E w \in Waiters : pc[w] \in {"checking", "woken", "clearing"}

\* The latch never stays up while somebody still waits for it: each time it is
\* raised, some wait returns (or every wait has returned already).
RaisedLatchIsTaken ==
  (flag = 1 /\ \E w \in Waiters : pc[w] # "returned")
    ~> (flag = 0 \/ \A w \in Waiters : pc[w] = "returned")

\* What the callers of wait and resume see.
Promised == INSTANCE Latch WITH
  raised <- flag,
  waiting <- [w \in Waiters |-> pc[w] # "returned"],
  resumed <- [r \in Resumers |-> pc[r] \notin {"calling", "setting"}]

\* The implementation is the atomic latch of module Latch: clearing the flag
\* takes it, setting it raises it, and the mutex keeps a waiter that saw the flag
\* from losing it to another one before it clears it (threadSafety.cpp:10-27).
ImplementsLatch == Promised!Spec
=============================================================================
