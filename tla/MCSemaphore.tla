----------------------------- MODULE MCSemaphore -----------------------------
(***************************************************************************)
(* Instances of the threading system for TLC.                              *)
(***************************************************************************)
EXTENDS Semaphore, TLC

\* Threads are interchangeable until the scheduler orders them in its list,
\* and so are client locks and semaphores.
Symmetry == Permutations(Threads) \cup Permutations(AppLocks) \cup Permutations(Sems)
==============================================================================
