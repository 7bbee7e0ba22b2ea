------------------------------ MODULE Threading ------------------------------
(***************************************************************************)
(* What common/thread.h, spinlock.h and semaphore.h promise their clients: *)
(* threads that run truly side by side, each executing its own calls in    *)
(* order, with atomic semaphores and mutual exclusion.  There is no hart,  *)
(* no scheduler and no saved context here; module Semaphore implements     *)
(* this specification.                                                     *)
(***************************************************************************)
EXTENDS Integers

CONSTANTS Threads, AppLocks, Sems, InitCount, Nobody

VARIABLES
    life,       \* "none", "live" or "dead"
    call,       \* the call each thread is in, and whether it has taken effect
    owner,      \* the thread inside each client spinlock
    value       \* semaphore values

absVars == <<life, call, owner, value>>

\* The thread runs its own code.
InRoutine == [op |-> "user", arg |-> Nobody, done |-> FALSE]

Init ==
    /\ life = [t \in Threads |-> "none"]
    /\ call = [t \in Threads |-> InRoutine]
    /\ owner = [l \in AppLocks |-> Nobody]
    /\ value = [s \in Sems |-> InitCount]

\* A thread makes a call; nothing happens yet.
Begin(t) ==
    /\ life[t] = "live" /\ call[t] = InRoutine
    /\ call'[t].op # "user" /\ ~call'[t].done
    /\ call' = [call EXCEPT ![t] = call'[t]]
    /\ UNCHANGED <<life, owner, value>>

TakeEffect(t) == call' = [call EXCEPT ![t] = [op |-> @.op, arg |-> @.arg, done |-> TRUE]]
Return(t) == call' = [call EXCEPT ![t] = InRoutine]

SemWait(t) ==
    /\ life[t] = "live" /\ call[t].op = "sem_wait" /\ ~call[t].done
    /\ value[call[t].arg] > 0
    /\ value' = [value EXCEPT ![call[t].arg] = @ - 1]
    /\ TakeEffect(t)
    /\ UNCHANGED <<life, owner>>

SemPost(t) ==
    /\ life[t] = "live" /\ call[t].op = "sem_post" /\ ~call[t].done
    /\ value' = [value EXCEPT ![call[t].arg] = @ + 1]
    /\ TakeEffect(t)
    /\ UNCHANGED <<life, owner>>

SemReturn(t) ==
    /\ life[t] = "live" /\ call[t].op \in {"sem_wait", "sem_post"} /\ call[t].done
    /\ Return(t)
    /\ UNCHANGED <<life, owner, value>>

SpinLock(t) ==
    /\ life[t] = "live" /\ call[t].op = "spin_lock"
    /\ owner[call[t].arg] = Nobody
    /\ owner' = [owner EXCEPT ![call[t].arg] = t]
    /\ Return(t)
    /\ UNCHANGED <<life, value>>

SpinUnlock(t) ==
    /\ life[t] = "live" /\ call[t].op = "spin_unlock"
    /\ owner[call[t].arg] = t
    /\ owner' = [owner EXCEPT ![call[t].arg] = Nobody]
    /\ Return(t)
    /\ UNCHANGED <<life, value>>

\* Calls that only concern scheduling.
SchedulingReturn(t) ==
    /\ life[t] = "live"
    /\ call[t].op \in {"yield", "msleep", "set_priority", "create", "destroy"}
    /\ Return(t)
    /\ UNCHANGED <<life, owner, value>>

\* A thread comes to life because some context creates it, which is by that
\* in its call of thread_create.
Spawn(t) ==
    /\ life[t] = "none"
    /\ life' = [life EXCEPT ![t] = "live"]
    /\ \/ UNCHANGED call
       \/ \E u \in Threads \ {t} :
             /\ life[u] = "live" /\ call[u] = InRoutine
             /\ call' = [call EXCEPT ![u] = [op |-> "create", arg |-> t, done |-> FALSE]]
    /\ UNCHANGED <<owner, value>>

Exit(t) ==
    /\ life[t] = "live" /\ call[t].op = "exit"
    /\ life' = [life EXCEPT ![t] = "dead"]
    /\ Return(t)
    /\ UNCHANGED <<owner, value>>

Reap(t) ==
    /\ life[t] = "dead"
    /\ life' = [life EXCEPT ![t] = "none"]
    /\ UNCHANGED <<call, owner, value>>

Next ==
    \E t \in Threads :
       \/ Begin(t) \/ SemWait(t) \/ SemPost(t) \/ SemReturn(t)
       \/ SpinLock(t) \/ SpinUnlock(t) \/ SchedulingReturn(t)
       \/ Spawn(t) \/ Exit(t) \/ Reap(t)

Spec == Init /\ [][Next]_absVars
=============================================================================
