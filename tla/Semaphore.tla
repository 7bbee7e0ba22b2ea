------------------------------ MODULE Semaphore ------------------------------
(***************************************************************************)
(* The counting semaphores of common/semaphore.c on top of the scheduler:  *)
(* the complete threading system, its specification and its properties.    *)
(***************************************************************************)
EXTENDS SchedCore

CONSTANTS
    InitCount,      \* the value sem_init gives every semaphore
    MaxCount        \* sem_post is not called once the count is this high

ASSUME CountAssumption == InitCount \in Nat /\ MaxCount \in Nat

VARIABLES
    count,          \* sem->count
    wait_list       \* sem->wait_list, as the threads of its entries

semVars == <<count, wait_list>>
vars == <<coreVars, semVars>>

-----------------------------------------------------------------------------
CallSemWait(s) ==
    /\ MayCall("sem_wait")
    /\ Enter("sem_wait", "check", s, TRUE)
    /\ UNCHANGED <<thread_list, state, priority, sleep_time, current, ctx,
                   lock, preempt_count, semVars>>

\* sem_wait holding sem->lock: take a token and leave the list if still on
\* it, or go to sleep at the end of the list.
SemWaitBody ==
    /\ cpu.step = "crit" /\ cpu.op = "sem_wait"
    /\ LET s == cpu.arg
       IN  \/ /\ count[s] > 0
              /\ count' = [count EXCEPT ![s] = @ - 1]
              /\ wait_list' = IF current \in Elements(wait_list[s])
                                THEN [wait_list EXCEPT ![s] = ListDel(@, current)]
                                ELSE wait_list
              /\ cpu' = [cpu EXCEPT !.step = "unlock", !.yields = FALSE]
              /\ UNCHANGED state
           \/ /\ count[s] = 0
              /\ state' = [state EXCEPT ![current] = "BLOCK"]
              /\ wait_list' = [wait_list EXCEPT ![s] = Append(@, current)]
              /\ cpu' = [cpu EXCEPT !.step = "unlock", !.yields = TRUE]
              /\ UNCHANGED count
    /\ UNCHANGED <<thread_list, priority, sleep_time, current, ctx, lock,
                   preempt_count>>

CallSemPost(s) ==
    /\ MayCall("sem_post")
    /\ count[s] < MaxCount
    /\ Enter("sem_post", "check", s, TRUE)
    /\ UNCHANGED <<thread_list, state, priority, sleep_time, current, ctx,
                   lock, preempt_count, semVars>>

\* The entry sem_post picks: the first of the highest priority among the
\* threads that are still BLOCK.
IsBest(s, i) ==
    LET q == wait_list[s]
    IN  /\ state[q[i]] = "BLOCK"
        /\ \A j \in DOMAIN q :
              state[q[j]] = "BLOCK" =>
                 \/ priority[q[j]] < priority[q[i]]
                 \/ priority[q[j]] = priority[q[i]] /\ i <= j

\* Mutant: best_prio starts at 1 instead of -1.
WakeBestAboveOne(s) ==
    LET q == wait_list[s]
    IN  \/ \E i \in DOMAIN q :
              /\ IsBest(s, i) /\ priority[q[i]] > 1
              /\ state' = [state EXCEPT ![q[i]] = "RUNNABLE"]
              /\ wait_list' = [wait_list EXCEPT ![s] = ListDel(@, q[i])]
        \/ /\ \A i \in DOMAIN q : state[q[i]] # "BLOCK" \/ priority[q[i]] <= 1
           /\ UNCHANGED <<state, wait_list>>

\* The chosen entry's thread becomes RUNNABLE and leaves the list.
WakeBest(s) ==
    LET q == wait_list[s]
    IN  \/ \E i \in DOMAIN q :
              /\ IsBest(s, i)
              /\ state' = [state EXCEPT ![q[i]] = "RUNNABLE"]
              /\ wait_list' = [wait_list EXCEPT ![s] = ListDel(@, q[i])]
        \/ /\ \A i \in DOMAIN q : state[q[i]] # "BLOCK"
           /\ UNCHANGED <<state, wait_list>>

\* sem_post holding sem->lock.
SemPostBody ==
    /\ cpu.step = "crit" /\ cpu.op = "sem_post"
    /\ count' = [count EXCEPT ![cpu.arg] = @ + 1]
    /\ WakeBest(cpu.arg)
    /\ cpu' = [cpu EXCEPT !.step = "unlock"]
    /\ UNCHANGED <<thread_list, priority, sleep_time, current, ctx, lock,
                   preempt_count>>

-----------------------------------------------------------------------------
Init ==
    /\ CoreInit
    /\ count = [s \in Sems |-> InitCount]
    /\ wait_list = [s \in Sems |-> <<>>]

SemStep ==
    \/ \E s \in Sems : CallSemWait(s) \/ CallSemPost(s)
    \/ SemWaitBody \/ SemPostBody

\* The running context's own progress.
Run ==
    \/ CoreStep /\ UNCHANGED semVars
    \/ SemStep

Next ==
    \/ Run
    \/ Tick /\ UNCHANGED semVars
    \/ Interrupt /\ UNCHANGED semVars

Spec == Init /\ [][Next]_vars

\* The hart goes on executing, and a thread that keeps being scheduled gets
\* instructions in (ticks are 10 ms apart).  A timer interrupt that becomes
\* due while MIE is clear stays pending until mtimer_isr moves mtimecmp, and
\* is taken when MIE comes back: strong fairness.
Fairness ==
    /\ WF_vars(Run)
    /\ \A t \in Threads : SF_vars(current = t /\ Run)
    /\ SF_vars(Tick /\ UNCHANGED semVars)

FairSpec == Spec /\ Fairness

\* Clients that leave the spinlocks they entered.
HoldersRelease ==
    \A l \in AppLocks : SF_vars(CallSpinUnlock(l) /\ UNCHANGED semVars)

FairReleaseSpec == FairSpec /\ HoldersRelease

-----------------------------------------------------------------------------
(* Properties.                                                             *)

Live(t) == state[t] \in {"RUNNABLE", "RUNNING", "BLOCK"}

\* The context of t, running or saved.  While cpu.op = "start" the hart still
\* runs the boot context although current names the idle thread.
OnCpu(t) == t = current /\ cpu.op # "start"
ContextOf(t) == IF OnCpu(t) THEN cpu ELSE ctx[t]

\* The spinlocks a context is inside of.
Holds(c) ==
    c.held \cup (IF c.step \in {"crit", "unlock"} THEN {LockOf(c)} ELSE {})

\* Every variable has the type its declaration gives it: the states are those
\* of the enum in thread.h, counters never go below zero, lists hold threads.
TypeOK ==
    /\ thread_list \in Seq(AllThreads)
    /\ state \in [AllThreads -> {"FREE", "RUNNABLE", "RUNNING", "BLOCK", "DEAD"}]
    /\ priority \in [AllThreads -> 0 .. IntMax]
    /\ sleep_time \in [AllThreads -> Nat]
    /\ current \in AllThreads \cup {NoThread}
    /\ ctx \in [AllThreads -> Context]
    /\ cpu \in Context
    /\ lock \in [Locks -> {0, 1}]
    /\ preempt_count \in Nat
    /\ count \in [Sems -> Nat]
    /\ wait_list \in [Sems -> Seq(Threads)]

\* The discipline that makes spin_lock safe on one hart: the lock words that
\* are set are exactly those the running context is inside of, the global
\* preempt_count is their number (plus sched_msleep's own disable), and
\* interrupts are on exactly when it is zero.
LockDiscipline ==
    /\ \A l \in Locks : lock[l] = 1 <=> l \in Holds(cpu)
    /\ preempt_count = Cardinality(Holds(cpu)) + (IF cpu.step = "wake" THEN 1 ELSE 0)
    /\ cpu.mie <=> preempt_count = 0 /\ cpu.step # "halt"

\* No thread is ever switched out inside a spinlock or with interrupts off, so
\* a spin_lock of another thread can never find the lock word set: spinning,
\* which on one hart with interrupts off would be for ever, never happens.
NeverSpins ==
    /\ \A t \in AllThreads : Live(t) /\ ~OnCpu(t) => ctx[t].mie /\ Holds(ctx[t]) = {}
    /\ cpu.step \in {"check", "try"} => lock[LockOf(cpu)] = 0

\* LockDiscipline and NeverSpins together: mutual exclusion by spinlocks on one
\* hart, and no thread ever waits in spin_lock.
LocksSafe == LockDiscipline /\ NeverSpins

\* What the scheduler and the semaphores point to is allocated: listed threads
\* are distinct and live (or the dying current thread), so thread_destroy,
\* which frees a DEAD thread without unlinking it, leaves no dangling pointer.
NoDanglingThread ==
    /\ \A i, j \in DOMAIN thread_list : thread_list[i] = thread_list[j] => i = j
    /\ \A t \in Elements(thread_list) : Live(t) \/ (t = current /\ state[t] = "DEAD")
    /\ \A s \in Sems : Elements(wait_list[s]) \subseteq Elements(thread_list)
    /\ current # NoThread => current \in Elements(thread_list)

\* Once started, sched_thread always finds a thread to run ("idle thread always
\* runnable"), and only the current thread is RUNNING.
IdleAlwaysRunnable ==
    current # NoThread =>
       /\ Idle \in Elements(thread_list) /\ CanRun(state, Idle)
       /\ priority[Idle] = 0
       /\ \A t \in AllThreads : state[t] = "RUNNING" => t = current

\* A BLOCK thread has exactly one thing to wait for: the end of its sleep or
\* one entry in one semaphore's list; a thread that is not BLOCK has none.
BlockedHasOneWaker ==
    \A t \in AllThreads :
       LET entries == UNION {{s} \X {i \in DOMAIN wait_list[s] : wait_list[s][i] = t} : s \in Sems}
       IN  IF state[t] = "BLOCK"
             THEN Cardinality(entries) + (IF sleep_time[t] > 0 THEN 1 ELSE 0) = 1
             ELSE entries = {} /\ sleep_time[t] = 0

\* The scheduler's data structures are sound: no pointer to a freed thread, an
\* idle thread that can always run, one waker for every blocked thread.
ThreadListSound == NoDanglingThread /\ IdleAlwaysRunnable /\ BlockedHasOneWaker

\* Threads inside sem_wait(s) that will look at the count again.
Rechecking(s) ==
    {t \in Threads :
       /\ Live(t) /\ t \notin Elements(wait_list[s])
       /\ ContextOf(t).op = "sem_wait" /\ ContextOf(t).arg = s
       /\ ~(ContextOf(t).step = "unlock" /\ ~ContextOf(t).yields)}

\* No wake-up is lost: while a thread sleeps on s, every token of s has a
\* thread already on its way to take it.
NoLostWakeup ==
    \A s \in Sems :
       wait_list[s] # <<>> => count[s] <= Cardinality(Rechecking(s))

\* While a thread runs its own code, no thread of a higher priority is
\* runnable; the idle thread runs only when nothing else can.
HighestPriorityRuns ==
    current # NoThread /\ cpu.op \in {"user", "idle"} =>
       \A t \in Elements(thread_list) :
          CanRun(state, t) => priority[t] <= priority[current]

\* A step may change the context of one thread only, the running one, by the
\* code it executes; being switched out and in again loses nothing.  (The
\* ecall's return, AfterEcall, is the running thread's own progress; creation
\* gives a thread its first context.)
ContextPreserved ==
    [][\A t \in AllThreads :
         /\ (Live(t) /\ ~OnCpu(t) => ContextOf(t)' = ctx[t])
         /\ (Live(t) /\ OnCpu(t) /\ current' # t => ctx'[t] \in {cpu, AfterEcall(cpu)})]_vars

\* The refinement mapping to the threads clients believe in.
HasTakenEffect(c) ==
    \/ c.op = "sem_wait" /\ c.step = "unlock" /\ ~c.yields
    \/ c.op = "sem_post" /\ c.step \in {"unlock", "yield"}

absLife == [t \in Threads |->
    IF Live(t) THEN "live" ELSE IF state[t] = "DEAD" THEN "dead" ELSE "none"]

absCall == [t \in Threads |->
    IF Live(t)
      THEN [op |-> ContextOf(t).op, arg |-> ContextOf(t).arg,
            done |-> HasTakenEffect(ContextOf(t))]
      ELSE [op |-> "user", arg |-> NoThread, done |-> FALSE]]

\* Nobody is inside l, or the one thread whose context is.
absOwner == [l \in AppLocks |->
    LET inside == {t \in Threads : Live(t) /\ l \in Holds(ContextOf(t))}
    IN  IF inside = {} THEN NoThread ELSE CHOOSE t \in inside : TRUE]

Abstract == INSTANCE Threading
    WITH Nobody <- NoThread, life <- absLife, call <- absCall,
         owner <- absOwner, value <- count

\* The scheduler, the spinlocks and the semaphores together give every client
\* the threads of module Threading: no call is lost, repeated or applied for
\* another thread, whatever interrupts and switches come in between.
ImplementsThreading == Abstract!Spec

\* Every runnable thread gets the hart (checked where priorities are equal).
RunnableRuns ==
    \A t \in Threads : state[t] = "RUNNABLE" ~> (state[t] = "RUNNING" \/ ~Live(t))

\* sched_msleep ends.
SleepersWake ==
    \A t \in Threads : sleep_time[t] > 0 ~> state[t] = "RUNNABLE" \/ state[t] = "RUNNING"

\* A thread that asks for a spinlock gets it, provided holders release theirs.
LockersGetLock ==
    \A t \in Threads :
       (Live(t) /\ ContextOf(t).op = "spin_lock") ~> (ContextOf(t).op # "spin_lock")

\* A token that is there while a thread waits is taken, or all are woken.
TokensReachWaiters ==
    \A s \in Sems :
       (count[s] > 0 /\ wait_list[s] # <<>>) ~> (count[s] = 0 \/ wait_list[s] = <<>>)

\* A call that has to wait ends: sched_msleep, spin_lock (given that holders
\* release) and, while there are tokens, sem_wait.
CallsComplete == SleepersWake /\ LockersGetLock /\ TokensReachWaiters

-----------------------------------------------------------------------------
(* The inductive invariant behind the locking and scheduling properties.   *)

\* Which step, argument and locks go with which call.  The code's stack and
\* program counter say this implicitly.
Coherent(c) ==
    /\ c.op = "user" <=> c.step = "user"
    /\ c.op = "user" => c.arg = NoThread
    /\ c.op = "idle" <=> c.step = "wfi"
    /\ c.op = "start" => c.step \in {"yield", "halt"}
    /\ c.step = "halt" => c.op = "start"
    /\ c.op \in {"spin_lock", "spin_unlock"} => c.arg \in AppLocks \ c.held
    /\ c.op = "spin_lock" => c.step \in {"check", "try"}
    /\ c.op = "spin_unlock" => c.step = "unlock"
    /\ c.op \in {"sem_wait", "sem_post"} => c.arg \in Sems
    /\ c.op \in {"create", "destroy"} => c.arg \in Threads
    /\ c.op \in YieldingCalls \cup {"idle", "start"} => c.held = {}
    /\ c.step \in {"yield", "sleep", "wake"} => c.op \in YieldingCalls \cup {"start"}
    /\ c.step \in {"sleep", "wake"} => c.op = "msleep"
    /\ c.step = "sleep" => c.arg \in SleepTimes \ {0}
    /\ c.step \in {"check", "try", "crit", "unlock"} =>
          c.op \in {"spin_lock", "spin_unlock", "sem_wait", "sem_post",
                    "create", "destroy", "exit"}
    /\ c.yields => c.op \in {"sem_wait", "sem_post", "exit"}
    /\ c.op \in {"sem_post", "exit"} => c.yields
    /\ c.op = "sem_wait" /\ c.step # "unlock" => c.yields
    /\ c.op = "set_priority" => c.step = "yield"

\* A context that a trap saved: outside every lock, interrupts on.
Parked(c) == Coherent(c) /\ c.mie /\ Holds(c) = {} /\ c.step # "wake"

\* Before sched_start only the boot context runs; afterwards the idle thread is
\* there, can run, and its context never leaves the wfi loop.
IdleInv ==
    IF current = NoThread
      THEN /\ cpu.op \in {"user", "create", "set_priority", "start"}
           /\ cpu.op = "start" => cpu.step = "halt"
      ELSE /\ {Idle, current} \subseteq Elements(thread_list)
           /\ CanRun(state, Idle)
           /\ priority[Idle] = 0
           /\ ctx[Idle] = IdleContext
           /\ cpu.op = "start" => current = Idle /\ state[Idle] = "RUNNABLE"
           /\ current = Idle => cpu.op \in {"idle", "start"}
           /\ cpu.op = "idle" => current = Idle /\ cpu = IdleContext

\* RUNNING and current mean the same thread.
RunningInv == \A t \in AllThreads : state[t] = "RUNNING" => t = current

\* Thread contexts are contexts of thread routines.
ThreadContexts ==
    \A t \in Threads : ctx[t].op \notin {"idle", "start"}

SchedInv ==
    /\ TypeOK
    /\ LockDiscipline
    /\ Coherent(cpu)
    /\ \A t \in AllThreads : Parked(ctx[t])
    /\ IdleInv
    /\ RunningInv
    /\ ThreadContexts

-----------------------------------------------------------------------------
(* The inductive invariant behind the list, priority and wake-up           *)
(* properties, for clients that sleep for 0 or at least a whole tick.      *)

\* A sleep that is not 0 outlasts the tick that may come before its ecall.
LongSleeps == \A time \in SleepTimes : time = 0 \/ SleepTicks(time) > 1

\* A live thread whose context is the one a trap saved.
Saved(t) == Live(t) /\ ~OnCpu(t)

\* thread_list holds each thread once, and only what may be scheduled.
ListInv ==
    /\ \A i, j \in DOMAIN thread_list : thread_list[i] = thread_list[j] => i = j
    /\ \A t \in Elements(thread_list) : Live(t) \/ (t = current /\ state[t] = "DEAD")
    /\ current = NoThread => state[Idle] = "FREE" /\ Idle \notin Elements(thread_list)

\* The running thread is RUNNING unless it is on its way to sched_yield, and a
\* tick before that does not end its sleep.
CurrentInv ==
    current # NoThread =>
       /\ state[current] = "RUNNABLE" => cpu.op = "start"
       /\ state[current] = "DEAD" => cpu.op = "exit" /\ cpu.step \in {"unlock", "yield"}
       /\ state[current] = "BLOCK" =>
             /\ cpu.op \in {"msleep", "sem_wait"} /\ cpu.step \in {"wake", "unlock", "yield"}
             /\ cpu.step = "unlock" => cpu.yields
             /\ sleep_time[current] # 1

\* The threads of a wait list are inside sem_wait of that semaphore; a BLOCK
\* thread is in one of the lists or sleeps, and nobody else sleeps.
WaitInv ==
    /\ \A s \in Sems : \A i, j \in DOMAIN wait_list[s] :
          wait_list[s][i] = wait_list[s][j] => i = j
    /\ \A s \in Sems : \A t \in Elements(wait_list[s]) :
          /\ state[t] = "BLOCK" /\ sleep_time[t] = 0 /\ t \in Elements(thread_list)
          /\ ContextOf(t).op = "sem_wait" /\ ContextOf(t).arg = s
    /\ \A t \in AllThreads :
          /\ sleep_time[t] > 0 => state[t] = "BLOCK"
          /\ state[t] = "BLOCK" /\ sleep_time[t] = 0 =>
                \E s \in Sems : t \in Elements(wait_list[s])

\* A context between its call of thread_create or thread_destroy and the
\* critical section owns the thread object: it is in no list, and no other
\* context is about to link or free it.
Owns(c) == c.op \in {"create", "destroy"} /\ c.step \in {"check", "try", "crit"}

Owned(c) ==
    /\ c.arg \notin Elements(thread_list)
    /\ c.op = "create" => state[c.arg] = "RUNNABLE" /\ priority[c.arg] = 1
    /\ c.op = "destroy" => state[c.arg] = "DEAD"

OwnerInv ==
    /\ Owns(cpu) => Owned(cpu)
    /\ \A t \in AllThreads : Saved(t) /\ Owns(ctx[t]) =>
          /\ Owned(ctx[t])
          /\ Owns(cpu) => cpu.arg # ctx[t].arg
          /\ \A u \in AllThreads : Saved(u) /\ Owns(ctx[u]) /\ ctx[u].arg = ctx[t].arg => u = t

\* Between a change of priorities or a wake-up and the sched_yield that follows
\* it the running thread may be one that should not run.
PriorityInv ==
    /\ \A t \in Threads : state[t] # "FREE" => priority[t] >= 1
    /\ current # NoThread /\ cpu.op \notin {"set_priority", "sem_post", "start"} =>
          \A t \in Elements(thread_list) :
             CanRun(state, t) => priority[t] <= priority[current]

WakeInv ==
    /\ ListInv
    /\ CurrentInv
    /\ WaitInv
    /\ OwnerInv
    /\ PriorityInv
    /\ NoLostWakeup

\* Behind the critical section of thread_end_point a thread is not live: its
\* last sched_yield never returns to it.
DyingInv ==
    \A t \in Threads :
       Live(t) /\ ContextOf(t).op = "exit" => ContextOf(t).step \notin {"unlock", "yield"}
=============================================================================
