------------------------------ MODULE SchedCore ------------------------------
(***************************************************************************)
(* The thread scheduler of common/thread.c, the spinlocks it is built on   *)
(* (common/spinlock.c, arch_spinlock.c) and the trap path that switches    *)
(* contexts (arch/riscv/src/trap.c, arch_thread.c, vector.S), on one hart. *)
(*                                                                         *)
(* `cpu' is the live machine context: where the running code is and the    *)
(* interrupt enable bit.  ctx[t] is what t->cpu_ctx points to: the context *)
(* the last save left for t.  A trap saves the live context (or not), runs *)
(* sched_thread and resumes whatever the chosen thread has in ctx.         *)
(* Interrupts strike between any two steps while cpu.mie holds; a trap is  *)
(* one step because MIE is clear from trap entry to mret.                  *)
(*                                                                         *)
(* Clients are arbitrary thread routines: in step "user" they make any     *)
(* call of the set Calls.  The main context that boots the system is the   *)
(* user context that runs while current = NoThread (NULL in the code).     *)
(***************************************************************************)
EXTENDS Integers, Sequences, FiniteSets

CONSTANTS
    Threads,        \* thread objects that clients may create
    Idle,           \* the thread object of sched_start's idle thread
    NoThread,       \* NULL
    AppLocks,       \* spinlocks of client code
    Sems,           \* semaphores; each has a spinlock of its own
    ThreadLock,     \* thread_lock
    Priorities,     \* arguments of thread_set_priority
    SleepTimes,     \* arguments of sched_msleep, in ms
    Calls,          \* the calls clients make
    MayYieldHolding,\* whether clients make yielding calls inside a spinlock
    StartFailures,  \* how sched_start can fail: "nomem", "notimer"
    TickHz,         \* sched_tick_hz
    IntMax          \* INT_MAX; priorities are C ints

AllThreads == Threads \cup {Idle}
Elements(s) == {s[i] : i \in DOMAIN s}
Locks == AppLocks \cup Sems \cup {ThreadLock}

\* The calls that end in sched_yield, and those that take a lock first.
YieldingCalls == {"yield", "msleep", "set_priority", "sem_wait", "sem_post",
                  "exit"}
AllCalls == YieldingCalls \cup {"create", "destroy", "spin_lock", "spin_unlock"}

ASSUME ConstantsAssumption ==
    /\ IsFiniteSet(Threads) /\ Idle \notin Threads
    /\ IsFiniteSet(AppLocks)
    /\ NoThread \notin AllThreads
    /\ AppLocks \cap Sems = {} /\ ThreadLock \notin AppLocks \cup Sems
    /\ \A p \in Priorities : p \in Int /\ p <= IntMax
    /\ SleepTimes \subseteq Nat
    /\ Calls \subseteq AllCalls
    /\ MayYieldHolding \in BOOLEAN
    /\ StartFailures \subseteq {"nomem", "notimer"}
    /\ TickHz \in Nat
    /\ IntMax \in Nat \ {0}

VARIABLES
    thread_list,    \* the threads the scheduler knows, in list order
    state,          \* t->state; "FREE" when no such object is allocated
    priority,       \* t->priority
    sleep_time,     \* t->sleep_time, in ticks
    current,        \* the running thread
    ctx,            \* what t->cpu_ctx->regs points to
    cpu,            \* the live context
    lock,           \* the lock words
    preempt_count   \* preempt_count

coreVars == <<thread_list, state, priority, sleep_time, current, ctx, cpu,
              lock, preempt_count>>

-----------------------------------------------------------------------------
(* Contexts.  op is the call in progress ("user" when there is none), step *)
(* the place in it, arg its argument, held the client spinlocks the        *)
(* routine has taken, yields whether the call goes on to sched_yield after *)
(* spin_unlock, mie the MIE bit (MPIE once saved).                         *)

Steps == {"user", "check", "try", "crit", "unlock", "sleep", "wake", "yield",
          "wfi", "halt"}

Context == [op : AllCalls \cup {"user", "idle", "start"},
            step : Steps,
            arg : Locks \cup AllThreads \cup Nat \cup {NoThread},
            held : SUBSET AppLocks,
            yields : BOOLEAN,
            mie : BOOLEAN]

\* arch_thread_create_cpu_ctx: entry point, ra = thread_end_point, MPIE set
\* (the creator runs with MIE set, or after an mret, which sets MPIE).
FreshContext ==
    [op |-> "user", step |-> "user", arg |-> NoThread, held |-> {},
     yields |-> FALSE, mie |-> TRUE]

IdleContext == [FreshContext EXCEPT !.op = "idle", !.step = "wfi"]

\* Back in the caller's code, the call done.
ToUser(c) ==
    [c EXCEPT !.op = "user", !.step = "user", !.arg = NoThread,
              !.yields = FALSE]

\* Mutant: sem_wait does not look at the count again after it was woken.
AfterEcallReturns(c) == ToUser(c)

\* The context behind the ecall of sched_yield: trap_handler adds 4 to mepc.
\* sem_wait goes round its loop, every other caller returns.
AfterEcall(c) ==
    IF c.op = "sem_wait" THEN [c EXCEPT !.step = "check"] ELSE ToUser(c)

\* The lock a call takes.
LockOf(c) ==
    IF c.op \in {"create", "destroy", "exit"} THEN ThreadLock ELSE c.arg

-----------------------------------------------------------------------------
(* sched_thread.                                                           *)

CanRun(st, t) == st[t] \in {"RUNNABLE", "RUNNING"}

\* The place of `current' in thread_list, and how many next_thread steps
\* lead from it to position i; current itself is looked at last.
CurrentPos == CHOOSE i \in DOMAIN thread_list : thread_list[i] = current
DistanceFromHead(i) == i    \* mutant: scan from the head of the list
Distance(i) ==
    IF i > CurrentPos THEN i - CurrentPos
                      ELSE i - CurrentPos + Len(thread_list)

\* Mutant: the scan takes the first runnable thread it meets.
IsNextAnyPriority(st, i) ==
    /\ CanRun(st, thread_list[i])
    /\ \A j \in DOMAIN thread_list :
          CanRun(st, thread_list[j]) => Distance(i) <= Distance(j)

\* The scan keeps the first thread of the highest priority it meets.
IsNext(st, i) ==
    /\ CanRun(st, thread_list[i])
    /\ \A j \in DOMAIN thread_list :
          CanRun(st, thread_list[j]) =>
             \/ priority[thread_list[j]] < priority[thread_list[i]]
             \/ /\ priority[thread_list[j]] = priority[thread_list[i]]
                /\ Distance(i) <= Distance(j)

NextThread(st) == thread_list[CHOOSE i \in DOMAIN thread_list : IsNext(st, i)]

\* list_del.
ListDel(s, e) ==
    LET k == CHOOSE i \in DOMAIN s : s[i] = e
    IN  [i \in 1 .. Len(s) - 1 |-> IF i < k THEN s[i] ELSE s[i + 1]]

\* Mutant: a BLOCK thread is not saved.
SaveRunningOnly(st, c) ==
    IF st[current] = "RUNNING" THEN [ctx EXCEPT ![current] = c] ELSE ctx

\* arch_thread_save_ctx, done only for a RUNNING or BLOCK current.  When it
\* is skipped cpu_ctx->regs goes on pointing to the frame of the last save.
SaveContext(st, c) ==
    IF st[current] \in {"RUNNING", "BLOCK"}
      THEN [ctx EXCEPT ![current] = c]
      ELSE ctx

\* Mutant: a DEAD current stays listed.
UnlinkedNever(st) == thread_list

\* A DEAD current leaves the list.
Unlinked(st) ==
    IF st[current] = "DEAD" THEN ListDel(thread_list, current) ELSE thread_list

\* A preempted current is RUNNABLE again, the chosen thread RUNNING.
Rescheduled(st, next) ==
    [t \in AllThreads |->
       IF t = next THEN "RUNNING"
       ELSE IF t = current /\ st[t] = "RUNNING" THEN "RUNNABLE"
       ELSE st[t]]

\* The tail of trap_handler: sched_thread, then mret into the chosen context.
\* st is t->state after the handler ran, c the interrupted context.
SwitchFrom(st, c) ==
    LET next == NextThread(st)
    IN  /\ thread_list' = Unlinked(st)
        /\ state' = Rescheduled(st, next)
        /\ ctx' = SaveContext(st, c)
        /\ current' = next
        /\ cpu' = SaveContext(st, c)[next]

-----------------------------------------------------------------------------
(* Traps.                                                                  *)

\* Mutant: a sleeper stays at its last tick.
AgedToOne ==
    [t \in AllThreads |->
       IF t \in Elements(thread_list) /\ sleep_time[t] > 1
         THEN sleep_time[t] - 1 ELSE sleep_time[t]]

\* Mutant: the counter is not compared with zero.
AgedBelowZero ==
    [t \in AllThreads |->
       IF t \in Elements(thread_list) THEN sleep_time[t] - 1 ELSE sleep_time[t]]

\* sched_tick: every listed sleeper is one tick closer to its end.
Aged ==
    [t \in AllThreads |->
       IF t \in Elements(thread_list) /\ sleep_time[t] > 0
         THEN sleep_time[t] - 1 ELSE sleep_time[t]]

Woken ==
    [t \in AllThreads |->
       IF Aged[t] = 0 /\ sleep_time[t] > 0 THEN "RUNNABLE" ELSE state[t]]

\* The scheduler timer: sched_tick, then sched_thread.  sched_start arms the
\* timer, so current is set.
Tick ==
    /\ current # NoThread
    /\ cpu.mie
    /\ sleep_time' = Aged
    /\ SwitchFrom(Woken, cpu)
    /\ UNCHANGED <<priority, lock, preempt_count>>

\* Any other interrupt: the handler leaves the scheduler's state alone, but
\* trap_handler still ends in sched_thread.
Interrupt ==
    /\ current # NoThread
    /\ cpu.mie
    /\ SwitchFrom(state, cpu)
    /\ UNCHANGED <<priority, sleep_time, lock, preempt_count>>

\* sched_yield: the ecall traps whatever MIE says.  Before sched_start
\* sched_thread returns the context it was given.
Yield ==
    /\ cpu.step = "yield"
    /\ IF current = NoThread
         THEN /\ cpu' = AfterEcall(cpu)
              /\ UNCHANGED <<thread_list, state, ctx, current>>
         ELSE SwitchFrom(state, AfterEcall(cpu))
    /\ UNCHANGED <<priority, sleep_time, lock, preempt_count>>

-----------------------------------------------------------------------------
(* Spinlocks.                                                              *)

\* sched_preempt_disable: interrupts off (mie, below), count up.
PreemptDisable == preempt_count' = preempt_count + 1

\* Mutant: every sched_preempt_enable turns interrupts on.
EnableAlways(count, c) == [c EXCEPT !.mie = TRUE]

\* sched_preempt_enable: MIE comes back only when the global count reaches
\* zero.  (in_irq() is false in every context modelled here.)
EnableAt(count, c) == [c EXCEPT !.mie = @ \/ count = 0]

\* spin_lock: one look at the lock word with interrupts as they are.
SpinCheck ==
    /\ cpu.step = "check"
    /\ lock[LockOf(cpu)] = 0
    /\ cpu' = [cpu EXCEPT !.step = "try"]
    /\ UNCHANGED <<thread_list, state, priority, sleep_time, current, ctx,
                   lock, preempt_count>>

\* spin_trylock: interrupts off, count up, amoswap; undone when busy.
SpinTry ==
    /\ cpu.step = "try"
    /\ LET l == LockOf(cpu)
           off == [cpu EXCEPT !.mie = FALSE]
       IN  \/ /\ lock[l] = 0
              /\ lock' = [lock EXCEPT ![l] = 1]
              /\ PreemptDisable
              /\ cpu' = IF cpu.op = "spin_lock"
                          THEN [ToUser(off) EXCEPT !.held = @ \cup {l}]
                          ELSE [off EXCEPT !.step = "crit"]
           \/ /\ lock[l] = 1
              /\ cpu' = EnableAt(preempt_count, [off EXCEPT !.step = "check"])
              /\ UNCHANGED <<lock, preempt_count>>
    /\ UNCHANGED <<thread_list, state, priority, sleep_time, current, ctx>>

\* arch_spin_unlock.
Release(l) == lock' = [lock EXCEPT ![l] = 0]

\* spin_unlock, and what its caller does next.
SpinUnlock ==
    /\ cpu.step = "unlock"
    /\ Release(LockOf(cpu))
    /\ preempt_count' = preempt_count - 1
    /\ cpu' = EnableAt(preempt_count',
                       IF cpu.yields THEN [cpu EXCEPT !.step = "yield"]
                                     ELSE ToUser(cpu))
    /\ UNCHANGED <<thread_list, state, priority, sleep_time, current, ctx>>

-----------------------------------------------------------------------------
(* Client calls.                                                           *)

\* Thread routines make any call; main only prepares threads.  A routine
\* returns, which is the call "exit", holding nothing.
MayCall(op) ==
    /\ cpu.step = "user"
    /\ op \in Calls
    /\ current = NoThread => op \in {"create", "set_priority"}
    /\ op \in YieldingCalls => MayYieldHolding \/ cpu.held = {}
    /\ op = "exit" => cpu.held = {}

Enter(op, step, arg, yields) ==
    cpu' = [cpu EXCEPT !.op = op, !.step = step, !.arg = arg, !.yields = yields]

CallSpinLock(l) ==
    /\ MayCall("spin_lock")
    /\ l \notin cpu.held
    /\ Enter("spin_lock", "check", l, FALSE)
    /\ UNCHANGED <<thread_list, state, priority, sleep_time, current, ctx,
                   lock, preempt_count>>

CallSpinUnlock(l) ==
    /\ MayCall("spin_unlock")
    /\ l \in cpu.held
    /\ cpu' = [cpu EXCEPT !.op = "spin_unlock", !.step = "unlock", !.arg = l,
                          !.held = @ \ {l}]
    /\ UNCHANGED <<thread_list, state, priority, sleep_time, current, ctx,
                   lock, preempt_count>>

CallYield ==
    /\ MayCall("yield")
    /\ Enter("yield", "yield", NoThread, FALSE)
    /\ UNCHANGED <<thread_list, state, priority, sleep_time, current, ctx,
                   lock, preempt_count>>

\* sched_msleep: time 0 only yields.
CallMsleep(time) ==
    /\ MayCall("msleep")
    /\ Enter("msleep", IF time = 0 THEN "yield" ELSE "sleep", time, FALSE)
    /\ UNCHANGED <<thread_list, state, priority, sleep_time, current, ctx,
                   lock, preempt_count>>

SleepTicks(time) == (time * TickHz) \div 1000 + 1

\* sched_preempt_disable up to the state change: interrupts are off.
MsleepBlock ==
    /\ cpu.step = "sleep"
    /\ sleep_time' = [sleep_time EXCEPT ![current] = SleepTicks(cpu.arg)]
    /\ state' = [state EXCEPT ![current] = "BLOCK"]
    /\ PreemptDisable
    /\ cpu' = [cpu EXCEPT !.step = "wake", !.mie = FALSE]
    /\ UNCHANGED <<thread_list, priority, current, ctx, lock>>

\* sched_preempt_enable; the ecall follows.
MsleepEnable ==
    /\ cpu.step = "wake"
    /\ preempt_count' = preempt_count - 1
    /\ cpu' = EnableAt(preempt_count', [cpu EXCEPT !.step = "yield"])
    /\ UNCHANGED <<thread_list, state, priority, sleep_time, current, ctx, lock>>

\* thread_set_priority: rejects p <= 0, else stores it and yields.
CallSetPriority(t, p) ==
    /\ MayCall("set_priority")
    /\ t \in Elements(thread_list) \/ state[t] = "DEAD"
    /\ p > 0
    /\ priority' = [priority EXCEPT ![t] = p]
    /\ Enter("set_priority", "yield", NoThread, FALSE)
    /\ UNCHANGED <<thread_list, state, sleep_time, current, ctx, lock,
                   preempt_count>>

\* thread_create up to spin_lock.  When malloc fails nothing has changed.
CallCreate(t) ==
    /\ MayCall("create")
    /\ state[t] = "FREE"
    /\ state' = [state EXCEPT ![t] = "RUNNABLE"]
    /\ priority' = [priority EXCEPT ![t] = 1]
    /\ sleep_time' = [sleep_time EXCEPT ![t] = 0]
    /\ ctx' = [ctx EXCEPT ![t] = FreshContext]
    /\ Enter("create", "check", t, FALSE)
    /\ UNCHANGED <<thread_list, current, lock, preempt_count>>

CreateBody ==
    /\ cpu.step = "crit" /\ cpu.op = "create"
    /\ thread_list' = Append(thread_list, cpu.arg)
    /\ cpu' = [cpu EXCEPT !.step = "unlock"]
    /\ UNCHANGED <<state, priority, sleep_time, current, ctx, lock, preempt_count>>

\* thread_destroy of a dead thread by its one owner; the assertion on
\* t->state holds or the program stops.
CallDestroy(t) ==
    /\ MayCall("destroy")
    /\ state[t] = "DEAD" /\ t # current
    /\ \A u \in AllThreads \ {current} :
          state[u] \in {"RUNNABLE", "BLOCK"} /\ ctx[u].op = "destroy" => ctx[u].arg # t
    /\ Enter("destroy", "check", t, FALSE)
    /\ UNCHANGED <<thread_list, state, priority, sleep_time, current, ctx,
                   lock, preempt_count>>

DestroyBody ==
    /\ cpu.step = "crit" /\ cpu.op = "destroy"
    /\ state' = [state EXCEPT ![cpu.arg] = "FREE"]
    /\ cpu' = [cpu EXCEPT !.step = "unlock"]
    /\ UNCHANGED <<thread_list, priority, sleep_time, current, ctx, lock,
                   preempt_count>>

\* The routine returns into thread_end_point.
CallExit ==
    /\ MayCall("exit")
    /\ Enter("exit", "check", NoThread, TRUE)
    /\ UNCHANGED <<thread_list, state, priority, sleep_time, current, ctx,
                   lock, preempt_count>>

ExitBody ==
    /\ cpu.step = "crit" /\ cpu.op = "exit"
    /\ state' = [state EXCEPT ![current] = "DEAD"]
    /\ cpu' = [cpu EXCEPT !.step = "unlock"]
    /\ UNCHANGED <<thread_list, priority, sleep_time, current, ctx, lock,
                   preempt_count>>

\* sched_start: with threads to run, create the idle thread and make it
\* current.  The main context continues at its sched_yield.
SchedStart ==
    /\ current = NoThread
    /\ cpu.step = "user" /\ cpu.held = {}
    /\ thread_list # <<>>
    /\ thread_list' = Append(thread_list, Idle)
    /\ state' = [state EXCEPT ![Idle] = "RUNNABLE"]
    /\ priority' = [priority EXCEPT ![Idle] = 0]
    /\ ctx' = [ctx EXCEPT ![Idle] = IdleContext]
    /\ current' = Idle
    /\ \/ Enter("start", "yield", NoThread, FALSE)
       \/ \* no timer: thread_destroy's assertion fails on the idle thread
          /\ "notimer" \in StartFailures
          /\ cpu' = [cpu EXCEPT !.op = "start", !.step = "halt", !.mie = FALSE]
    /\ UNCHANGED <<sleep_time, lock, preempt_count>>

\* No memory for the idle thread: assert(false).
SchedStartNoMemory ==
    /\ current = NoThread
    /\ cpu.step = "user" /\ cpu.held = {}
    /\ thread_list # <<>>
    /\ "nomem" \in StartFailures
    /\ cpu' = [cpu EXCEPT !.op = "start", !.step = "halt", !.mie = FALSE]
    /\ UNCHANGED <<thread_list, state, priority, sleep_time, current, ctx,
                   lock, preempt_count>>

\* A failed assertion loops for ever.
Halted ==
    /\ cpu.step = "halt"
    /\ UNCHANGED coreVars

-----------------------------------------------------------------------------
CoreInit ==
    /\ thread_list = <<>>
    /\ state = [t \in AllThreads |-> "FREE"]
    /\ priority = [t \in AllThreads |-> 0]
    /\ sleep_time = [t \in AllThreads |-> 0]
    /\ current = NoThread
    /\ ctx = [t \in AllThreads |-> FreshContext]
    /\ cpu = FreshContext
    /\ lock = [l \in Locks |-> 0]
    /\ preempt_count = 0

\* What the code in the running context does next, traps aside.
CoreStep ==
    \/ Yield
    \/ SpinCheck \/ SpinTry \/ SpinUnlock
    \/ \E l \in AppLocks : CallSpinLock(l) \/ CallSpinUnlock(l)
    \/ CallYield
    \/ \E time \in SleepTimes : CallMsleep(time)
    \/ MsleepBlock \/ MsleepEnable
    \/ \E t \in Threads, p \in Priorities : CallSetPriority(t, p)
    \/ \E t \in Threads : CallCreate(t) \/ CallDestroy(t)
    \/ CreateBody \/ DestroyBody
    \/ CallExit \/ ExitBody
    \/ SchedStart \/ SchedStartNoMemory \/ Halted
=============================================================================
