--------------------------- MODULE ThreadingProofs ---------------------------
(***************************************************************************)
(* Proof that the scheduler, the spinlocks and the semaphores implement    *)
(* module Threading: each step of Semaphore is, under its refinement       *)
(* mapping, one step of one abstract thread or none.                       *)
(***************************************************************************)
EXTENDS WaitProofs

\* The abstract state, and what a step may do to it.
absState == <<absLife, absCall, absOwner, count>>
AbsStep == Abstract!Next \/ UNCHANGED absState

\* What the mapping shows of a context.
View(c) == [op |-> c.op, arg |-> c.arg, done |-> HasTakenEffect(c)]

\* The same threads are live, and the same are dead.
SameLive == \A t \in Threads : Live(t) <=> Live(t)'
SameLife == SameLive /\ \A t \in Threads : state[t] = "DEAD" <=> state'[t] = "DEAD"

LEMMA MappedCall ==
    ASSUME NEW t \in Threads
    PROVE  absCall[t] = IF Live(t) THEN View(ContextOf(t))
                        ELSE [op |-> "user", arg |-> NoThread, done |-> FALSE]
BY DEF absCall, View

LEMMA MappedCallNext ==
    ASSUME NEW t \in Threads
    PROVE  absCall'[t] = IF Live(t)' THEN View(ContextOf(t)')
                         ELSE [op |-> "user", arg |-> NoThread, done |-> FALSE]
BY DEF absCall, View, HasTakenEffect

\* Saved contexts are inside no spinlock: the only owner there can be runs.
LEMMA OwnerRuns ==
    ASSUME SchedInv, NEW l \in AppLocks
    PROVE  absOwner[l] = IF current \in Threads /\ Live(current) /\ l \in Holds(cpu)
                           THEN current ELSE NoThread
<1> DEFINE inside == {t \in Threads : Live(t) /\ l \in Holds(ContextOf(t))}
<1>1. absOwner[l] = IF inside = {} THEN NoThread ELSE CHOOSE t \in inside : TRUE
  BY DEF absOwner
<1>2. \A t \in Threads : ~OnCpu(t) => Holds(ContextOf(t)) = {}
  BY DEF SchedInv, Parked, AllThreads, ContextOf
<1>3. current \in Threads => OnCpu(current)
  BY ThreadsApart DEF OnCpu, SchedInv, IdleInv
<1>4. \A t \in Threads : OnCpu(t) => t = current /\ ContextOf(t) = cpu
  BY DEF OnCpu, ContextOf
<1>5. inside = IF current \in Threads /\ Live(current) /\ l \in Holds(cpu) THEN {current} ELSE {}
  BY <1>2, <1>3, <1>4
<1> HIDE DEF inside
<1> QED
  BY <1>1, <1>5

LEMMA OwnerRunsNext ==
    ASSUME SchedInv', NEW l \in AppLocks
    PROVE  absOwner'[l] = IF current' \in Threads /\ Live(current)' /\ l \in Holds(cpu)'
                            THEN current' ELSE NoThread
<1> DEFINE inside == {t \in Threads : Live(t)' /\ l \in Holds(ContextOf(t))'}
<1>1. absOwner'[l] = IF inside = {} THEN NoThread ELSE CHOOSE t \in inside : TRUE
  BY DEF absOwner
<1>2. \A t \in Threads : ~OnCpu(t)' => Holds(ContextOf(t))' = {}
  BY DEF SchedInv, Parked, AllThreads, ContextOf, Holds
<1>3. current' \in Threads => current' # NoThread /\ current' # Idle
  BY ThreadsApart
<1>4. \A t \in Threads : OnCpu(t)' <=> t = current'
  BY <1>3 DEF OnCpu, SchedInv, IdleInv
<1>5. \A t \in Threads : t = current' => Holds(ContextOf(t))' = Holds(cpu)' /\ (Live(t)' <=> Live(current)')
  BY <1>4 DEF ContextOf, Holds, Live
<1>6. inside = IF current' \in Threads /\ Live(current)' /\ l \in Holds(cpu)' THEN {current'} ELSE {}
  BY <1>2, <1>4, <1>5
<1> HIDE DEF inside
<1> QED
  BY <1>1, <1>6

\* A step of the running code moves at most the thread that runs.
LEMMA StepOfCurrent ==
    ASSUME SchedInv, SchedInv', UNCHANGED <<current, ctx>>, SameLive
    PROVE  /\ SameLife => absLife' = absLife
           /\ \A t \in Threads : t # current \/ ~Live(t) => absCall'[t] = absCall[t]
           /\ current \in Threads /\ Live(current) =>
                 /\ absLife[current] = "live"
                 /\ absCall[current] = View(cpu) /\ absCall'[current] = View(cpu')
                 /\ absCall' = [absCall EXCEPT ![current] = View(cpu')]
<1>1. SameLife => absLife' = absLife
  BY DEF absLife, SameLife, SameLive, Live
<1>2. \A t \in Threads : (OnCpu(t) <=> t = current) /\ (OnCpu(t)' <=> t = current)
  BY ThreadsApart DEF OnCpu, SchedInv, IdleInv
<1>3. \A t \in Threads : IF t = current THEN ContextOf(t) = cpu /\ ContextOf(t)' = cpu'
                         ELSE ContextOf(t)' = ContextOf(t)
  BY <1>2 DEF ContextOf
<1>4. ASSUME NEW t \in Threads, t # current \/ ~Live(t)
      PROVE  absCall'[t] = absCall[t]
  BY <1>3, <1>4, MappedCall, MappedCallNext DEF SameLive
<1>5. ASSUME current \in Threads, Live(current)
      PROVE  /\ absLife[current] = "live"
             /\ absCall[current] = View(cpu) /\ absCall'[current] = View(cpu')
  BY <1>3, <1>5, MappedCall, MappedCallNext DEF SameLive, absLife
<1>6. /\ absCall = [t \in Threads |-> absCall[t]] /\ absCall' = [t \in Threads |-> absCall'[t]]
  BY DEF absCall
<1>7. ASSUME current \in Threads, Live(current)
      PROVE  absCall' = [absCall EXCEPT ![current] = View(cpu')]
  BY <1>4, <1>5, <1>6, <1>7
<1> QED
  BY <1>1, <1>4, <1>5, <1>7

\* The client locks the running code is inside of stay the same.
SameHeld == \A l \in AppLocks : l \in Holds(cpu) <=> l \in Holds(cpu')

LEMMA OwnersKept ==
    ASSUME SchedInv, SchedInv', UNCHANGED current, SameLive,
           current \in Threads /\ Live(current) => SameHeld
    PROVE  absOwner' = absOwner
<1>1. \A l \in AppLocks : absOwner'[l] = absOwner[l]
  BY OwnerRuns, OwnerRunsNext DEF SameHeld, SameLive, Holds
<1>2. absOwner = [l \in AppLocks |-> absOwner[l]] /\ absOwner' = [l \in AppLocks |-> absOwner'[l]]
  BY DEF absOwner
<1> QED
  BY <1>1, <1>2

\* A step inside a call, before or after its effect, is none of the client's.
LEMMA InsideCall ==
    ASSUME SchedInv, SchedInv', UNCHANGED <<current, ctx, count>>, SameLife,
           current \in Threads /\ Live(current) => View(cpu') = View(cpu) /\ SameHeld
    PROVE  UNCHANGED absState
<1>1. absLife' = absLife /\ absOwner' = absOwner
  BY StepOfCurrent, OwnersKept DEF SameLife
<1>2. \A t \in Threads : absCall'[t] = absCall[t]
  BY StepOfCurrent DEF SameLife
<1>3. absCall = [t \in Threads |-> absCall[t]] /\ absCall' = [t \in Threads |-> absCall'[t]]
  BY DEF absCall
<1> QED
  BY <1>1, <1>2, <1>3 DEF absState

\* A thread in its own code begins a call.
LEMMA CallBegins ==
    ASSUME SchedInv, WakeInv, SchedInv', UNCHANGED <<current, ctx, count>>, SameLife,
           cpu.step = "user", cpu'.op # "user", ~HasTakenEffect(cpu'), SameHeld
    PROVE  AbsStep
<1>1. CASE current \in Threads /\ Live(current)
  <2>1. /\ absLife[current] = "live" /\ absCall[current] = View(cpu) /\ absCall'[current] = View(cpu')
        /\ absCall' = [absCall EXCEPT ![current] = View(cpu')] /\ absLife' = absLife
        /\ absOwner' = absOwner
    BY <1>1, StepOfCurrent, OwnersKept DEF SameLife
  <2>2. View(cpu) = [op |-> "user", arg |-> NoThread, done |-> FALSE]
    BY DEF View, HasTakenEffect, SchedInv, Coherent
  <2>3. View(cpu').op # "user" /\ ~View(cpu').done
    BY DEF View
  <2>4. Abstract!Begin(current)
    BY <1>1, <2>1, <2>2, <2>3 DEF Abstract!Begin, Abstract!InRoutine
  <2> QED
    BY <1>1, <2>4 DEF AbsStep, Abstract!Next
<1>2. CASE ~(current \in Threads /\ Live(current))
  BY <1>2, InsideCall DEF AbsStep
<1> QED
  BY <1>1, <1>2

\* What LockOf names: semaphores and thread_lock are no client locks.
LEMMA KernelLocks ==
    ASSUME SchedInv
    PROVE  /\ cpu.op \in {"sem_wait", "sem_post", "create", "destroy", "exit"} => LockOf(cpu) \notin AppLocks
           /\ cpu.op \in {"spin_lock", "spin_unlock"} => LockOf(cpu) = cpu.arg /\ cpu.arg \in AppLocks \ cpu.held
BY ConstantsAssumption DEF LockOf, SchedInv, Coherent

\* Every call but thread_create begins with a step of the caller alone.
LEMMA CallsBegin ==
    ASSUME SchedInv, WakeInv, SchedInv', UNCHANGED semVars,
           \/ \E l \in AppLocks : CallSpinLock(l) \/ CallSpinUnlock(l)
           \/ CallYield \/ CallExit
           \/ \E time \in SleepTimes : CallMsleep(time)
           \/ \E t \in Threads, p \in Priorities : CallSetPriority(t, p)
           \/ \E t \in Threads : CallDestroy(t)
           \/ \E s \in Sems : CallSemWait(s) \/ CallSemPost(s)
    PROVE  AbsStep
<1>1. cpu \in Context /\ cpu.held \subseteq AppLocks
  BY DEF SchedInv, TypeOK, Context
<1> DEFINE Entered(op, step, arg, yields) ==
             Enter(op, step, arg, yields) /\ (op = "sem_post" => step = "check")
           Unlocking(l) == cpu' = [cpu EXCEPT !.op = "spin_unlock", !.step = "unlock", !.arg = l,
                                              !.held = @ \ {l}]
           Moves == \/ \E op \in AllCalls, step \in {"check", "yield", "sleep"} :
                          \E arg, yields : Entered(op, step, arg, yields)
                    \/ \E l \in cpu.held : Unlocking(l)
<1>2. ASSUME NEW op \in AllCalls, NEW step \in {"check", "yield", "sleep"}, NEW arg, NEW yields,
             Entered(op, step, arg, yields)
      PROVE  Moves
  BY <1>2, Zenon
<1>3. ASSUME NEW l \in cpu.held, Unlocking(l) PROVE Moves
  BY <1>3, Zenon
<1> HIDE DEF Moves
<1>4. Moves
  <2> USE DEF MayCall
  <2>1. ASSUME NEW l \in AppLocks, CallSpinLock(l) PROVE Moves
    <3>1. Entered("spin_lock", "check", l, FALSE) /\ "spin_lock" \in AllCalls
      BY <2>1 DEF CallSpinLock, AllCalls
    <3> QED
      BY <3>1, <1>2
  <2>2. ASSUME NEW l \in AppLocks, CallSpinUnlock(l) PROVE Moves
    BY <2>2, <1>3 DEF CallSpinUnlock
  <2>3. ASSUME CallYield PROVE Moves
    <3>1. Entered("yield", "yield", NoThread, FALSE) /\ "yield" \in AllCalls
      BY <2>3 DEF CallYield, AllCalls, YieldingCalls
    <3> QED
      BY <3>1, <1>2
  <2>4. ASSUME CallExit PROVE Moves
    <3>1. Entered("exit", "check", NoThread, TRUE) /\ "exit" \in AllCalls
      BY <2>4 DEF CallExit, AllCalls, YieldingCalls
    <3> QED
      BY <3>1, <1>2
  <2>5. ASSUME NEW time \in SleepTimes, CallMsleep(time) PROVE Moves
    <3>1. Enter("msleep", IF time = 0 THEN "yield" ELSE "sleep", time, FALSE) /\ "msleep" \in AllCalls
      BY <2>5 DEF CallMsleep, AllCalls, YieldingCalls
    <3>2. PICK step \in {"yield", "sleep"} : Enter("msleep", step, time, FALSE)
      <4>1. CASE time = 0
        BY <3>1, <4>1
      <4>2. CASE time # 0
        BY <3>1, <4>2
      <4> QED
        BY <4>1, <4>2
    <3> QED
      BY <3>1, <3>2, <1>2
  <2>6. ASSUME NEW t \in Threads, NEW p \in Priorities, CallSetPriority(t, p) PROVE Moves
    <3>1. Entered("set_priority", "yield", NoThread, FALSE) /\ "set_priority" \in AllCalls
      BY <2>6 DEF CallSetPriority, AllCalls, YieldingCalls
    <3> QED
      BY <3>1, <1>2
  <2>7. ASSUME NEW t \in Threads, CallDestroy(t) PROVE Moves
    <3>1. Entered("destroy", "check", t, FALSE) /\ "destroy" \in AllCalls
      BY <2>7 DEF CallDestroy, AllCalls
    <3> QED
      BY <3>1, <1>2
  <2>8. ASSUME NEW s \in Sems, CallSemWait(s) PROVE Moves
    <3>1. Entered("sem_wait", "check", s, TRUE) /\ "sem_wait" \in AllCalls
      BY <2>8 DEF CallSemWait, AllCalls, YieldingCalls
    <3> QED
      BY <3>1, <1>2
  <2>9. ASSUME NEW s \in Sems, CallSemPost(s) PROVE Moves
    <3>1. Entered("sem_post", "check", s, TRUE) /\ "sem_post" \in AllCalls
      BY <2>9 DEF CallSemPost, AllCalls, YieldingCalls
    <3> QED
      BY <3>1, <1>2
  <2> QED
    BY <2>1, <2>2, <2>3, <2>4, <2>5, <2>6, <2>7, <2>8, <2>9
<1>5. /\ UNCHANGED <<current, ctx, state, count>> /\ cpu.step = "user"
      /\ \/ \E op \in AllCalls, step \in {"check", "yield", "sleep"} :
               \E arg, yields : Enter(op, step, arg, yields) /\ (op = "sem_post" => step = "check")
         \/ \E l \in cpu.held : cpu' = [cpu EXCEPT !.op = "spin_unlock", !.step = "unlock", !.arg = l,
                                                   !.held = @ \ {l}]
  <2>1. UNCHANGED <<current, ctx, state, count>> /\ cpu.step = "user"
    BY Zenon DEF CallSpinLock, CallSpinUnlock, CallYield, CallExit, CallMsleep, CallSetPriority,
       CallDestroy, CallSemWait, CallSemPost, MayCall, semVars
  <2> QED
    BY <2>1, <1>4 DEF Moves
<1>6. cpu'.op # "user" /\ ~HasTakenEffect(cpu') /\ SameHeld
  <2>1. ASSUME NEW op \in AllCalls, NEW step \in {"check", "yield", "sleep"}, NEW arg, NEW yields,
               Enter(op, step, arg, yields), op = "sem_post" => step = "check"
        PROVE  cpu'.op # "user" /\ ~HasTakenEffect(cpu') /\ SameHeld
    <3>1. cpu'.op = op /\ cpu'.step = step /\ cpu'.held = cpu.held
      BY <1>1, <2>1 DEF Enter, Context
    <3> QED
      BY <1>5, <2>1, <3>1 DEF HasTakenEffect, SameHeld, Holds, AllCalls, YieldingCalls
  <2>2. ASSUME NEW l \in cpu.held,
               cpu' = [cpu EXCEPT !.op = "spin_unlock", !.step = "unlock", !.arg = l, !.held = @ \ {l}]
        PROVE  cpu'.op # "user" /\ ~HasTakenEffect(cpu') /\ SameHeld
    <3>1. cpu'.op = "spin_unlock" /\ cpu'.step = "unlock" /\ cpu'.held = cpu.held \ {l} /\ cpu'.arg = l
      BY <1>1, <2>2 DEF Context
    <3> QED
      BY <1>5, <2>2, <3>1 DEF HasTakenEffect, SameHeld, Holds, LockOf
  <2> QED
    BY <1>5, <2>1, <2>2
<1>7. SameLife
  BY <1>5 DEF SameLife, SameLive, Live
<1> QED
  BY <1>5, <1>6, <1>7, CallBegins

\* Who runs a call that is neither the idle loop nor sched_start.
LEMMA TheCaller ==
    ASSUME SchedInv, WakeInv, cpu.op \notin {"idle", "start"}
    PROVE  /\ current = NoThread \/ current \in Threads
           /\ cpu.op \notin {"user", "create", "set_priority"} => current \in Threads
           /\ current \in Threads /\ cpu.step \notin {"wake", "unlock", "yield"} =>
                 state[current] = "RUNNING" /\ Live(current)
<1>1. current = NoThread \/ current \in Threads
  BY DEF SchedInv, IdleInv, TypeOK, AllThreads
<1>2. cpu.op \notin {"user", "create", "set_priority"} => current \in Threads
  BY <1>1 DEF SchedInv, IdleInv
<1>3. current \in Threads /\ cpu.step \notin {"wake", "unlock", "yield"} => state[current] = "RUNNING"
  BY CurrentFacts, ThreadsApart
<1> QED
  BY <1>1, <1>2, <1>3 DEF Live

\* The running thread enters or leaves one client lock.
LEMMA OwnerMoves ==
    ASSUME SchedInv, SchedInv', UNCHANGED current, SameLive, current \in Threads, Live(current),
           NEW l \in AppLocks,
           \A k \in AppLocks \ {l} : k \in Holds(cpu) <=> k \in Holds(cpu')
    PROVE  absOwner' = [absOwner EXCEPT ![l] = IF l \in Holds(cpu') THEN current ELSE NoThread]
<1>1. absOwner = [k \in AppLocks |-> absOwner[k]] /\ absOwner' = [k \in AppLocks |-> absOwner'[k]]
  BY DEF absOwner
<1>2. current' \in Threads /\ Live(current)'
  BY DEF SameLive
<1>3. \A k \in AppLocks \ {l} : absOwner'[k] = absOwner[k]
  BY <1>2, OwnerRuns, OwnerRunsNext DEF Holds
<1>4. absOwner'[l] = IF l \in Holds(cpu') THEN current ELSE NoThread
  BY <1>2, OwnerRunsNext DEF Holds
<1> QED
  BY <1>1, <1>3, <1>4

\* spin_lock: the client's is an atomic step, the kernel's own are no steps.
LEMMA SpinAbs ==
    ASSUME SchedInv, WakeInv, SchedInv', UNCHANGED semVars, SpinCheck \/ SpinTry
    PROVE  AbsStep
<1>0. ASSUME SpinTry, lock[LockOf(cpu)] = 0
      PROVE  cpu' = IF cpu.op = "spin_lock"
                      THEN [ToUser([cpu EXCEPT !.mie = FALSE]) EXCEPT !.held = @ \cup {LockOf(cpu)}]
                      ELSE [[cpu EXCEPT !.mie = FALSE] EXCEPT !.step = "crit"]
  <2>1. lock[LockOf(cpu)] # 1
    BY <1>0
  <2> QED
    BY <1>0, <2>1, Zenon DEF SpinTry
<1>1. /\ cpu \in Context /\ Coherent(cpu) /\ cpu.step \in {"check", "try"}
      /\ UNCHANGED <<current, ctx, state, count>> /\ LockOf(cpu) \in Locks \ cpu.held
  BY Zenon, HoldsFacts DEF SpinCheck, SpinTry, semVars
<1>2. SameLife
  BY <1>1 DEF SameLife, SameLive, Live
<1>3. cpu.op \notin {"idle", "start", "user", "set_priority"}
  BY <1>1 DEF Coherent
<1>4. CASE SpinTry /\ cpu.op = "spin_lock" /\ lock[LockOf(cpu)] = 0
  <2>1. PICK l \in AppLocks : l = cpu.arg /\ l = LockOf(cpu) /\ l \notin cpu.held
    BY <1>4, KernelLocks
  <2>2. cpu' = [ToUser([cpu EXCEPT !.mie = FALSE]) EXCEPT !.held = @ \cup {l}]
    BY <1>4, <1>0, <2>1
  <2>3. /\ cpu'.op = "user" /\ cpu'.step = "user" /\ cpu'.arg = NoThread
        /\ cpu'.held = cpu.held \cup {l}
    BY <1>1, <2>2 DEF ToUser, Context
  <2>4. current \in Threads /\ Live(current)
    BY <1>1, <1>3, <1>4, TheCaller
  <2>5. Holds(cpu) = cpu.held /\ Holds(cpu') = cpu.held \cup {l}
    BY <1>1, <2>3 DEF Holds
  <2>6. absOwner' = [absOwner EXCEPT ![l] = current] /\ absOwner[l] = NoThread
    BY <1>1, <1>2, <2>1, <2>4, <2>5, OwnerMoves, OwnerRuns DEF SameLife
  <2>7. /\ absLife[current] = "live" /\ absLife' = absLife
        /\ absCall[current] = View(cpu) /\ absCall' = [absCall EXCEPT ![current] = View(cpu')]
    BY <1>1, <1>2, <2>4, StepOfCurrent DEF SameLife
  <2>8. /\ View(cpu).op = "spin_lock" /\ View(cpu).arg = l
        /\ View(cpu') = Abstract!InRoutine
    BY <1>4, <2>1, <2>3 DEF View, HasTakenEffect, Abstract!InRoutine
  <2>9. Abstract!SpinLock(current)
    BY <1>1, <2>6, <2>7, <2>8 DEF Abstract!SpinLock, Abstract!Return
  <2> QED
    BY <2>4, <2>9 DEF AbsStep, Abstract!Next
<1>5. CASE ~(SpinTry /\ cpu.op = "spin_lock" /\ lock[LockOf(cpu)] = 0)
  <2>1. /\ cpu'.op = cpu.op /\ cpu'.arg = cpu.arg /\ cpu'.yields = cpu.yields /\ cpu'.held = cpu.held
        /\ cpu'.step \in {"check", "try", "crit"} /\ (cpu'.step = "crit" => cpu.op # "spin_lock")
    <3>1. CASE SpinCheck
      BY <1>1, <3>1 DEF SpinCheck, Context
    <3>2. CASE SpinTry /\ lock[LockOf(cpu)] = 0 /\ cpu.op # "spin_lock"
      <4>1. cpu' = [[cpu EXCEPT !.mie = FALSE] EXCEPT !.step = "crit"]
        BY <3>2, <1>0
      <4> QED
        BY <1>1, <3>2, <4>1 DEF Context
    <3>3. CASE SpinTry /\ lock[LockOf(cpu)] # 0
      <4>1. cpu' = EnableAt(preempt_count, [[cpu EXCEPT !.mie = FALSE] EXCEPT !.step = "check"])
        BY <3>3, Zenon DEF SpinTry
      <4> QED
        BY <1>1, <4>1 DEF Context, EnableAt
    <3> QED
      BY <1>5, <3>1, <3>2, <3>3
  <2>2. View(cpu') = View(cpu)
    BY <1>1, <2>1 DEF View, HasTakenEffect
  <2>3. SameHeld
    BY <1>1, <1>3, <2>1, KernelLocks DEF SameHeld, Holds, LockOf, Coherent
  <2> QED
    BY <1>1, <1>2, <2>2, <2>3, InsideCall DEF AbsStep
<1> QED
  BY <1>4, <1>5

\* A call whose effect was the step itself, or that has none, returns.
LEMMA CallReturns ==
    ASSUME SchedInv, SchedInv', UNCHANGED <<current, ctx, count>>, SameLife, SameHeld,
           current \in Threads, Live(current), View(cpu') = Abstract!InRoutine,
           \/ cpu.op \in {"sem_wait", "sem_post"} /\ HasTakenEffect(cpu)
           \/ cpu.op \in {"yield", "msleep", "set_priority", "create", "destroy"}
    PROVE  AbsStep
<1>1. /\ absLife[current] = "live" /\ absLife' = absLife /\ absOwner' = absOwner
      /\ absCall[current] = View(cpu) /\ absCall' = [absCall EXCEPT ![current] = Abstract!InRoutine]
  BY StepOfCurrent, OwnersKept DEF SameLife
<1>2. View(cpu).op = cpu.op /\ View(cpu).done = HasTakenEffect(cpu)
  BY DEF View
<1>3. Abstract!SemReturn(current) \/ Abstract!SchedulingReturn(current)
  BY <1>1, <1>2 DEF Abstract!SemReturn, Abstract!SchedulingReturn, Abstract!Return
<1> QED
  BY <1>3 DEF AbsStep, Abstract!Next

\* spin_unlock: the client's is an atomic step; behind a kernel lock the call
\* returns or goes on to sched_yield.
LEMMA UnlockAbs ==
    ASSUME SchedInv, WakeInv, SchedInv', UNCHANGED semVars, SpinUnlock
    PROVE  AbsStep
<1>1. /\ cpu \in Context /\ Coherent(cpu) /\ cpu.step = "unlock"
      /\ UNCHANGED <<current, ctx, state, count>>
  BY Zenon, HoldsFacts DEF SpinUnlock, semVars
<1>2. SameLife
  BY <1>1 DEF SameLife, SameLive, Live
<1>3. cpu.op \notin {"idle", "start", "user", "set_priority"}
  BY <1>1 DEF Coherent
<1>4. /\ cpu'.held = cpu.held
      /\ cpu.yields => /\ cpu'.op = cpu.op /\ cpu'.arg = cpu.arg /\ cpu'.yields = cpu.yields
                       /\ cpu'.step = "yield"
      /\ ~cpu.yields => cpu'.op = "user" /\ cpu'.step = "user" /\ cpu'.arg = NoThread
  BY <1>1 DEF SpinUnlock, EnableAt, ToUser, Context
<1>5. Holds(cpu) = cpu.held \cup {LockOf(cpu)} /\ Holds(cpu') = cpu.held
  BY <1>1, <1>4 DEF Holds
<1>6. ~cpu.yields => View(cpu') = Abstract!InRoutine
  BY <1>4 DEF View, HasTakenEffect, Abstract!InRoutine
<1>7. CASE ~(current \in Threads /\ Live(current))
  BY <1>1, <1>2, <1>7, InsideCall DEF AbsStep
<1>8. CASE current \in Threads /\ Live(current) /\ cpu.op = "spin_unlock"
  <2>1. PICK l \in AppLocks : l = cpu.arg /\ l = LockOf(cpu) /\ l \notin cpu.held /\ ~cpu.yields
    BY <1>1, <1>8, KernelLocks DEF Coherent
  <2>2. absOwner' = [absOwner EXCEPT ![l] = NoThread] /\ absOwner[l] = current
    BY <1>1, <1>2, <1>5, <1>8, <2>1, OwnerMoves, OwnerRuns DEF SameLife
  <2>3. /\ absLife[current] = "live" /\ absLife' = absLife
        /\ absCall[current] = View(cpu) /\ absCall' = [absCall EXCEPT ![current] = Abstract!InRoutine]
    BY <1>1, <1>2, <1>6, <1>8, <2>1, StepOfCurrent DEF SameLife
  <2>4. View(cpu).op = "spin_unlock" /\ View(cpu).arg = l
    BY <1>8, <2>1 DEF View
  <2>5. Abstract!SpinUnlock(current)
    BY <1>1, <2>2, <2>3, <2>4 DEF Abstract!SpinUnlock, Abstract!Return
  <2> QED
    BY <1>8, <2>5 DEF AbsStep, Abstract!Next
<1>9. CASE current \in Threads /\ Live(current) /\ cpu.op # "spin_unlock"
  <2>1. SameHeld
    BY <1>1, <1>3, <1>5, <1>9, KernelLocks DEF SameHeld, Coherent
  <2>2. CASE cpu.yields
    <3>1. View(cpu') = View(cpu)
      BY <1>1, <1>4, <2>2 DEF View, HasTakenEffect
    <3> QED
      BY <1>1, <1>2, <2>1, <3>1, InsideCall DEF AbsStep
  <2>3. CASE ~cpu.yields
    <3>1. cpu.op \in {"sem_wait", "create", "destroy"} /\ (cpu.op = "sem_wait" => HasTakenEffect(cpu))
      BY <1>1, <1>3, <1>9, <2>3 DEF Coherent, HasTakenEffect
    <3> QED
      BY <1>1, <1>2, <1>6, <1>9, <2>1, <2>3, <3>1, CallReturns
  <2> QED
    BY <2>2, <2>3
<1> QED
  BY <1>7, <1>8, <1>9

\* sched_msleep's critical section and the list_add of thread_create are seen
\* by no client.
LEMMA QuietAbs ==
    ASSUME SchedInv, WakeInv, SchedInv', UNCHANGED semVars, MsleepBlock \/ MsleepEnable \/ CreateBody
    PROVE  AbsStep
<1>1. /\ cpu \in Context /\ Coherent(cpu) /\ cpu.op \in {"msleep", "create"} /\ TypeOK
      /\ UNCHANGED <<current, ctx, count>>
  BY HoldsFacts DEF MsleepBlock, MsleepEnable, CreateBody, semVars, Coherent, SchedInv
<1>2. /\ cpu'.op = cpu.op /\ cpu'.arg = cpu.arg /\ cpu'.held = cpu.held
      /\ \/ cpu.step \in {"sleep", "wake"} /\ cpu'.step \in {"wake", "yield"}
         \/ cpu.step = "crit" /\ cpu'.step = "unlock"
  BY <1>1 DEF MsleepBlock, MsleepEnable, CreateBody, EnableAt, Context
<1>3. View(cpu') = View(cpu) /\ SameHeld
  BY <1>1, <1>2 DEF View, HasTakenEffect, SameHeld, Holds, LockOf
<1>4. SameLife
  <2>1. CASE MsleepBlock
    <3>1. cpu.step = "sleep" /\ state' = [state EXCEPT ![current] = "BLOCK"] /\ cpu.op = "msleep"
      BY <1>1, <2>1 DEF MsleepBlock, Coherent
    <3>2. current \in Threads /\ state[current] = "RUNNING"
      BY <3>1, TheCaller
    <3> QED
      BY <1>1, <3>1, <3>2, ThreadsApart DEF SameLife, SameLive, Live, TypeOK
  <2>2. CASE MsleepEnable \/ CreateBody
    BY <2>2 DEF MsleepEnable, CreateBody, SameLife, SameLive, Live
  <2> QED
    BY <2>1, <2>2
<1> QED
  BY <1>1, <1>3, <1>4, InsideCall DEF AbsStep

-----------------------------------------------------------------------------
(* The critical sections.                                                  *)

\* thread_destroy frees a dead thread.
LEMMA DestroyAbs ==
    ASSUME SchedInv, WakeInv, SchedInv', UNCHANGED semVars, DestroyBody
    PROVE  AbsStep
<1>1. /\ cpu \in Context /\ cpu.step = "crit" /\ cpu.op = "destroy" /\ TypeOK
      /\ UNCHANGED <<current, ctx, count>>
  BY HoldsFacts DEF DestroyBody, semVars, SchedInv
<1>2. PICK t \in Threads : t = cpu.arg /\ state[t] = "DEAD"
  BY <1>1, HoldsFacts DEF Coherent, WakeInv, OwnerInv, Owns, Owned
<1>3. state' = [state EXCEPT ![t] = "FREE"]
  BY <1>2 DEF DestroyBody
<1>4. /\ cpu'.op = cpu.op /\ cpu'.arg = cpu.arg /\ cpu'.held = cpu.held /\ cpu'.step = "unlock"
  BY <1>1 DEF DestroyBody, Context
<1>5. View(cpu') = View(cpu) /\ SameHeld
  BY <1>1, <1>4 DEF View, HasTakenEffect, SameHeld, Holds, LockOf
<1>6. state'[t] = "FREE" /\ \A u \in Threads \ {t} : state'[u] = state[u]
  BY <1>1, <1>3, ThreadsApart DEF TypeOK
<1>7. SameLive
  BY <1>2, <1>6 DEF SameLive, Live
<1>8. absOwner' = absOwner
  BY <1>1, <1>5, <1>7, OwnersKept
<1>9. absCall' = absCall
  <2>1. \A u \in Threads : absCall'[u] = absCall[u]
    BY <1>1, <1>5, <1>7, StepOfCurrent
  <2>2. absCall = [u \in Threads |-> absCall[u]] /\ absCall' = [u \in Threads |-> absCall'[u]]
    BY DEF absCall
  <2> QED
    BY <2>1, <2>2
<1>10. absLife[t] = "dead" /\ absLife' = [absLife EXCEPT ![t] = "none"]
  BY <1>2, <1>6 DEF absLife, Live
<1>11. Abstract!Reap(t)
  BY <1>1, <1>8, <1>9, <1>10 DEF Abstract!Reap
<1> QED
  BY <1>11 DEF AbsStep, Abstract!Next

\* thread_end_point: the thread dies, inside of no client lock.
LEMMA ExitAbs ==
    ASSUME SchedInv, WakeInv, SchedInv', UNCHANGED semVars, ExitBody
    PROVE  AbsStep
<1>1. /\ cpu \in Context /\ cpu.step = "crit" /\ cpu.op = "exit" /\ TypeOK /\ cpu.held = {}
      /\ UNCHANGED <<current, ctx, count>> /\ state' = [state EXCEPT ![current] = "DEAD"]
  BY HoldsFacts DEF ExitBody, semVars, SchedInv, Coherent, YieldingCalls
<1>2. current \in Threads /\ Live(current) /\ current \in AllThreads
  BY <1>1, TheCaller, ThreadsApart
<1>3. /\ state'[current] = "DEAD"
      /\ \A u \in Threads \ {current} : state'[u] = state[u]
  BY <1>1, <1>2, ThreadsApart DEF TypeOK
<1>4. absLife[current] = "live" /\ absLife' = [absLife EXCEPT ![current] = "dead"]
  BY <1>2, <1>3 DEF absLife, Live
<1>5. \A l \in AppLocks : absOwner[l] = NoThread /\ absOwner'[l] = NoThread
  <2>1. \A l \in AppLocks : l \notin Holds(cpu)
    BY <1>1, KernelLocks DEF Holds
  <2>2. ~Live(current)'
    BY <1>1, <1>3 DEF Live
  <2> QED
    BY <1>1, <2>1, <2>2, OwnerRuns, OwnerRunsNext
<1>6. absOwner' = absOwner
  <2>1. absOwner = [l \in AppLocks |-> absOwner[l]] /\ absOwner' = [l \in AppLocks |-> absOwner'[l]]
    BY DEF absOwner
  <2> QED
    BY <1>5, <2>1
<1>7. \A u \in Threads : OnCpu(u) => u = current
  BY DEF OnCpu
<1>8. \A u \in Threads : OnCpu(u)' => u = current
  BY <1>1 DEF OnCpu
<1>9. \A u \in Threads \ {current} :
         ContextOf(u)' = ContextOf(u) /\ (Live(u)' <=> Live(u))
  BY <1>1, <1>3, <1>7, <1>8 DEF ContextOf, Live
<1>10. absCall' = [absCall EXCEPT ![current] = Abstract!InRoutine] /\ absCall[current].op = "exit"
  <2>1. \A u \in Threads \ {current} : absCall'[u] = absCall[u]
    BY <1>9, MappedCall, MappedCallNext
  <2>2. absCall'[current] = Abstract!InRoutine
    BY <1>2, <1>3, MappedCallNext DEF Live, Abstract!InRoutine
  <2>3. absCall[current].op = "exit"
    <3>1. ContextOf(current) = cpu
      BY <1>1 DEF ContextOf, OnCpu
    <3>2. absCall[current] = View(cpu)
      BY <1>2, <3>1, MappedCall
    <3> QED
      BY <1>1, <3>2 DEF View
  <2>4. absCall = [u \in Threads |-> absCall[u]] /\ absCall' = [u \in Threads |-> absCall'[u]]
    BY DEF absCall
  <2> QED
    BY <1>2, <2>1, <2>2, <2>3, <2>4
<1>11. Abstract!Exit(current)
  BY <1>1, <1>4, <1>6, <1>10 DEF Abstract!Exit, Abstract!Return
<1> QED
  BY <1>2, <1>11 DEF AbsStep, Abstract!Next

\* sem_wait takes its token in one step, or goes to sleep, which no client sees.
LEMMA SemWaitAbs ==
    ASSUME SchedInv, WakeInv, SchedInv', SemWaitBody
    PROVE  AbsStep
<1>1. /\ cpu \in Context /\ TypeOK /\ cpu.step = "crit" /\ cpu.op = "sem_wait"
      /\ current \in Threads /\ current \in AllThreads /\ state[current] = "RUNNING"
      /\ UNCHANGED <<current, ctx>>
  BY InSemWait DEF SemWaitBody
<1>2. PICK s \in Sems : s = cpu.arg
  BY <1>1, InSemWait
<1>3. Live(current) /\ absLife[current] = "live"
  BY <1>1 DEF Live, absLife
<1>4. ASSUME NEW y \in BOOLEAN, cpu' = [cpu EXCEPT !.step = "unlock", !.yields = y]
      PROVE  /\ SameHeld
             /\ cpu'.op = "sem_wait" /\ cpu'.arg = s /\ cpu'.step = "unlock" /\ cpu'.yields = y
  <2>1. /\ cpu'.op = "sem_wait" /\ cpu'.arg = s /\ cpu'.step = "unlock" /\ cpu'.yields = y
        /\ cpu'.held = cpu.held
    BY <1>1, <1>2, <1>4 DEF Context
  <2> QED
    BY <1>1, <1>2, <2>1 DEF SameHeld, Holds, LockOf
<1>5. CASE /\ count[s] > 0 /\ count' = [count EXCEPT ![s] = @ - 1]
           /\ cpu' = [cpu EXCEPT !.step = "unlock", !.yields = FALSE]
           /\ UNCHANGED state
  <2>1. SameLife
    BY <1>5 DEF SameLife, SameLive, Live
  <2>2. SameHeld /\ View(cpu') = [op |-> "sem_wait", arg |-> s, done |-> TRUE]
    BY <1>4, <1>5 DEF View, HasTakenEffect
  <2>3. View(cpu) = [op |-> "sem_wait", arg |-> s, done |-> FALSE]
    BY <1>1, <1>2 DEF View, HasTakenEffect
  <2>4. absCall[current] = View(cpu) /\ absCall' = [absCall EXCEPT ![current] = View(cpu')]
        /\ absLife' = absLife /\ absOwner' = absOwner
    BY <1>1, <1>3, <2>1, <2>2, StepOfCurrent, OwnersKept DEF SameLife
  <2>5. absCall[current].op = "sem_wait" /\ absCall[current].arg = s /\ ~absCall[current].done
    BY <2>3, <2>4
  <2>6. Abstract!SemWait(current)
    BY <1>3, <1>5, <2>2, <2>4, <2>5 DEF Abstract!SemWait, Abstract!TakeEffect
  <2> QED
    BY <1>1, <2>6 DEF AbsStep, Abstract!Next
<1>6. CASE /\ state' = [state EXCEPT ![current] = "BLOCK"]
           /\ cpu' = [cpu EXCEPT !.step = "unlock", !.yields = TRUE]
           /\ UNCHANGED count
  <2>1. SameLife
    BY <1>1, <1>6, ThreadsApart DEF SameLife, SameLive, Live, TypeOK
  <2>2. SameHeld /\ View(cpu') = View(cpu)
    BY <1>1, <1>2, <1>4, <1>6 DEF View, HasTakenEffect
  <2> QED
    BY <1>1, <1>6, <2>1, <2>2, InsideCall DEF AbsStep
<1> QED
  BY <1>2, <1>5, <1>6 DEF SemWaitBody

\* sem_post wakes, it does not bring to life.
LEMMA PostKeepsLife == ASSUME SchedInv, SemPostBody PROVE SameLife
<1>1. cpu.arg \in Sems /\ TypeOK
  BY HoldsFacts DEF SemPostBody, Coherent, SchedInv
<1>2. wait_list[cpu.arg] \in Seq(Threads)
  BY <1>1 DEF TypeOK
<1>3. \/ UNCHANGED state
      \/ \E i \in DOMAIN wait_list[cpu.arg] :
            /\ state[wait_list[cpu.arg][i]] = "BLOCK"
            /\ state' = [state EXCEPT ![wait_list[cpu.arg][i]] = "RUNNABLE"]
  BY DEF SemPostBody, WakeBest, IsBest
<1>4. \/ UNCHANGED state
      \/ \E t \in Threads : state[t] = "BLOCK" /\ state' = [state EXCEPT ![t] = "RUNNABLE"]
  BY <1>2, <1>3
<1> QED
  BY <1>1, <1>4, ThreadsApart DEF SameLife, SameLive, Live, TypeOK

\* sem_post adds its token in one step; whom it wakes no client can tell.
LEMMA SemPostAbs ==
    ASSUME SchedInv, WakeInv, SchedInv', SemPostBody
    PROVE  AbsStep
<1>1. /\ cpu \in Context /\ TypeOK /\ cpu.step = "crit" /\ cpu.op = "sem_post"
      /\ current \in Threads /\ current \in AllThreads /\ state[current] = "RUNNING"
      /\ UNCHANGED <<current, ctx>>
  BY InSemPost DEF SemPostBody
<1>2. PICK s \in Sems : s = cpu.arg
  BY <1>1, InSemPost
<1>3. Live(current) /\ absLife[current] = "live"
  BY <1>1 DEF Live, absLife
<1>4. count' = [count EXCEPT ![s] = @ + 1] /\ cpu' = [cpu EXCEPT !.step = "unlock"]
  BY <1>2 DEF SemPostBody
<1>5. cpu'.op = "sem_post" /\ cpu'.arg = s /\ cpu'.step = "unlock" /\ cpu'.held = cpu.held
  BY <1>1, <1>2, <1>4 DEF Context
<1>6. SameHeld
  BY <1>1, <1>2, <1>5 DEF SameHeld, Holds, LockOf
<1>7. SameLife
  BY PostKeepsLife
<1>8. View(cpu') = [op |-> "sem_post", arg |-> s, done |-> TRUE]
  BY <1>5 DEF View, HasTakenEffect
<1>9. View(cpu) = [op |-> "sem_post", arg |-> s, done |-> FALSE]
  BY <1>1, <1>2 DEF View, HasTakenEffect
<1>10. absCall[current] = View(cpu) /\ absCall' = [absCall EXCEPT ![current] = View(cpu')]
       /\ absLife' = absLife /\ absOwner' = absOwner
  BY <1>1, <1>3, <1>6, <1>7, StepOfCurrent, OwnersKept DEF SameLife
<1>11. absCall[current].op = "sem_post" /\ absCall[current].arg = s /\ ~absCall[current].done
  BY <1>9, <1>10
<1>12. Abstract!SemPost(current)
  BY <1>3, <1>4, <1>8, <1>10, <1>11 DEF Abstract!SemPost, Abstract!TakeEffect
<1> QED
  BY <1>1, <1>12 DEF AbsStep, Abstract!Next

-----------------------------------------------------------------------------
(* Creation, start and traps.                                              *)

\* thread_create up to the lock: the new thread lives, its creator is in the call.
LEMMA CreateAbs ==
    ASSUME SchedInv, WakeInv, SchedInv', UNCHANGED semVars, NEW t \in Threads, CallCreate(t)
    PROVE  AbsStep
<1>1. /\ cpu \in Context /\ Coherent(cpu) /\ cpu.step = "user" /\ TypeOK
      /\ UNCHANGED <<current, count>>
      /\ state[t] = "FREE" /\ state' = [state EXCEPT ![t] = "RUNNABLE"]
      /\ ctx' = [ctx EXCEPT ![t] = FreshContext]
  BY HoldsFacts DEF CallCreate, MayCall, semVars, SchedInv
<1>2. cpu'.op = "create" /\ cpu'.arg = t /\ cpu'.held = cpu.held /\ cpu'.step = "check"
  BY <1>1 DEF CallCreate, Enter, Context
<1>3. cpu.op = "user" /\ cpu.arg = NoThread
  BY <1>1 DEF Coherent
<1>4. current # t
  BY <1>1, <1>3, TheCaller
<1>5. /\ state'[t] = "RUNNABLE" /\ ctx'[t] = FreshContext
      /\ \A u \in Threads \ {t} : state'[u] = state[u] /\ ctx'[u] = ctx[u]
  BY <1>1, ThreadsApart DEF TypeOK
<1>6. /\ ~Live(t) /\ Live(t)'
      /\ \A u \in Threads \ {t} : Live(u)' <=> Live(u)
  BY <1>1, <1>5 DEF Live
<1>7. absLife[t] = "none" /\ absLife' = [absLife EXCEPT ![t] = "live"]
  BY <1>1, <1>5, <1>6 DEF absLife
<1>8. absOwner' = absOwner
  <2>1. \A l \in AppLocks : l \in Holds(cpu) <=> l \in Holds(cpu')
    BY <1>1, <1>2 DEF Holds
  <2>2. current \in Threads => (Live(current)' <=> Live(current))
    BY <1>1, <1>4, <1>6 DEF Live
  <2>3. \A l \in AppLocks : absOwner'[l] = absOwner[l]
    BY <1>1, <2>1, <2>2, OwnerRuns, OwnerRunsNext DEF Holds
  <2>4. absOwner = [l \in AppLocks |-> absOwner[l]] /\ absOwner' = [l \in AppLocks |-> absOwner'[l]]
    BY DEF absOwner
  <2> QED
    BY <2>3, <2>4
<1>9. \A u \in Threads : (OnCpu(u) <=> u = current) /\ (OnCpu(u)' <=> u = current)
  BY <1>1, <1>2, <1>3 DEF OnCpu
<1>10. \A u \in Threads \ {t, current} : absCall'[u] = absCall[u]
  <2>1. \A u \in Threads \ {t, current} : ContextOf(u)' = ContextOf(u)
    BY <1>5, <1>9 DEF ContextOf
  <2> QED
    BY <1>6, <2>1, MappedCall, MappedCallNext
<1>11. absCall'[t] = absCall[t]
  <2>1. ContextOf(t)' = FreshContext
    BY <1>4, <1>5, <1>9 DEF ContextOf
  <2>2. View(FreshContext) = [op |-> "user", arg |-> NoThread, done |-> FALSE]
    BY DEF View, HasTakenEffect, FreshContext
  <2> QED
    BY <1>6, <2>1, <2>2, MappedCall, MappedCallNext
<1>12. absCall = [u \in Threads |-> absCall[u]] /\ absCall' = [u \in Threads |-> absCall'[u]]
  BY DEF absCall
<1>13. CASE current \in Threads
  <2>0. PICK u \in Threads \ {t} : u = current
    BY <1>4, <1>13
  <2>1. Live(u) /\ Live(u)' /\ absLife[u] = "live"
    BY <1>1, <1>3, <1>6, <2>0, TheCaller DEF absLife, Live
  <2>2. ContextOf(u) = cpu /\ ContextOf(u)' = cpu'
    BY <1>9, <2>0 DEF ContextOf
  <2>3. View(cpu) = Abstract!InRoutine
    BY <1>1, <1>3 DEF View, HasTakenEffect, Abstract!InRoutine
  <2>4. View(cpu') = [op |-> "create", arg |-> t, done |-> FALSE]
    BY <1>2 DEF View, HasTakenEffect
  <2>5. absCall[u] = Abstract!InRoutine
    BY <2>1, <2>2, <2>3, MappedCall
  <2>6. absCall'[u] = View(cpu')
    BY <2>1, <2>2, MappedCallNext DEF View, HasTakenEffect
  <2>7. absCall' = [absCall EXCEPT ![u] = [op |-> "create", arg |-> t, done |-> FALSE]]
    BY <1>10, <1>11, <1>12, <2>0, <2>4, <2>6
  <2>8. Abstract!Spawn(t)
    BY <1>1, <1>7, <1>8, <2>1, <2>5, <2>7 DEF Abstract!Spawn
  <2> QED
    BY <2>8 DEF AbsStep, Abstract!Next
<1>14. CASE current \notin Threads
  <2>1. absCall' = absCall
    BY <1>10, <1>11, <1>12, <1>14
  <2>2. Abstract!Spawn(t)
    BY <1>1, <1>7, <1>8, <2>1 DEF Abstract!Spawn
  <2> QED
    BY <2>2 DEF AbsStep, Abstract!Next
<1> QED
  BY <1>13, <1>14

\* Nothing a client can see: contexts and states of the clients' threads stay.
LEMMA NoClientStep ==
    ASSUME SchedInv, SchedInv', UNCHANGED count, current \notin Threads, current' \notin Threads,
           \A t \in Threads : state'[t] = state[t] /\ ctx'[t] = ctx[t]
    PROVE  UNCHANGED absState
<1>1. \A t \in Threads : /\ ~OnCpu(t) /\ ~OnCpu(t)'
                         /\ ContextOf(t)' = ContextOf(t) /\ (Live(t)' <=> Live(t))
  BY DEF OnCpu, ContextOf, Live
<1>2. \A t \in Threads : absCall'[t] = absCall[t]
  BY <1>1, MappedCall, MappedCallNext
<1>3. \A l \in AppLocks : absOwner'[l] = absOwner[l]
  BY OwnerRuns, OwnerRunsNext
<1>4. absLife' = absLife
  BY <1>1 DEF absLife
<1>5. /\ absCall = [t \in Threads |-> absCall[t]] /\ absCall' = [t \in Threads |-> absCall'[t]]
      /\ absOwner = [l \in AppLocks |-> absOwner[l]] /\ absOwner' = [l \in AppLocks |-> absOwner'[l]]
  BY DEF absCall, absOwner
<1> QED
  BY <1>2, <1>3, <1>4, <1>5 DEF absState

LEMMA StartAbs ==
    ASSUME SchedInv, WakeInv, SchedInv', UNCHANGED semVars,
           SchedStart \/ SchedStartNoMemory \/ Halted
    PROVE  AbsStep
<1>1. CASE SchedStart
  <2>1. /\ current = NoThread /\ current' = Idle /\ TypeOK /\ UNCHANGED count
        /\ state' = [state EXCEPT ![Idle] = "RUNNABLE"] /\ ctx' = [ctx EXCEPT ![Idle] = IdleContext]
    BY <1>1 DEF SchedStart, SchedInv, semVars
  <2>2. \A t \in Threads : state'[t] = state[t] /\ ctx'[t] = ctx[t]
    BY <2>1, ThreadsApart DEF TypeOK
  <2> QED
    BY <2>1, <2>2, ThreadsApart, NoClientStep DEF AbsStep
<1>2. CASE SchedStartNoMemory
  <2>1. current = NoThread /\ UNCHANGED <<current, state, ctx, count>>
    BY <1>2 DEF SchedStartNoMemory, semVars
  <2> QED
    BY <2>1, ThreadsApart, NoClientStep DEF AbsStep
<1>3. CASE Halted
  <2>1. UNCHANGED <<current, state, ctx, cpu, count>>
    BY <1>3 DEF Halted, coreVars, semVars
  <2> QED
    BY <2>1, InsideCall DEF AbsStep, SameLife, SameLive, Live, SameHeld, View, HasTakenEffect, Holds, LockOf
<1> QED
  BY <1>1, <1>2, <1>3

\* A trap: no thread is born or dies, the running thread goes on at c.
LEMMA SwitchAbs ==
    ASSUME SchedInv, WakeInv, SchedInv', Holds(cpu) = {}, NEW st, NEW c, Switches(st, c)
    PROVE  /\ UNCHANGED <<absLife, absOwner, count>>
           /\ \A t \in Threads :
                 IF t = current /\ Live(t) /\ cpu.op # "start"
                   THEN absCall[t] = View(cpu) /\ absCall'[t] = View(c)
                   ELSE absCall'[t] = absCall[t]
<1>1. \A t \in Threads : /\ ContextOf(t)' = ctx'[t]
                         /\ Live(t) => ctx'[t] = IF OnCpu(t) THEN c ELSE ctx[t]
  BY SwitchContexts, ThreadsApart
<1>2. SameLife
  <2>1. /\ TypeOK /\ current \in Elements(thread_list) /\ Idle \in Elements(thread_list)
    BY DEF SchedInv, IdleInv, Switches
  <2>2. PICK next \in Elements(thread_list) : next = NextThread(st) /\ CanRun(st, next)
    BY <2>1, NextThreadExists DEF Switches
  <2>3. state' = Rescheduled(st, next)
    BY <2>2 DEF SwitchFrom, Switches
  <2>4. \A t \in Threads : st[t] = state[t] \/ (state[t] = "BLOCK" /\ st[t] = "RUNNABLE")
    BY ThreadsApart DEF Switches, WokenOnly
  <2>5. \A t \in Threads : \/ state'[t] = st[t]
                           \/ st[t] \in {"RUNNING", "RUNNABLE"} /\ state'[t] \in {"RUNNING", "RUNNABLE"}
    BY <2>2, <2>3, ThreadsApart DEF Rescheduled, CanRun
  <2> QED
    BY <2>4, <2>5 DEF SameLife, SameLive, Live
<1>3. absLife' = absLife /\ UNCHANGED count
  BY <1>2 DEF absLife, SameLife, SameLive, Live, Switches, semVars
<1>4. absOwner' = absOwner
  <2>1. \A l \in AppLocks : absOwner[l] = NoThread
    BY OwnerRuns
  <2>2. \A t \in Threads : Holds(ContextOf(t))' = {}
    <3>1. \A t \in Threads : Holds(ctx'[t]) = {}
      BY ThreadsApart DEF SchedInv, Parked, Holds, LockOf
    <3> QED
      BY <1>1, <3>1 DEF Holds, LockOf
  <2>3. ASSUME NEW l \in AppLocks PROVE absOwner'[l] = NoThread
    <3> DEFINE inside == {t \in Threads : Live(t)' /\ l \in Holds(ContextOf(t))'}
    <3>1. absOwner'[l] = IF inside = {} THEN NoThread ELSE CHOOSE t \in inside : TRUE
      BY DEF absOwner
    <3>2. inside = {}
      BY <2>2
    <3> QED
      BY <3>1, <3>2
  <2>4. absOwner = [l \in AppLocks |-> absOwner[l]] /\ absOwner' = [l \in AppLocks |-> absOwner'[l]]
    BY DEF absOwner
  <2> QED
    BY <2>1, <2>3, <2>4
<1>5. ASSUME NEW t \in Threads
      PROVE  IF t = current /\ Live(t) /\ cpu.op # "start"
               THEN absCall[t] = View(cpu) /\ absCall'[t] = View(c)
               ELSE absCall'[t] = absCall[t]
  <2>1. OnCpu(t) <=> t = current /\ cpu.op # "start"
    BY DEF OnCpu
  <2>2. Live(t) <=> Live(t)'
    BY <1>2 DEF SameLife, SameLive
  <2>3. CASE Live(t) /\ OnCpu(t)
    <3>1. ContextOf(t) = cpu /\ ContextOf(t)' = c
      BY <1>1, <2>3 DEF ContextOf
    <3> QED
      BY <2>1, <2>2, <2>3, <3>1, MappedCall, MappedCallNext
  <2>4. CASE Live(t) /\ ~OnCpu(t)
    <3>1. ContextOf(t)' = ContextOf(t)
      BY <1>1, <2>4 DEF ContextOf
    <3> QED
      BY <2>1, <2>2, <2>4, <3>1, MappedCall, MappedCallNext
  <2>5. CASE ~Live(t)
    BY <2>2, <2>5, MappedCall, MappedCallNext
  <2> QED
    BY <2>3, <2>4, <2>5
<1> QED
  BY <1>3, <1>4, <1>5

\* Interrupts and ticks are seen by no client.
LEMMA InterruptAbs ==
    ASSUME SchedInv, WakeInv, SchedInv', UNCHANGED semVars, Tick \/ Interrupt
    PROVE  AbsStep
<1>1. PICK st : Switches(st, cpu)
  BY InterruptSwitches
<1>2. Holds(cpu) = {}
  BY MieMeansFree DEF Tick, Interrupt
<1>3. UNCHANGED <<absLife, absOwner, count>> /\ \A t \in Threads : absCall'[t] = absCall[t]
  BY <1>1, <1>2, SwitchAbs
<1>4. absCall = [t \in Threads |-> absCall[t]] /\ absCall' = [t \in Threads |-> absCall'[t]]
  BY DEF absCall
<1> QED
  BY <1>3, <1>4 DEF AbsStep, absState

\* sched_yield: the call behind it returns, sem_wait goes round its loop.
LEMMA YieldAbs ==
    ASSUME SchedInv, WakeInv, DyingInv, SchedInv', UNCHANGED semVars, Yield
    PROVE  AbsStep
<1>1. /\ cpu \in Context /\ Coherent(cpu) /\ cpu.step = "yield" /\ cpu.held = {}
      /\ cpu.op \in YieldingCalls \cup {"start"} /\ Holds(cpu) = {}
  BY HoldsFacts DEF Yield, Coherent, Holds
<1>2. CASE current = NoThread
  BY <1>2, ThreadsApart, NoClientStep DEF Yield, semVars, AbsStep
<1>3. CASE current # NoThread
  <2>1. PICK c : c = AfterEcall(cpu)
    OBVIOUS
  <2>2. Switches(state, c)
    BY <1>3, <2>1, YieldSwitches
  <2>3. /\ UNCHANGED <<absLife, absOwner, count>>
        /\ \A t \in Threads :
              IF t = current /\ Live(t) /\ cpu.op # "start"
                THEN absCall[t] = View(cpu) /\ absCall'[t] = View(c)
                ELSE absCall'[t] = absCall[t]
    BY <1>1, <2>2, SwitchAbs
  <2>4. absCall = [t \in Threads |-> absCall[t]] /\ absCall' = [t \in Threads |-> absCall'[t]]
    BY DEF absCall
  <2>5. CASE ~(current \in Threads /\ Live(current) /\ cpu.op # "start") \/ View(c) = View(cpu)
    <3>1. absCall' = absCall
      BY <2>3, <2>4, <2>5
    <3> QED
      BY <2>3, <3>1 DEF AbsStep, absState
  <2>6. CASE current \in Threads /\ Live(current) /\ cpu.op # "start" /\ cpu.op = "sem_wait"
    <3>1. c = [cpu EXCEPT !.step = "check"]
      BY <2>1, <2>6 DEF AfterEcall
    <3>2. c.op = cpu.op /\ c.arg = cpu.arg /\ c.step = "check"
      BY <1>1, <3>1 DEF Context
    <3>3. View(c) = View(cpu)
      BY <1>1, <2>6, <3>2 DEF View, HasTakenEffect
    <3> QED
      BY <2>5, <3>3
  <2>7. CASE current \in Threads /\ Live(current) /\ cpu.op # "start" /\ cpu.op # "sem_wait"
    <3>1. c = ToUser(cpu)
      BY <2>1, <2>7 DEF AfterEcall
    <3>2. c.op = "user" /\ c.arg = NoThread
      BY <1>1, <3>1 DEF ToUser, Context
    <3>3. View(c) = Abstract!InRoutine
      BY <3>2 DEF View, HasTakenEffect, Abstract!InRoutine
    <3>4. absCall[current] = View(cpu) /\ absCall' = [absCall EXCEPT ![current] = Abstract!InRoutine]
      BY <2>3, <2>4, <2>7, <3>3
    <3>5. cpu.op # "exit"
      BY <1>1, <2>7 DEF DyingInv, ContextOf, OnCpu
    <3>6. /\ View(cpu).op = cpu.op /\ cpu.op \in {"yield", "msleep", "set_priority", "sem_post"}
          /\ cpu.op = "sem_post" => View(cpu).done
      BY <1>1, <2>7, <3>5 DEF View, HasTakenEffect, YieldingCalls
    <3>7. absLife[current] = "live"
      BY <2>7 DEF absLife
    <3>8. Abstract!SemReturn(current) \/ Abstract!SchedulingReturn(current)
      BY <2>3, <3>4, <3>6, <3>7 DEF Abstract!SemReturn, Abstract!SchedulingReturn, Abstract!Return
    <3> QED
      BY <2>7, <3>8 DEF AbsStep, Abstract!Next
  <2> QED
    BY <2>5, <2>6, <2>7
<1> QED
  BY <1>2, <1>3

-----------------------------------------------------------------------------
(* The dead stay dead.                                                     *)

LEMMA DyingInit == Init => DyingInv
BY ThreadsApart DEF Init, CoreInit, DyingInv, Live

\* A step of the running code, which may only kill its own thread.
LEMMA RunKeepsDying ==
    ASSUME SchedInv, DyingInv, SchedInv', UNCHANGED <<current, ctx>>,
           \A t \in Threads \ {current} : Live(t)' => Live(t),
           current \in Threads /\ cpu'.op = "exit" /\ cpu'.step \in {"unlock", "yield"} =>
              ~Live(current)' \/ (cpu.op = "exit" /\ cpu.step \in {"unlock", "yield"} /\ Live(current))
    PROVE  DyingInv'
<1>1. \A t \in Threads : (OnCpu(t) <=> t = current) /\ (OnCpu(t)' <=> t = current)
  BY ThreadsApart DEF OnCpu, SchedInv, IdleInv
<1>2. ASSUME NEW t \in Threads, Live(t)', ContextOf(t)'.op = "exit", ContextOf(t)'.step \in {"unlock", "yield"}
      PROVE  FALSE
  <2>1. CASE t = current
    <3>1. ContextOf(t)' = cpu' /\ ContextOf(t) = cpu /\ Live(current)'
      BY <1>1, <1>2, <2>1 DEF ContextOf, Live
    <3> QED
      BY <1>2, <2>1, <3>1 DEF DyingInv
  <2>2. CASE t # current
    <3>1. ContextOf(t)' = ContextOf(t) /\ Live(t)
      BY <1>1, <1>2, <2>2 DEF ContextOf
    <3> QED
      BY <1>2, <3>1 DEF DyingInv
  <2> QED
    BY <2>1, <2>2
<1> QED
  BY <1>2 DEF DyingInv

\* After a trap each live thread's context is what it was, or the ecall's end.
LEMMA TrapKeepsDying ==
    ASSUME SchedInv, WakeInv, DyingInv, SchedInv', UNCHANGED semVars, Tick \/ Interrupt \/ Yield
    PROVE  DyingInv'
<1>1. ASSUME NEW st, NEW c, Switches(st, c), Holds(cpu) = {} PROVE DyingInv'
  <2>1. c = cpu \/ c.op # "exit"
    <3>1. AfterEcall(cpu).op # "exit"
      <4>1. cpu \in Context
        BY HoldsFacts
      <4> QED
        BY <4>1 DEF AfterEcall, ToUser, Context
    <3> QED
      BY <1>1, <3>1 DEF Switches
  <2>2. \A t \in Threads : /\ ContextOf(t)' = ctx'[t]
                           /\ Live(t) => ctx'[t] = IF OnCpu(t) THEN c ELSE ctx[t]
    BY <1>1, SwitchContexts, ThreadsApart
  <2>3. \A t \in Threads : absLife'[t] = absLife[t]
    BY <1>1, SwitchAbs
  <2>4. \A t \in Threads : Live(t)' => Live(t)
    BY <2>3 DEF absLife, Live
  <2> QED
    BY <2>1, <2>2, <2>4 DEF DyingInv, ContextOf
<1>2. CASE Tick \/ Interrupt
  <2>1. PICK st : Switches(st, cpu)
    BY <1>2, InterruptSwitches
  <2>2. Holds(cpu) = {}
    BY <1>2, MieMeansFree DEF Tick, Interrupt
  <2> QED
    BY <1>1, <2>1, <2>2
<1>3. CASE Yield /\ current # NoThread
  <2>1. Holds(cpu) = {}
    BY <1>3, HoldsFacts DEF Yield, Coherent, Holds
  <2> QED
    BY <1>1, <1>3, <2>1, YieldSwitches
<1>4. CASE Yield /\ current = NoThread
  <2>1. UNCHANGED <<current, ctx, state>> /\ current \notin Threads
    BY <1>4, ThreadsApart DEF Yield
  <2> QED
    BY <2>1, RunKeepsDying DEF Live
<1> QED
  BY <1>2, <1>3, <1>4

LEMMA StepKeepsDying ==
    ASSUME SchedInv, WakeInv, DyingInv, SchedInv', [Next]_vars
    PROVE  DyingInv'
<1>0. cpu \in Context /\ Coherent(cpu) /\ TypeOK
  BY HoldsFacts DEF SchedInv
<1>1. CASE (Tick \/ Interrupt \/ Yield) /\ UNCHANGED semVars
  BY <1>1, TrapKeepsDying
<1>2. CASE \/ CallYield \/ CallExit
           \/ \E l \in AppLocks : CallSpinLock(l) \/ CallSpinUnlock(l)
           \/ \E time \in SleepTimes : CallMsleep(time)
           \/ \E t \in Threads, p \in Priorities : CallSetPriority(t, p)
           \/ \E t \in Threads : CallDestroy(t)
           \/ \E s \in Sems : CallSemWait(s) \/ CallSemPost(s)
  <2>1. UNCHANGED <<current, ctx, state>>
    BY <1>2, Zenon DEF CallYield, CallExit, CallSpinLock, CallSpinUnlock, CallMsleep,
       CallSetPriority, CallDestroy, CallSemWait, CallSemPost
  <2>2. cpu'.op = "exit" => cpu'.step = "check"
    <3>1. CASE CallExit
      BY <1>0, <3>1 DEF CallExit, Enter, Context
    <3>2. CASE ~CallExit
      BY <1>0, <1>2, <3>2 DEF CallYield, CallSpinLock, CallSpinUnlock, CallMsleep,
         CallSetPriority, CallDestroy, CallSemWait, CallSemPost, Enter, Context
    <3> QED
      BY <3>1, <3>2
  <2> QED
    BY <2>1, <2>2, RunKeepsDying DEF Live
<1>3. CASE SpinCheck \/ SpinTry \/ SpinUnlock
  <2>1. UNCHANGED <<current, ctx, state>> /\ cpu.step \in {"check", "try", "unlock"}
    BY <1>3, Zenon DEF SpinCheck, SpinTry, SpinUnlock
  <2>2. cpu'.op = "exit" => cpu.op = "exit" /\ (cpu.step = "unlock" \/ cpu'.step \notin {"unlock", "yield"})
    BY <1>0, <1>3, <2>1 DEF SpinCheck, SpinTry, SpinUnlock, EnableAt, ToUser, Context
  <2>3. Live(current)' <=> Live(current)
    BY <2>1 DEF Live
  <2> QED
    BY <2>1, <2>2, <2>3, RunKeepsDying DEF Live
<1>4. CASE MsleepBlock \/ MsleepEnable \/ CreateBody \/ DestroyBody \/ SemWaitBody \/ SemPostBody
  <2>1. UNCHANGED <<current, ctx>> /\ cpu'.op # "exit"
    BY <1>0, <1>4 DEF MsleepBlock, MsleepEnable, CreateBody, DestroyBody, SemWaitBody, SemPostBody,
       EnableAt, Context, Coherent
  <2>2. \A t \in Threads \ {current} : Live(t)' => Live(t)
    <3>1. CASE SemPostBody
      BY <3>1, PostKeepsLife DEF SameLife, SameLive
    <3>2. CASE MsleepBlock \/ MsleepEnable \/ CreateBody \/ DestroyBody \/ SemWaitBody
      BY <1>0, <3>2 DEF MsleepBlock, MsleepEnable, CreateBody, DestroyBody, SemWaitBody, Live, TypeOK, AllThreads
    <3> QED
      BY <1>4, <3>1, <3>2
  <2> QED
    BY <2>1, <2>2, RunKeepsDying
<1>5. CASE ExitBody
  <2>1. UNCHANGED <<current, ctx>> /\ state' = [state EXCEPT ![current] = "DEAD"]
    BY <1>5 DEF ExitBody
  <2>2. \A t \in Threads \ {current} : Live(t)' => Live(t)
    BY <1>0, <2>1, ThreadsApart DEF Live, TypeOK
  <2>3. current \in Threads => ~Live(current)'
    BY <1>0, <2>1, ThreadsApart DEF Live, TypeOK
  <2> QED
    BY <2>1, <2>2, <2>3, RunKeepsDying
<1>6. CASE \E t \in Threads : CallCreate(t)
  <2>1. PICK t \in Threads : CallCreate(t)
    BY <1>6
  <2>2. /\ cpu'.op = "create" /\ UNCHANGED current /\ ctx'[t] = FreshContext
        /\ \A u \in Threads \ {t} : ctx'[u] = ctx[u] /\ (Live(u)' => Live(u))
    BY <1>0, <2>1, ThreadsApart DEF CallCreate, Enter, Context, Live, TypeOK
  <2>3. \A u \in Threads \ {t} : ContextOf(u)' = ContextOf(u) \/ ContextOf(u)' = cpu'
    BY <1>0, <2>1, <2>2 DEF ContextOf, OnCpu, CallCreate, MayCall, Coherent
  <2>4. ContextOf(t)' \in {FreshContext, cpu'}
    BY <2>2 DEF ContextOf
  <2> QED
    BY <2>2, <2>3, <2>4 DEF DyingInv, FreshContext
<1>7. CASE SchedStart \/ SchedStartNoMemory
  <2>1. /\ cpu'.op = "start" /\ current \notin Threads
        /\ \A u \in Threads : ctx'[u] = ctx[u] /\ state'[u] = state[u]
    BY <1>0, <1>7, ThreadsApart, ZenonT(60) DEF SchedStart, SchedStartNoMemory, Enter, Context, TypeOK
  <2> QED
    BY <2>1 DEF DyingInv, ContextOf, OnCpu, Live
<1>8. CASE Halted \/ UNCHANGED vars
  BY <1>8 DEF Halted, vars, coreVars, DyingInv, ContextOf, OnCpu, Live
<1> QED
  BY <1>1, <1>2, <1>3, <1>4, <1>5, <1>6, <1>7, <1>8 DEF Next, Run, CoreStep, SemStep

-----------------------------------------------------------------------------
(* The refinement.                                                         *)

LEMMA InitAbs == ASSUME Init PROVE Abstract!Init
<1>1. \A t \in Threads : state[t] = "FREE" /\ ~Live(t)
  BY ThreadsApart DEF Init, CoreInit, Live
<1>2. absLife = [t \in Threads |-> "none"]
  BY <1>1 DEF absLife
<1>3. absCall = [t \in Threads |-> Abstract!InRoutine]
  BY <1>1 DEF absCall, Abstract!InRoutine
<1>4. absOwner = [l \in AppLocks |-> NoThread]
  <2>1. SchedInv /\ current = NoThread
    BY InitInv DEF Init, CoreInit
  <2>2. \A l \in AppLocks : absOwner[l] = NoThread
    BY <2>1, OwnerRuns, ThreadsApart
  <2>3. absOwner = [l \in AppLocks |-> absOwner[l]]
    BY DEF absOwner
  <2> QED
    BY <2>2, <2>3
<1> QED
  BY <1>2, <1>3, <1>4 DEF Abstract!Init, Init

LEMMA StepAbs ==
    ASSUME SchedInv, WakeInv, DyingInv, SchedInv', [Next]_vars
    PROVE  AbsStep
<1>1. CASE (Tick \/ Interrupt) /\ UNCHANGED semVars
  BY <1>1, InterruptAbs
<1>2. CASE Yield /\ UNCHANGED semVars
  BY <1>2, YieldAbs
<1>3. CASE /\ UNCHANGED semVars
           /\ \/ \E l \in AppLocks : CallSpinLock(l) \/ CallSpinUnlock(l)
              \/ CallYield \/ CallExit
              \/ \E time \in SleepTimes : CallMsleep(time)
              \/ \E t \in Threads, p \in Priorities : CallSetPriority(t, p)
              \/ \E t \in Threads : CallDestroy(t)
  BY <1>3, CallsBegin
<1>4. CASE \E s \in Sems : CallSemWait(s) \/ CallSemPost(s)
  <2>1. UNCHANGED semVars
    BY <1>4 DEF CallSemWait, CallSemPost
  <2> QED
    BY <1>4, <2>1, CallsBegin
<1>5. CASE (SpinCheck \/ SpinTry) /\ UNCHANGED semVars
  BY <1>5, SpinAbs
<1>6. CASE SpinUnlock /\ UNCHANGED semVars
  BY <1>6, UnlockAbs
<1>7. CASE (MsleepBlock \/ MsleepEnable \/ CreateBody) /\ UNCHANGED semVars
  BY <1>7, QuietAbs
<1>8. CASE DestroyBody /\ UNCHANGED semVars
  BY <1>8, DestroyAbs
<1>9. CASE ExitBody /\ UNCHANGED semVars
  BY <1>9, ExitAbs
<1>10. CASE SemWaitBody \/ SemPostBody
  BY <1>10, SemWaitAbs, SemPostAbs
<1>11. CASE (\E t \in Threads : CallCreate(t)) /\ UNCHANGED semVars
  BY <1>11, CreateAbs
<1>12. CASE (SchedStart \/ SchedStartNoMemory \/ Halted) /\ UNCHANGED semVars
  BY <1>12, StartAbs
<1>13. CASE UNCHANGED vars
  <2>1. UNCHANGED <<current, ctx, cpu, state, count>>
    BY <1>13 DEF vars, coreVars, semVars
  <2> QED
    BY <2>1, InsideCall DEF AbsStep, SameLife, SameLive, Live, SameHeld, View, HasTakenEffect, Holds, LockOf
<1> QED
  BY <1>1, <1>2, <1>3, <1>4, <1>5, <1>6, <1>7, <1>8, <1>9, <1>10, <1>11, <1>12, <1>13
     DEF Next, Run, CoreStep, SemStep

\* No thread comes back from thread_end_point.
THEOREM DyingStayDead ==
    ASSUME ~MayYieldHolding, LongSleeps
    PROVE  Spec => []DyingInv
<1>1. Init => DyingInv
  BY DyingInit
<1>2. SchedInv /\ WakeInv /\ SchedInv' /\ DyingInv /\ [Next]_vars => DyingInv'
  BY StepKeepsDying
<1> QED
  BY <1>1, <1>2, Invariance, WakeInvariance, PTL DEF Spec

\* The scheduler with its interrupts, saved contexts and lock words gives every
\* client what Threading promises: each call of each thread takes effect once,
\* in order, on that thread's behalf, whatever switches come in between.
THEOREM ThreadsImplemented ==
    ASSUME ~MayYieldHolding, LongSleeps
    PROVE  Spec => ImplementsThreading
<1>1. Init => Abstract!Init
  BY InitAbs
<1>2. SchedInv /\ WakeInv /\ DyingInv /\ SchedInv' /\ [Next]_vars => [Abstract!Next]_(Abstract!absVars)
  <2> SUFFICES ASSUME SchedInv, WakeInv, DyingInv, SchedInv', [Next]_vars
               PROVE  Abstract!Next \/ UNCHANGED Abstract!absVars
    OBVIOUS
  <2>1. AbsStep
    BY StepAbs
  <2> QED
    BY <2>1 DEF AbsStep, absState, Abstract!absVars
<1> QED
  BY <1>1, <1>2, Invariance, WakeInvariance, DyingStayDead, PTL
     DEF Spec, ImplementsThreading, Abstract!Spec

=============================================================================
