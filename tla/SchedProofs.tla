----------------------------- MODULE SchedProofs -----------------------------
(***************************************************************************)
(* Proofs about the threading system, for clients that do not sleep or     *)
(* yield inside a spinlock (~MayYieldHolding).                             *)
(***************************************************************************)
EXTENDS Semaphore, FiniteSetTheorems, WellFoundedInduction, TLAPS

States == {"FREE", "RUNNABLE", "RUNNING", "BLOCK", "DEAD"}

\* list_del shortens the list and removes nothing but the entry.
LEMMA ListDelFacts ==
    ASSUME NEW S, NEW s \in Seq(S), NEW e \in Elements(s)
    PROVE  /\ ListDel(s, e) \in Seq(S)
           /\ Elements(s) \ {e} \subseteq Elements(ListDel(s, e))
           /\ Elements(ListDel(s, e)) \subseteq Elements(s)
<1> DEFINE k == CHOOSE i \in DOMAIN s : s[i] = e
           d == [i \in 1 .. Len(s) - 1 |-> IF i < k THEN s[i] ELSE s[i + 1]]
<1>1. k \in 1 .. Len(s) /\ s[k] = e
  BY DEF Elements
<1>2. ListDel(s, e) = d
  BY DEF ListDel
<1> HIDE DEF k
<1>3. Len(s) - 1 \in Nat
  BY <1>1
<1>4. \A i \in 1 .. Len(s) - 1 : d[i] \in S
  BY <1>1
<1>5. d \in Seq(S) /\ DOMAIN d = 1 .. Len(s) - 1
  BY <1>3, <1>4
<1>6. Elements(d) \subseteq Elements(s)
  BY <1>1, <1>5 DEF Elements
<1>7. ASSUME NEW x \in Elements(s) \ {e}
      PROVE  x \in Elements(d)
  <2>1. PICK i \in 1 .. Len(s) : s[i] = x
    BY DEF Elements
  <2>2. i # k
    BY <2>1, <1>1
  <2>3. CASE i < k
    <3>1. i \in 1 .. Len(s) - 1 /\ d[i] = x
      BY <2>1, <2>3, <1>1
    <3> QED
      BY <3>1, <1>5 DEF Elements
  <2>4. CASE i > k
    <3>1. i - 1 \in 1 .. Len(s) - 1 /\ d[i - 1] = x
      BY <2>1, <2>4, <1>1
    <3> QED
      BY <3>1, <1>5 DEF Elements
  <2> QED
    BY <2>1, <2>2, <2>3, <2>4, <1>1
<1> QED
  BY <1>2, <1>5, <1>6, <1>7

\* list_add_tail adds the entry and keeps the others.
LEMMA AppendElements ==
    ASSUME NEW S, NEW s \in Seq(S), NEW e
    PROVE  Elements(Append(s, e)) = Elements(s) \cup {e}
<1>1. /\ DOMAIN Append(s, e) = 1 .. Len(s) + 1 /\ DOMAIN s = 1 .. Len(s)
      /\ Len(s) \in Nat
      /\ \A i \in 1 .. Len(s) : Append(s, e)[i] = s[i]
      /\ Append(s, e)[Len(s) + 1] = e
  OBVIOUS
<1> QED
  BY <1>1 DEF Elements

\* A nonempty set of naturals has a least element.
LEMMA NatSetHasMin ==
    ASSUME NEW T, T \subseteq Nat, T # {}
    PROVE  \E x \in T : \A y \in T : x <= y
<1> DEFINE R == {ss \in Nat \X Nat : ss[1] < ss[2]}
<1>1. IsWellFoundedOn(R, Nat)
  BY NatLessThanWellFounded DEF OpToRel
<1>2. \A x \in Nat, y \in Nat : y < x => <<y, x>> \in R
  OBVIOUS
<1> HIDE DEF R
<1>3. PICK x \in T : \A y \in T : ~(<<y, x>> \in R)
  BY <1>1, WFMin
<1>4. ASSUME NEW y \in T
      PROVE  x <= y
  <2>1. x \in Nat /\ y \in Nat
    OBVIOUS
  <2>2. ~(y < x)
    BY <1>2, <1>3, <2>1
  <2> QED
    BY <2>1, <2>2
<1> QED
  BY <1>3, <1>4

\* sched_thread's scan finds a thread as long as one listed thread can run.
LEMMA NextExists ==
    ASSUME TypeOK, current \in Elements(thread_list),
           NEW st, NEW r \in Elements(thread_list), CanRun(st, r)
    PROVE  \E i \in DOMAIN thread_list : IsNext(st, i)
<1> DEFINE D == DOMAIN thread_list
           P(i) == priority[thread_list[i]]
           Able == {i \in D : CanRun(st, thread_list[i])}
           Gaps == {IntMax - P(i) : i \in Able}
<1>1. D = 1 .. Len(thread_list) /\ Len(thread_list) \in Nat
  BY DEF TypeOK
<1>2. \A i \in D : P(i) \in 0 .. IntMax
  BY DEF TypeOK
<1>3. CurrentPos \in D
  BY DEF CurrentPos, Elements
<1>4. \A i \in D : Distance(i) \in Nat
  BY <1>1, <1>3 DEF Distance
<1>5. Able # {}
  BY DEF Elements
<1>6. PICK b \in Able : \A j \in Able : P(j) <= P(b)
  <2>1. Gaps \subseteq Nat /\ Gaps # {}
    BY <1>2, <1>5, ConstantsAssumption
  <2>2. PICK g \in Gaps : \A h \in Gaps : g <= h
    BY <2>1, NatSetHasMin
  <2> QED
    BY <2>2, <1>2, ConstantsAssumption
<1> DEFINE Best == {i \in Able : P(i) = P(b)}
           Dist == {Distance(i) : i \in Best}
<1>7. PICK i \in Best : \A j \in Best : Distance(i) <= Distance(j)
  <2>1. Dist \subseteq Nat /\ Dist # {}
    BY <1>4, <1>6
  <2>2. PICK g \in Dist : \A h \in Dist : g <= h
    BY <2>1, NatSetHasMin
  <2> QED
    BY <2>2
<1>8. IsNext(st, i)
  BY <1>2, <1>6, <1>7 DEF IsNext
<1> QED
  BY <1>8

\* The thread sched_thread returns is listed and can run.
LEMMA NextThreadExists ==
    ASSUME TypeOK, current \in Elements(thread_list),
           NEW st, NEW r \in Elements(thread_list), CanRun(st, r)
    PROVE  /\ NextThread(st) \in Elements(thread_list)
           /\ CanRun(st, NextThread(st))
BY NextExists DEF NextThread, IsNext, Elements

-----------------------------------------------------------------------------
(* The invariant holds initially.                                          *)

LEMMA InitInv == Init => SchedInv
<1> SUFFICES ASSUME Init PROVE SchedInv
  OBVIOUS
<1> USE ConstantsAssumption, CountAssumption DEF Init, CoreInit
<1>1. FreshContext \in Context
  BY DEF FreshContext, Context, Steps
<1>2. TypeOK
  BY <1>1 DEF TypeOK
<1>3. Coherent(FreshContext) /\ Holds(FreshContext) = {} /\ FreshContext.mie
      /\ FreshContext.step = "user" /\ FreshContext.op = "user"
  BY DEF FreshContext, Coherent, Holds, YieldingCalls
<1>4. LockDiscipline
  BY <1>3, FS_EmptySet DEF LockDiscipline
<1>5. \A t \in AllThreads : Parked(ctx[t])
  BY <1>3 DEF Parked
<1>6. IdleInv /\ RunningInv /\ ThreadContexts
  BY <1>3 DEF IdleInv, RunningInv, ThreadContexts, AllThreads
<1> QED
  BY <1>2, <1>3, <1>4, <1>5, <1>6 DEF SchedInv

-----------------------------------------------------------------------------
(* Steps that only move the running context forward, outside locks or      *)
(* without changing what it holds.                                         *)

LEMMA CpuOnly ==
    ASSUME SchedInv, current # NoThread \/ cpu'.op \in {"user", "create", "set_priority"},
           UNCHANGED <<thread_list, state, sleep_time, current, ctx, lock,
                       preempt_count>>,
           priority' \in [AllThreads -> 0 .. IntMax], priority'[Idle] = priority[Idle],
           count' \in [Sems -> Nat], UNCHANGED wait_list,
           cpu' \in Context, Coherent(cpu'), Holds(cpu') = Holds(cpu),
           cpu'.mie = cpu.mie,
           cpu.step \notin {"wake", "halt"}, cpu'.step \notin {"wake", "halt"},
           cpu.op \notin {"idle", "start"}, cpu'.op \notin {"idle", "start"}
    PROVE  SchedInv'
<1>1. TypeOK'
  BY DEF SchedInv, TypeOK
<1>2. LockDiscipline'
  BY DEF SchedInv, LockDiscipline
<1>3. \A t \in AllThreads : Parked(ctx'[t])
  BY DEF SchedInv
<1>4. IdleInv'
  BY DEF SchedInv, IdleInv, CanRun
<1>5. RunningInv' /\ ThreadContexts'
  BY DEF SchedInv, RunningInv, ThreadContexts
<1> QED
  BY <1>1, <1>2, <1>3, <1>4, <1>5 DEF SchedInv

\* Entering a call changes nothing but where the running context is.
LEMMA CallInv ==
    ASSUME SchedInv, ~MayYieldHolding, UNCHANGED semVars,
           \/ \E l \in AppLocks : CallSpinLock(l) \/ CallSpinUnlock(l)
           \/ CallYield
           \/ \E time \in SleepTimes : CallMsleep(time)
           \/ \E t \in Threads, p \in Priorities : CallSetPriority(t, p)
           \/ \E t \in Threads : CallDestroy(t)
           \/ CallExit
    PROVE  SchedInv'
<1> USE ConstantsAssumption DEF semVars, MayCall, Enter
<1> cpu \in Context /\ Coherent(cpu) /\ TypeOK
  BY DEF SchedInv, TypeOK
<1>1. ASSUME NEW l \in AppLocks, CallSpinLock(l)
      PROVE  SchedInv'
  <2>1. cpu' = [cpu EXCEPT !.op = "spin_lock", !.step = "check", !.arg = l,
                           !.yields = FALSE]
    BY <1>1 DEF CallSpinLock
  <2>2. cpu' \in Context
    BY <2>1 DEF Context, AllCalls, YieldingCalls, Locks, Steps
  <2>3. Coherent(cpu')
    BY <2>1, <1>1, ZenonT(60) DEF CallSpinLock, Context, Coherent, YieldingCalls
  <2>4. Holds(cpu') = Holds(cpu)
    BY <2>1, <1>1 DEF CallSpinLock, Context, Holds
  <2> QED
    BY <1>1, <2>1, <2>2, <2>3, <2>4, CpuOnly DEF CallSpinLock, Context, TypeOK, Coherent
<1>2. ASSUME NEW l \in AppLocks, CallSpinUnlock(l)
      PROVE  SchedInv'
  <2>1. cpu' = [cpu EXCEPT !.op = "spin_unlock", !.step = "unlock", !.arg = l,
                           !.held = @ \ {l}]
    BY <1>2 DEF CallSpinUnlock
  <2>2. cpu' \in Context
    BY <2>1 DEF Context, AllCalls, YieldingCalls, Locks, Steps
  <2>3. Coherent(cpu')
    <3>1. /\ cpu'.op = "spin_unlock" /\ cpu'.step = "unlock" /\ cpu'.arg = l
          /\ cpu'.held = cpu.held \ {l} /\ ~cpu'.yields
      BY <2>1, <1>2 DEF CallSpinUnlock, Context, Coherent
    <3> QED
      BY <3>1 DEF Coherent, YieldingCalls
  <2>4. Holds(cpu') = Holds(cpu)
    <3>1. cpu'.held = cpu.held \ {l} /\ cpu'.step = "unlock" /\ LockOf(cpu') = l
      BY <2>1 DEF Context, LockOf
    <3>2. Holds(cpu') = (cpu.held \ {l}) \cup {l}
      BY <3>1 DEF Holds
    <3>3. Holds(cpu) = cpu.held /\ l \in cpu.held
      BY <1>2 DEF CallSpinUnlock, Holds
    <3> QED
      BY <3>2, <3>3
  <2> QED
    BY <1>2, <2>1, <2>2, <2>3, <2>4, CpuOnly DEF CallSpinUnlock, Context, TypeOK, Coherent
<1>3. ASSUME CallYield
      PROVE  SchedInv'
  <2>1. cpu' = [cpu EXCEPT !.op = "yield", !.step = "yield", !.arg = NoThread,
                           !.yields = FALSE]
    BY <1>3 DEF CallYield
  <2>2. cpu' \in Context /\ Coherent(cpu')
    BY <2>1, <1>3 DEF CallYield, Context, AllCalls, YieldingCalls, Steps, Coherent
  <2>3. Holds(cpu') = Holds(cpu)
    BY <2>1, <1>3 DEF CallYield, Context, Holds
  <2> QED
    BY <1>3, <2>1, <2>2, <2>3, CpuOnly DEF CallYield, Context, TypeOK, Coherent
<1>4. ASSUME NEW time \in SleepTimes, CallMsleep(time)
      PROVE  SchedInv'
  <2>1. cpu' = [cpu EXCEPT !.op = "msleep",
                           !.step = IF time = 0 THEN "yield" ELSE "sleep",
                           !.arg = time, !.yields = FALSE]
    BY <1>4 DEF CallMsleep
  <2>2. cpu' \in Context /\ Coherent(cpu')
    BY <2>1, <1>4, ZenonT(60) DEF CallMsleep, Context, AllCalls, YieldingCalls, Steps, Coherent
  <2>3. Holds(cpu') = Holds(cpu)
    BY <2>1, <1>4 DEF CallMsleep, Context, Holds
  <2> QED
    BY <1>4, <2>1, <2>2, <2>3, CpuOnly DEF CallMsleep, Context, TypeOK, Coherent
<1>5. ASSUME NEW t \in Threads, NEW p \in Priorities, CallSetPriority(t, p)
      PROVE  SchedInv'
  <2>1. cpu' = [cpu EXCEPT !.op = "set_priority", !.step = "yield",
                           !.arg = NoThread, !.yields = FALSE]
    BY <1>5 DEF CallSetPriority
  <2>2. cpu' \in Context /\ Coherent(cpu')
    BY <2>1, <1>5 DEF CallSetPriority, Context, AllCalls, YieldingCalls, Steps, Coherent
  <2>3. Holds(cpu') = Holds(cpu)
    BY <2>1, <1>5 DEF CallSetPriority, Context, Holds
  <2>4. priority' \in [AllThreads -> 0 .. IntMax] /\ priority'[Idle] = priority[Idle]
    BY <1>5 DEF CallSetPriority, TypeOK, AllThreads
  <2> QED
    BY <1>5, <2>1, <2>2, <2>3, <2>4, CpuOnly DEF CallSetPriority, Context, TypeOK, Coherent
<1>6. ASSUME NEW t \in Threads, CallDestroy(t)
      PROVE  SchedInv'
  <2>1. cpu' = [cpu EXCEPT !.op = "destroy", !.step = "check", !.arg = t,
                           !.yields = FALSE]
    BY <1>6 DEF CallDestroy
  <2>2. cpu' \in Context /\ Coherent(cpu')
    BY <2>1, <1>6, ZenonT(60) DEF CallDestroy, Context, AllCalls, YieldingCalls, Steps, Coherent, AllThreads
  <2>3. Holds(cpu') = Holds(cpu)
    BY <2>1, <1>6 DEF CallDestroy, Context, Holds
  <2> QED
    BY <1>6, <2>1, <2>2, <2>3, CpuOnly DEF CallDestroy, Context, TypeOK, Coherent
<1>7. ASSUME CallExit
      PROVE  SchedInv'
  <2>1. cpu' = [cpu EXCEPT !.op = "exit", !.step = "check", !.arg = NoThread,
                           !.yields = TRUE]
    BY <1>7 DEF CallExit
  <2>2. cpu' \in Context /\ Coherent(cpu')
    BY <2>1, <1>7 DEF CallExit, Context, AllCalls, YieldingCalls, Steps, Coherent
  <2>3. Holds(cpu') = Holds(cpu)
    BY <2>1, <1>7 DEF CallExit, Context, Holds
  <2> QED
    BY <1>7, <2>1, <2>2, <2>3, CpuOnly DEF CallExit, Context, TypeOK, Coherent
<1> QED
  BY <1>1, <1>2, <1>3, <1>4, <1>5, <1>6, <1>7

LEMMA SemCallInv ==
    ASSUME SchedInv, ~MayYieldHolding,
           \E s \in Sems : CallSemWait(s) \/ CallSemPost(s)
    PROVE  SchedInv'
<1> USE ConstantsAssumption DEF semVars, MayCall, Enter
<1> cpu \in Context /\ Coherent(cpu) /\ TypeOK
  BY DEF SchedInv, TypeOK
<1>1. PICK s \in Sems : CallSemWait(s) \/ CallSemPost(s)
  OBVIOUS
<1>2. PICK op \in {"sem_wait", "sem_post"} :
         cpu' = [cpu EXCEPT !.op = op, !.step = "check", !.arg = s, !.yields = TRUE]
  BY <1>1 DEF CallSemWait, CallSemPost
<1>3. cpu' \in Context /\ Coherent(cpu')
  BY <1>1, <1>2 DEF CallSemWait, CallSemPost, Context, AllCalls, YieldingCalls, Steps,
                    Coherent, Locks
<1>4. Holds(cpu') = Holds(cpu)
  BY <1>1, <1>2 DEF CallSemWait, CallSemPost, Context, Holds
<1> QED
  BY <1>1, <1>2, <1>3, <1>4, CpuOnly
     DEF CallSemWait, CallSemPost, Context, TypeOK, Coherent, YieldingCalls

-----------------------------------------------------------------------------
(* Taking and leaving a lock.                                              *)

\* What a context is inside of is a finite set of locks; the lock it is about
\* to take is not among them.
LEMMA HoldsFacts ==
    ASSUME SchedInv
    PROVE  /\ cpu \in Context /\ Coherent(cpu)
           /\ IsFiniteSet(cpu.held)
           /\ cpu.step \in {"check", "try", "crit", "unlock"} =>
                 LockOf(cpu) \in Locks \ cpu.held
<1>1. cpu \in Context /\ Coherent(cpu)
  BY DEF SchedInv, TypeOK
<1>2. IsFiniteSet(cpu.held)
  BY <1>1, FS_Subset, ConstantsAssumption DEF Context
<1>3. ASSUME cpu.step \in {"check", "try", "crit", "unlock"}
      PROVE  LockOf(cpu) \in Locks \ cpu.held
  <2>1. cpu.held \subseteq AppLocks
    BY <1>1 DEF Context
  <2> QED
    BY <1>1, <1>3, <2>1, ConstantsAssumption DEF Coherent, LockOf, Locks
<1> QED
  BY <1>1, <1>2, <1>3

\* Interrupts are on only outside every lock.
LEMMA MieMeansFree ==
    ASSUME SchedInv, cpu.mie
    PROVE  Holds(cpu) = {} /\ cpu.step # "wake" /\ cpu.step # "halt" /\ preempt_count = 0
<1>1. /\ cpu.mie <=> preempt_count = 0 /\ cpu.step # "halt"
      /\ preempt_count = Cardinality(Holds(cpu)) + (IF cpu.step = "wake" THEN 1 ELSE 0)
  BY DEF SchedInv, LockDiscipline
<1>2. IsFiniteSet(Holds(cpu))
  BY HoldsFacts, FS_AddElement, FS_EmptySet, ZenonT(60) DEF Holds
<1>3. Cardinality(Holds(cpu)) \in Nat
  BY <1>2, FS_CardinalityType
<1> QED
  BY <1>1, <1>2, <1>3, FS_EmptySet

LEMMA SpinCheckInv == ASSUME SchedInv, SpinCheck, UNCHANGED semVars PROVE SchedInv'
<1> USE DEF semVars
<1>1. cpu' = [cpu EXCEPT !.step = "try"] /\ cpu.step = "check"
  BY DEF SpinCheck
<1>2. cpu' \in Context /\ Coherent(cpu')
  BY <1>1, HoldsFacts DEF Context, Steps, Coherent, YieldingCalls
<1>3. Holds(cpu') = Holds(cpu)
  BY <1>1, HoldsFacts DEF Context, Holds
<1>4. cpu.op \notin {"idle", "start"}
  BY <1>1, HoldsFacts DEF Coherent
<1>5. current # NoThread \/ cpu'.op \in {"user", "create", "set_priority"}
  BY <1>1, <1>4, HoldsFacts DEF Context, SchedInv, IdleInv
<1> QED
  BY <1>1, <1>2, <1>3, <1>4, <1>5, HoldsFacts, CpuOnly
     DEF SpinCheck, Context, SchedInv, TypeOK

LEMMA SpinTryInv == ASSUME SchedInv, SpinTry, UNCHANGED semVars PROVE SchedInv'
<1> USE DEF semVars
<1> DEFINE l == LockOf(cpu)
<1>1. cpu \in Context /\ Coherent(cpu) /\ cpu.step = "try" /\ l \in Locks \ cpu.held
  BY HoldsFacts DEF SpinTry
<1>2. Holds(cpu) = cpu.held
  BY <1>1 DEF Holds
<1>3. cpu.op \notin {"idle", "start", "user"}
  BY <1>1 DEF Coherent
<1>4. lock[l] = 0 /\ lock[l] # 1
  BY <1>1, <1>2 DEF SchedInv, LockDiscipline, TypeOK
<1>5. /\ lock' = [lock EXCEPT ![l] = 1]
      /\ preempt_count' = preempt_count + 1
      /\ cpu' = IF cpu.op = "spin_lock"
                  THEN [ToUser([cpu EXCEPT !.mie = FALSE]) EXCEPT !.held = @ \cup {l}]
                  ELSE [[cpu EXCEPT !.mie = FALSE] EXCEPT !.step = "crit"]
      /\ UNCHANGED <<thread_list, state, priority, sleep_time, current, ctx>>
  BY <1>4, Zenon DEF SpinTry, PreemptDisable
<1> DEFINE Inside ==
      /\ cpu' \in Context /\ Coherent(cpu') /\ Holds(cpu') = cpu.held \cup {l}
      /\ ~cpu'.mie /\ cpu'.step \in {"user", "crit"} /\ cpu'.op \in {"user", cpu.op}
<1>6. ASSUME cpu.op = "spin_lock" PROVE Inside
  <2>1. /\ cpu'.held = cpu.held \cup {l} /\ ~cpu'.mie /\ cpu'.step = "user"
        /\ cpu'.op = "user" /\ ~cpu'.yields /\ cpu'.arg = NoThread
        /\ l \in AppLocks
    BY <1>1, <1>5, <1>6 DEF ToUser, Context, Coherent, LockOf
  <2>2. cpu' \in Context
    BY <1>1, <1>5, <1>6, <2>1 DEF ToUser, Context, Steps
  <2>3. Coherent(cpu')
    BY <2>1 DEF Coherent, YieldingCalls
  <2> QED
    BY <2>1, <2>2, <2>3 DEF Holds
<1>7. ASSUME cpu.op # "spin_lock" PROVE Inside
  <2>1. /\ cpu'.held = cpu.held /\ ~cpu'.mie /\ cpu'.step = "crit"
        /\ cpu'.op = cpu.op /\ cpu'.yields = cpu.yields /\ cpu'.arg = cpu.arg
    BY <1>1, <1>5, <1>7 DEF Context
  <2>2. cpu' \in Context
    BY <1>1, <1>5, <1>7 DEF Context, Steps
  <2>3. Coherent(cpu')
    BY <1>1, <1>7, <2>1 DEF Coherent, YieldingCalls
  <2>4. Holds(cpu') = cpu.held \cup {l}
    BY <2>1 DEF Holds, LockOf
  <2> QED
    BY <2>1, <2>2, <2>3, <2>4
<1>8. Inside
  BY <1>6, <1>7
<1> HIDE DEF l
<1>9. TypeOK'
  BY <1>1, <1>5, <1>8 DEF SchedInv, TypeOK
<1>10. LockDiscipline'
  <2>0. Cardinality(cpu.held) \in Nat
    BY HoldsFacts, FS_CardinalityType
  <2>1. preempt_count = Cardinality(cpu.held) /\ preempt_count \in Nat
    BY <2>0, <1>1, <1>2 DEF SchedInv, LockDiscipline, TypeOK
  <2>2. Cardinality(cpu.held \cup {l}) = Cardinality(cpu.held) + 1
    BY <1>1, HoldsFacts, FS_AddElement
  <2>3. preempt_count' = Cardinality(Holds(cpu'))
                         + (IF cpu'.step = "wake" THEN 1 ELSE 0)
    <3>1. Holds(cpu') = cpu.held \cup {l} /\ cpu'.step # "wake"
      BY <1>8
    <3> QED
      BY <3>1, <2>0, <2>1, <2>2, <1>5
  <2>4. cpu'.mie <=> preempt_count' = 0 /\ cpu'.step # "halt"
    BY <2>1, <1>5, <1>8
  <2>5. \A k \in Locks : lock'[k] = 1 <=> k \in Holds(cpu')
    BY <1>1, <1>2, <1>5, <1>8 DEF SchedInv, LockDiscipline, TypeOK
  <2> QED
    BY <2>3, <2>4, <2>5 DEF LockDiscipline
<1>11. IdleInv'
  BY <1>3, <1>5, <1>8 DEF SchedInv, IdleInv, CanRun
<1>12. RunningInv' /\ ThreadContexts' /\ \A t \in AllThreads : Parked(ctx'[t])
  BY <1>5 DEF SchedInv, RunningInv, ThreadContexts
<1> QED
  BY <1>8, <1>9, <1>10, <1>11, <1>12 DEF SchedInv

LEMMA SpinUnlockInv == ASSUME SchedInv, SpinUnlock, UNCHANGED semVars PROVE SchedInv'
<1> USE DEF semVars
<1> DEFINE l == LockOf(cpu)
           c == IF cpu.yields THEN [cpu EXCEPT !.step = "yield"] ELSE ToUser(cpu)
<1>1. cpu \in Context /\ Coherent(cpu) /\ cpu.step = "unlock" /\ l \in Locks \ cpu.held
  BY HoldsFacts DEF SpinUnlock
<1>2. Holds(cpu) = cpu.held \cup {l}
  BY <1>1 DEF Holds
<1>3. cpu.op \notin {"idle", "start", "user"}
  BY <1>1 DEF Coherent
<1>4. /\ lock' = [lock EXCEPT ![l] = 0]
      /\ preempt_count' = preempt_count - 1
      /\ cpu' = [c EXCEPT !.mie = c.mie \/ preempt_count' = 0]
      /\ UNCHANGED <<thread_list, state, priority, sleep_time, current, ctx>>
  BY DEF SpinUnlock, Release, EnableAt
<1>5. /\ c \in Context /\ c.held = cpu.held /\ c.mie = cpu.mie
      /\ c.step \in {"yield", "user"} /\ c.op \in {"user", cpu.op}
  BY <1>1 DEF Context, Steps, ToUser
<1>6. Coherent(c)
  <2>1. CASE cpu.yields
    <3>1. /\ c.op = cpu.op /\ c.step = "yield" /\ c.held = cpu.held
          /\ c.arg = cpu.arg /\ c.yields
      BY <1>1, <2>1 DEF Context
    <3> QED
      BY <1>1, <2>1, <3>1 DEF Coherent, YieldingCalls
  <2>2. CASE ~cpu.yields
    <3>1. /\ c.op = "user" /\ c.step = "user" /\ c.held = cpu.held /\ ~c.yields
          /\ c.arg = NoThread
      BY <1>1, <2>2 DEF Context, ToUser
    <3> QED
      BY <3>1 DEF Coherent, YieldingCalls
  <2> QED
    BY <2>1, <2>2
<1> HIDE DEF c
<1>7. /\ cpu' \in Context /\ cpu'.held = c.held /\ cpu'.step = c.step
      /\ cpu'.op = c.op /\ cpu'.arg = c.arg /\ cpu'.yields = c.yields
      /\ cpu'.mie = (c.mie \/ preempt_count' = 0)
  BY <1>4, <1>5 DEF Context
<1>8. Coherent(cpu')
  BY <1>6, <1>7 DEF Coherent
<1>9. Holds(cpu') = cpu.held
  BY <1>5, <1>7 DEF Holds
<1> HIDE DEF l
<1>10. preempt_count' = Cardinality(cpu.held) /\ preempt_count' \in Nat /\ ~cpu.mie
  <2>1. Cardinality(cpu.held \cup {l}) = Cardinality(cpu.held) + 1
    BY <1>1, HoldsFacts, FS_AddElement
  <2>2. Cardinality(cpu.held) \in Nat
    BY HoldsFacts, FS_CardinalityType
  <2>3. preempt_count = Cardinality(cpu.held) + 1
    BY <1>1, <1>2, <2>1, <2>2 DEF SchedInv, LockDiscipline
  <2>4. cpu.mie <=> preempt_count = 0 /\ cpu.step # "halt"
    BY DEF SchedInv, LockDiscipline
  <2> QED
    BY <2>2, <2>3, <2>4, <1>4
<1>11. TypeOK'
  BY <1>1, <1>4, <1>7, <1>10 DEF SchedInv, TypeOK
<1>12. LockDiscipline'
  <2>1. \A k \in Locks : lock'[k] = 1 <=> k \in Holds(cpu')
    BY <1>1, <1>2, <1>4, <1>9 DEF SchedInv, LockDiscipline, TypeOK
  <2>2. cpu'.mie <=> preempt_count' = 0 /\ cpu'.step # "halt"
    BY <1>5, <1>7, <1>10
  <2>3. preempt_count' = Cardinality(Holds(cpu'))
                         + (IF cpu'.step = "wake" THEN 1 ELSE 0)
    BY <1>5, <1>7, <1>9, <1>10
  <2> QED
    BY <2>1, <2>2, <2>3 DEF LockDiscipline
<1>13. IdleInv'
  BY <1>3, <1>4, <1>5, <1>7 DEF SchedInv, IdleInv, CanRun
<1>14. RunningInv' /\ ThreadContexts' /\ \A t \in AllThreads : Parked(ctx'[t])
  BY <1>4 DEF SchedInv, RunningInv, ThreadContexts
<1> QED
  BY <1>8, <1>11, <1>12, <1>13, <1>14 DEF SchedInv

-----------------------------------------------------------------------------
(* The critical sections.                                                  *)

\* A critical section moves on to its spin_unlock; the locks stay as they are.
LEMMA BodyFacts ==
    ASSUME SchedInv, cpu.step = "crit",
           NEW y \in BOOLEAN, y => cpu.op \in {"sem_wait", "sem_post", "exit"},
           ~y => cpu.op \notin {"sem_post", "exit"},
           cpu' = [cpu EXCEPT !.step = "unlock", !.yields = y],
           UNCHANGED <<lock, preempt_count>>
    PROVE  /\ cpu' \in Context /\ Coherent(cpu') /\ LockDiscipline'
           /\ cpu'.op = cpu.op /\ cpu.op \notin {"user", "idle", "start"}
           /\ current # Idle
           /\ cpu.op \in {"sem_wait", "sem_post", "exit"} => current \in Threads
<1>1. cpu \in Context /\ Coherent(cpu)
  BY HoldsFacts
<1>2. /\ cpu'.op = cpu.op /\ cpu'.step = "unlock" /\ cpu'.arg = cpu.arg
      /\ cpu'.held = cpu.held /\ cpu'.yields = y /\ cpu'.mie = cpu.mie
  BY <1>1 DEF Context
<1>3. cpu' \in Context
  BY <1>1 DEF Context, Steps
<1>4. Coherent(cpu')
  BY <1>1, <1>2 DEF Coherent
<1>5. Holds(cpu') = Holds(cpu)
  BY <1>2 DEF Holds, LockOf
<1>6. LockDiscipline'
  BY <1>2, <1>5 DEF SchedInv, LockDiscipline
<1>7. cpu.op \notin {"user", "idle", "start"}
  BY <1>1 DEF Coherent
<1>8. current # Idle
  BY <1>7, ConstantsAssumption DEF SchedInv, IdleInv, AllThreads
<1>9. cpu.op \in {"sem_wait", "sem_post", "exit"} => current \in Threads
  BY <1>8 DEF SchedInv, IdleInv, TypeOK, AllThreads
<1> QED
  BY <1>2, <1>3, <1>4, <1>6, <1>7, <1>8, <1>9

LEMMA CreateBodyInv == ASSUME SchedInv, CreateBody, UNCHANGED semVars PROVE SchedInv'
<1> USE DEF semVars
<1>1. cpu.step = "crit" /\ cpu.op = "create" /\ cpu.arg \in Threads
  BY HoldsFacts DEF CreateBody, Coherent
<1>2. cpu' = [cpu EXCEPT !.step = "unlock", !.yields = FALSE]
  BY <1>1, HoldsFacts DEF CreateBody, Coherent, Context
<1>3. /\ cpu' \in Context /\ Coherent(cpu') /\ LockDiscipline'
      /\ cpu'.op = "create" /\ current # Idle
  BY <1>1, <1>2, BodyFacts DEF CreateBody
<1>4. TypeOK'
  BY <1>1, <1>3 DEF CreateBody, SchedInv, TypeOK, AllThreads
<1>5. Elements(thread_list) \subseteq Elements(thread_list')
  <2>1. thread_list \in Seq(AllThreads) /\ thread_list' = Append(thread_list, cpu.arg)
    BY DEF CreateBody, SchedInv, TypeOK
  <2> QED
    BY <2>1, AppendElements
<1>6. IdleInv'
  BY <1>1, <1>3, <1>5 DEF CreateBody, SchedInv, IdleInv, CanRun
<1>7. RunningInv' /\ ThreadContexts' /\ \A t \in AllThreads : Parked(ctx'[t])
  BY DEF CreateBody, SchedInv, RunningInv, ThreadContexts
<1> QED
  BY <1>3, <1>4, <1>6, <1>7 DEF SchedInv

LEMMA DestroyBodyInv == ASSUME SchedInv, DestroyBody, UNCHANGED semVars PROVE SchedInv'
<1> USE DEF semVars
<1>1. cpu.step = "crit" /\ cpu.op = "destroy" /\ cpu.arg \in Threads
  BY HoldsFacts DEF DestroyBody, Coherent
<1>2. cpu' = [cpu EXCEPT !.step = "unlock", !.yields = FALSE]
  BY <1>1, HoldsFacts DEF DestroyBody, Coherent, Context
<1>3. /\ cpu' \in Context /\ Coherent(cpu') /\ LockDiscipline'
      /\ cpu'.op = "destroy" /\ current # Idle
  BY <1>1, <1>2, BodyFacts DEF DestroyBody
<1>4. TypeOK'
  BY <1>1, <1>3 DEF DestroyBody, SchedInv, TypeOK
<1>5. state'[Idle] = state[Idle]
  BY <1>1, ConstantsAssumption DEF DestroyBody, SchedInv, TypeOK, AllThreads
<1>6. IdleInv'
  BY <1>1, <1>3, <1>5 DEF DestroyBody, SchedInv, IdleInv, CanRun
<1>7. RunningInv' /\ ThreadContexts' /\ \A t \in AllThreads : Parked(ctx'[t])
  BY DEF DestroyBody, SchedInv, RunningInv, ThreadContexts, TypeOK
<1> QED
  BY <1>3, <1>4, <1>6, <1>7 DEF SchedInv

LEMMA ExitBodyInv == ASSUME SchedInv, ExitBody, UNCHANGED semVars PROVE SchedInv'
<1> USE DEF semVars
<1>1. cpu.step = "crit" /\ cpu.op = "exit" /\ cpu.yields \in BOOLEAN /\ cpu.yields
  BY HoldsFacts DEF ExitBody, Context, Coherent
<1>2. cpu' = [cpu EXCEPT !.step = "unlock", !.yields = cpu.yields]
  BY <1>1, HoldsFacts DEF ExitBody, Context
<1>3. /\ cpu' \in Context /\ Coherent(cpu') /\ LockDiscipline'
      /\ cpu'.op = "exit" /\ current # Idle /\ current \in Threads
  BY <1>1, <1>2, BodyFacts DEF ExitBody
<1>4. TypeOK'
  BY <1>1, <1>3 DEF ExitBody, SchedInv, TypeOK
<1>5. state'[Idle] = state[Idle]
  BY <1>3 DEF ExitBody, SchedInv, TypeOK, AllThreads
<1>6. IdleInv'
  BY <1>1, <1>3, <1>5 DEF ExitBody, SchedInv, IdleInv, CanRun
<1>7. RunningInv' /\ ThreadContexts' /\ \A t \in AllThreads : Parked(ctx'[t])
  BY DEF ExitBody, SchedInv, RunningInv, ThreadContexts, TypeOK
<1> QED
  BY <1>3, <1>4, <1>6, <1>7 DEF SchedInv

LEMMA SemWaitBodyInv == ASSUME SchedInv, SemWaitBody PROVE SchedInv'
<1> DEFINE s == cpu.arg
<1>1. cpu.step = "crit" /\ cpu.op = "sem_wait" /\ s \in Sems
  BY HoldsFacts DEF SemWaitBody, Coherent
<1>2. UNCHANGED <<thread_list, priority, sleep_time, current, ctx, lock, preempt_count>>
  BY DEF SemWaitBody
<1>3. PICK y \in BOOLEAN : cpu' = [cpu EXCEPT !.step = "unlock", !.yields = y]
  BY DEF SemWaitBody
<1>4. /\ cpu' \in Context /\ Coherent(cpu') /\ LockDiscipline'
      /\ cpu'.op = "sem_wait" /\ current # Idle /\ current \in Threads
  BY <1>1, <1>2, <1>3, BodyFacts
<1>5. TypeOK /\ count[s] \in Nat
  BY <1>1 DEF SchedInv, TypeOK
<1>6. /\ state' \in [AllThreads -> States]
      /\ state'[Idle] = state[Idle]
      /\ \A t \in AllThreads : state'[t] = "RUNNING" => state[t] = "RUNNING"
  BY <1>4, <1>5 DEF SemWaitBody, TypeOK, AllThreads, States
<1>7. count' \in [Sems -> Nat]
  <2>1. count' = count \/ (count[s] > 0 /\ count' = [count EXCEPT ![s] = count[s] - 1])
    BY DEF SemWaitBody
  <2>2. count \in [Sems -> Nat]
    BY <1>5 DEF TypeOK
  <2> HIDE DEF s
  <2>3. CASE count[s] > 0 /\ count' = [count EXCEPT ![s] = count[s] - 1]
    <3>1. count[s] - 1 \in Nat
      BY <1>5, <2>3
    <3> QED
      BY <2>2, <2>3, <3>1
  <2> QED
    BY <2>1, <2>2, <2>3
<1>8. wait_list' \in [Sems -> Seq(Threads)]
  <2>1. wait_list[s] \in Seq(Threads)
    BY <1>1, <1>5 DEF TypeOK
  <2>2. Append(wait_list[s], current) \in Seq(Threads)
    BY <2>1, <1>4
  <2>3. current \in Elements(wait_list[s]) => ListDel(wait_list[s], current) \in Seq(Threads)
    BY <2>1, ListDelFacts
  <2>4. \/ wait_list' = wait_list
        \/ wait_list' = [wait_list EXCEPT ![s] = Append(wait_list[s], current)]
        \/ /\ current \in Elements(wait_list[s])
           /\ wait_list' = [wait_list EXCEPT ![s] = ListDel(wait_list[s], current)]
    BY DEF SemWaitBody
  <2> QED
    BY <1>5, <2>2, <2>3, <2>4 DEF TypeOK
<1>9. TypeOK'
  BY <1>2, <1>4, <1>5, <1>6, <1>7, <1>8 DEF TypeOK, States
<1>10. IdleInv'
  BY <1>1, <1>2, <1>4, <1>6 DEF SchedInv, IdleInv, CanRun
<1>11. RunningInv' /\ ThreadContexts' /\ \A t \in AllThreads : Parked(ctx'[t])
  BY <1>2, <1>6 DEF SchedInv, RunningInv, ThreadContexts
<1> QED
  BY <1>4, <1>9, <1>10, <1>11 DEF SchedInv

LEMMA SemPostBodyInv == ASSUME SchedInv, SemPostBody PROVE SchedInv'
<1> DEFINE s == cpu.arg
           q == wait_list[s]
<1>1. cpu.step = "crit" /\ cpu.op = "sem_post" /\ s \in Sems /\ cpu.yields \in BOOLEAN /\ cpu.yields
  BY HoldsFacts DEF SemPostBody, Coherent, Context
<1>2. UNCHANGED <<thread_list, priority, sleep_time, current, ctx, lock, preempt_count>>
  BY DEF SemPostBody
<1>3. cpu' = [cpu EXCEPT !.step = "unlock", !.yields = cpu.yields]
  BY HoldsFacts DEF SemPostBody, Context
<1>4. /\ cpu' \in Context /\ Coherent(cpu') /\ LockDiscipline'
      /\ cpu'.op = "sem_post" /\ current # Idle
  BY <1>1, <1>2, <1>3, BodyFacts
<1>5. TypeOK /\ count[s] \in Nat /\ q \in Seq(Threads)
  BY <1>1 DEF SchedInv, TypeOK
<1>6. \/ UNCHANGED <<state, wait_list>>
      \/ \E i \in DOMAIN q :
            /\ state' = [state EXCEPT ![q[i]] = "RUNNABLE"]
            /\ wait_list' = [wait_list EXCEPT ![s] = ListDel(q, q[i])]
  BY DEF SemPostBody, WakeBest
<1>7. \A i \in DOMAIN q : q[i] \in Threads /\ ListDel(q, q[i]) \in Seq(Threads)
  <2>1. \A i \in DOMAIN q : q[i] \in Threads /\ q[i] \in Elements(q)
    BY <1>5 DEF Elements
  <2> QED
    BY <2>1, <1>5, ListDelFacts
<1> HIDE DEF q
<1>8. /\ state' \in [AllThreads -> States]
      /\ CanRun(state, Idle) => CanRun(state', Idle) /\ state'[Idle] = state[Idle]
      /\ \A t \in AllThreads : state'[t] = "RUNNING" => state[t] = "RUNNING"
  <2>1. state' = state \/ \E u \in Threads : state' = [state EXCEPT ![u] = "RUNNABLE"]
    BY <1>6, <1>7
  <2> QED
    BY <2>1, <1>5, ConstantsAssumption DEF TypeOK, AllThreads, States, CanRun
<1>9. count' \in [Sems -> Nat] /\ wait_list' \in [Sems -> Seq(Threads)]
  <2>1. count' \in [Sems -> Nat]
    BY <1>1, <1>5 DEF SemPostBody, TypeOK
  <2>2. wait_list' \in [Sems -> Seq(Threads)]
    BY <1>1, <1>5, <1>6, <1>7, ZenonT(60) DEF TypeOK
  <2> QED
    BY <2>1, <2>2
<1>10. TypeOK'
  BY <1>2, <1>4, <1>5, <1>8, <1>9 DEF TypeOK, States
<1>11. IdleInv'
  BY <1>1, <1>2, <1>4, <1>8 DEF SchedInv, IdleInv
<1>12. RunningInv' /\ ThreadContexts' /\ \A t \in AllThreads : Parked(ctx'[t])
  BY <1>2, <1>8 DEF SchedInv, RunningInv, ThreadContexts
<1> QED
  BY <1>4, <1>10, <1>11, <1>12 DEF SchedInv

-----------------------------------------------------------------------------
(* sched_msleep, thread_create and sched_start.                            *)

LEMMA MsleepBlockInv == ASSUME SchedInv, MsleepBlock, UNCHANGED semVars PROVE SchedInv'
<1> USE ConstantsAssumption DEF semVars
<1>1. /\ cpu \in Context /\ Coherent(cpu) /\ cpu.step = "sleep" /\ cpu.op = "msleep"
      /\ cpu.arg \in SleepTimes /\ cpu.held = {} /\ ~cpu.yields
  BY HoldsFacts DEF MsleepBlock, Coherent, YieldingCalls, Context
<1>2. current \in Threads
  BY <1>1 DEF SchedInv, IdleInv, TypeOK, AllThreads
<1>3. /\ cpu'.op = "msleep" /\ cpu'.step = "wake" /\ cpu'.arg = cpu.arg
      /\ cpu'.held = {} /\ ~cpu'.yields /\ ~cpu'.mie
  BY <1>1 DEF MsleepBlock, Context
<1>4. cpu' \in Context
  BY <1>1 DEF MsleepBlock, Context, Steps
<1>5. Coherent(cpu')
  BY <1>3 DEF Coherent, YieldingCalls
<1>6. Holds(cpu) = {} /\ Holds(cpu') = {}
  BY <1>1, <1>3 DEF Holds
<1>7. preempt_count = 0
  BY <1>1, <1>6, FS_EmptySet DEF SchedInv, LockDiscipline
<1>8. LockDiscipline'
  <2>1. preempt_count' = 1 /\ Cardinality({}) = 0
    BY <1>7, FS_EmptySet DEF MsleepBlock, PreemptDisable
  <2>2. lock' = lock /\ \A l \in Locks : lock[l] = 1 <=> l \in Holds(cpu)
    BY DEF MsleepBlock, SchedInv, LockDiscipline
  <2> QED
    BY <2>1, <2>2, <1>3, <1>6 DEF LockDiscipline
<1>9. SleepTicks(cpu.arg) \in Nat
  <2>1. cpu.arg \in Nat /\ TickHz \in Nat
    BY <1>1
  <2>2. cpu.arg * TickHz \in Nat
    BY <2>1
  <2>3. (cpu.arg * TickHz) \div 1000 \in Nat
    BY <2>2
  <2> QED
    BY <2>3 DEF SleepTicks
<1>10. TypeOK'
  BY <1>2, <1>4, <1>7, <1>9 DEF MsleepBlock, PreemptDisable, SchedInv, TypeOK, AllThreads
<1>11. /\ state'[Idle] = state[Idle]
       /\ \A t \in AllThreads : state'[t] = "RUNNING" => state[t] = "RUNNING"
  BY <1>2 DEF MsleepBlock, SchedInv, TypeOK, AllThreads
<1>12. IdleInv'
  BY <1>1, <1>2, <1>3, <1>11 DEF MsleepBlock, SchedInv, IdleInv, CanRun
<1>13. RunningInv' /\ ThreadContexts' /\ \A t \in AllThreads : Parked(ctx'[t])
  BY <1>11 DEF MsleepBlock, SchedInv, RunningInv, ThreadContexts
<1> QED
  BY <1>5, <1>8, <1>10, <1>12, <1>13 DEF SchedInv

LEMMA MsleepEnableInv == ASSUME SchedInv, MsleepEnable, UNCHANGED semVars PROVE SchedInv'
<1> USE DEF semVars
<1>1. /\ cpu \in Context /\ Coherent(cpu) /\ cpu.step = "wake" /\ cpu.op = "msleep"
      /\ cpu.held = {} /\ ~cpu.yields
  BY HoldsFacts DEF MsleepEnable, Coherent, YieldingCalls, Context
<1>2. Holds(cpu) = {}
  BY <1>1 DEF Holds
<1>3. preempt_count' = 0
  BY <1>1, <1>2, FS_EmptySet DEF MsleepEnable, SchedInv, LockDiscipline
<1>4. /\ cpu'.op = "msleep" /\ cpu'.step = "yield" /\ cpu'.held = {}
      /\ ~cpu'.yields /\ cpu'.mie
  BY <1>1, <1>3 DEF MsleepEnable, EnableAt, Context
<1>5. cpu' \in Context
  BY <1>1, <1>3 DEF MsleepEnable, EnableAt, Context, Steps
<1>6. Coherent(cpu')
  BY <1>4 DEF Coherent, YieldingCalls
<1>7. Holds(cpu') = {}
  BY <1>4 DEF Holds
<1>8. LockDiscipline'
  BY <1>2, <1>3, <1>4, <1>7, FS_EmptySet DEF MsleepEnable, SchedInv, LockDiscipline
<1>9. TypeOK'
  BY <1>3, <1>5 DEF MsleepEnable, SchedInv, TypeOK
<1>10. IdleInv'
  BY <1>1, <1>4 DEF MsleepEnable, SchedInv, IdleInv, CanRun
<1>11. RunningInv' /\ ThreadContexts' /\ \A t \in AllThreads : Parked(ctx'[t])
  BY DEF MsleepEnable, SchedInv, RunningInv, ThreadContexts
<1> QED
  BY <1>6, <1>8, <1>9, <1>10, <1>11 DEF SchedInv

\* The context a new thread starts with.
LEMMA FreshFacts ==
    /\ FreshContext \in Context /\ Parked(FreshContext) /\ FreshContext.op = "user"
    /\ IdleContext \in Context /\ Parked(IdleContext) /\ IdleContext.op = "idle"
<1>1. FreshContext \in Context /\ FreshContext.op = "user"
  BY DEF FreshContext, Context, Steps
<1>2. Parked(FreshContext)
  BY DEF FreshContext, Parked, Holds, Coherent, YieldingCalls
<1>3. IdleContext \in Context /\ IdleContext.op = "idle"
  BY DEF FreshContext, IdleContext, Context, Steps
<1>4. Parked(IdleContext)
  <2>1. /\ IdleContext.op = "idle" /\ IdleContext.step = "wfi" /\ IdleContext.held = {}
        /\ ~IdleContext.yields /\ IdleContext.mie
    BY DEF FreshContext, IdleContext
  <2> QED
    BY <2>1 DEF Parked, Holds, Coherent, YieldingCalls
<1> QED
  BY <1>1, <1>2, <1>3, <1>4

LEMMA CallCreateInv ==
    ASSUME SchedInv, NEW t \in Threads, CallCreate(t), UNCHANGED semVars
    PROVE  SchedInv'
<1> USE ConstantsAssumption DEF semVars, MayCall, Enter
<1>1. /\ cpu \in Context /\ Coherent(cpu) /\ cpu.step = "user" /\ cpu.op = "user"
  BY HoldsFacts DEF CallCreate, Coherent
<1>2. /\ cpu'.op = "create" /\ cpu'.step = "check" /\ cpu'.arg = t
      /\ cpu'.held = cpu.held /\ ~cpu'.yields /\ cpu'.mie = cpu.mie
  BY <1>1 DEF CallCreate, Context
<1>3. cpu' \in Context
  BY <1>1 DEF CallCreate, Context, Steps, AllCalls, AllThreads
<1>4. Coherent(cpu')
  BY <1>2 DEF Coherent, YieldingCalls
<1>5. Holds(cpu') = Holds(cpu)
  BY <1>1, <1>2 DEF Holds
<1>6. LockDiscipline'
  BY <1>1, <1>2, <1>5 DEF CallCreate, SchedInv, LockDiscipline
<1>7. t \in AllThreads /\ t # Idle
  BY DEF AllThreads
<1>8. TypeOK'
  BY <1>3, <1>7, FreshFacts DEF CallCreate, SchedInv, TypeOK
<1>9. /\ state'[Idle] = state[Idle] /\ priority'[Idle] = priority[Idle]
      /\ ctx'[Idle] = ctx[Idle]
      /\ \A u \in AllThreads : state'[u] = "RUNNING" => state[u] = "RUNNING"
      /\ \A u \in AllThreads : ctx'[u] \in {ctx[u], FreshContext}
  BY <1>7 DEF CallCreate, SchedInv, TypeOK
<1>10. IdleInv'
  BY <1>1, <1>2, <1>9 DEF CallCreate, SchedInv, IdleInv, CanRun
<1>11. RunningInv'
  BY <1>9 DEF CallCreate, SchedInv, RunningInv
<1>12. ThreadContexts' /\ \A u \in AllThreads : Parked(ctx'[u])
  BY <1>9, FreshFacts DEF SchedInv, ThreadContexts, AllThreads
<1> QED
  BY <1>4, <1>6, <1>8, <1>10, <1>11, <1>12 DEF SchedInv

LEMMA SchedStartInv == ASSUME SchedInv, SchedStart, UNCHANGED semVars PROVE SchedInv'
<1> USE ConstantsAssumption DEF semVars, Enter
<1>1. /\ cpu \in Context /\ Coherent(cpu) /\ cpu.step = "user" /\ cpu.op = "user"
      /\ cpu.held = {} /\ ~cpu.yields
  BY HoldsFacts DEF SchedStart, Coherent, Context
<1>2. /\ cpu'.op = "start" /\ cpu'.step \in {"yield", "halt"} /\ cpu'.held = {}
      /\ ~cpu'.yields
      /\ cpu'.step = "yield" => cpu'.mie = cpu.mie
      /\ cpu'.step = "halt" => ~cpu'.mie
  <2>1. CASE cpu' = [cpu EXCEPT !.op = "start", !.step = "yield", !.arg = NoThread,
                                !.yields = FALSE]
    BY <1>1, <2>1 DEF Context
  <2>2. CASE cpu' = [cpu EXCEPT !.op = "start", !.step = "halt", !.mie = FALSE]
    BY <1>1, <2>2 DEF Context
  <2> QED
    BY <2>1, <2>2 DEF SchedStart
<1>3. cpu' \in Context
  BY <1>1, ZenonT(60) DEF SchedStart, Context, Steps
<1>4. Coherent(cpu')
  BY <1>2 DEF Coherent, YieldingCalls
<1>5. Holds(cpu) = {} /\ Holds(cpu') = {}
  BY <1>1, <1>2 DEF Holds
<1>6. LockDiscipline'
  BY <1>1, <1>2, <1>5 DEF SchedStart, SchedInv, LockDiscipline
<1>7. TypeOK /\ Idle \in AllThreads
  BY DEF SchedInv, AllThreads
<1>8. TypeOK'
  BY <1>3, <1>7, FreshFacts DEF SchedStart, TypeOK
<1>9. Elements(thread_list') = Elements(thread_list) \cup {Idle}
  BY <1>7, AppendElements DEF SchedStart, TypeOK
<1>10. /\ state'[Idle] = "RUNNABLE" /\ priority'[Idle] = 0 /\ ctx'[Idle] = IdleContext
       /\ current' = Idle /\ current = NoThread
       /\ \A u \in AllThreads : state'[u] = "RUNNING" => state[u] = "RUNNING"
       /\ \A u \in Threads : ctx'[u] = ctx[u]
  BY <1>7 DEF SchedStart, TypeOK, AllThreads
<1>11. IdleInv'
  BY <1>2, <1>7, <1>9, <1>10 DEF IdleInv, CanRun
<1>12. RunningInv'
  BY <1>7, <1>10 DEF SchedInv, RunningInv
<1>13. ThreadContexts' /\ \A u \in AllThreads : Parked(ctx'[u])
  BY <1>10, FreshFacts DEF SchedInv, ThreadContexts, AllThreads
<1> QED
  BY <1>4, <1>6, <1>8, <1>11, <1>12, <1>13 DEF SchedInv

LEMMA HaltInv ==
    ASSUME SchedInv, SchedStartNoMemory \/ Halted, UNCHANGED semVars
    PROVE  SchedInv'
<1> USE DEF semVars
<1>1. CASE SchedStartNoMemory
  <2>1. /\ cpu \in Context /\ Coherent(cpu) /\ cpu.step = "user" /\ cpu.held = {}
        /\ ~cpu.yields
    BY <1>1, HoldsFacts DEF SchedStartNoMemory, Coherent, Context
  <2>2. /\ cpu'.op = "start" /\ cpu'.step = "halt" /\ cpu'.held = {} /\ ~cpu'.yields
        /\ ~cpu'.mie /\ cpu' \in Context
    BY <1>1, <2>1 DEF SchedStartNoMemory, Context, Steps
  <2>3. Coherent(cpu')
    BY <2>2 DEF Coherent, YieldingCalls
  <2>4. Holds(cpu) = {} /\ Holds(cpu') = {}
    BY <2>1, <2>2 DEF Holds
  <2>5. LockDiscipline'
    BY <1>1, <2>1, <2>2, <2>4 DEF SchedStartNoMemory, SchedInv, LockDiscipline
  <2>6. TypeOK'
    BY <1>1, <2>2 DEF SchedStartNoMemory, SchedInv, TypeOK
  <2>7. IdleInv' /\ RunningInv' /\ ThreadContexts'
    BY <1>1, <2>2 DEF SchedStartNoMemory, SchedInv, IdleInv, RunningInv, ThreadContexts
  <2> QED
    BY <1>1, <2>3, <2>5, <2>6, <2>7 DEF SchedStartNoMemory, SchedInv
<1>2. CASE Halted
  BY <1>2 DEF Halted, coreVars, SchedInv, TypeOK, LockDiscipline, IdleInv, RunningInv,
              ThreadContexts, CanRun
<1> QED
  BY <1>1, <1>2

-----------------------------------------------------------------------------
(* Traps.                                                                  *)

\* A switch from a context c outside every lock, with the states st the
\* handler left.
LEMMA SwitchInv ==
    ASSUME SchedInv, current # NoThread, cpu.mie,
           NEW st \in [AllThreads -> States], CanRun(st, Idle),
           \A t \in AllThreads : st[t] = "RUNNING" => state[t] = "RUNNING",
           cpu.op = "start" => st[Idle] = "RUNNABLE",
           NEW c \in Context, Parked(c),
           c.op \in {"idle", "start"} => c.op = cpu.op,
           cpu.op = "idle" => c = IdleContext,
           SwitchFrom(st, c),
           UNCHANGED <<priority, lock, preempt_count, semVars>>,
           sleep_time' \in [AllThreads -> Nat]
    PROVE  SchedInv'
<1> DEFINE next == NextThread(st)
           saved == SaveContext(st, c)
<1> USE ConstantsAssumption DEF semVars
<1>1. /\ TypeOK /\ current \in AllThreads
      /\ current \in Elements(thread_list) /\ Idle \in Elements(thread_list)
      /\ priority[Idle] = 0 /\ ctx[Idle] = IdleContext
      /\ cpu.op = "start" => current = Idle
      /\ current = Idle => cpu.op \in {"idle", "start"}
      /\ cpu.op = "idle" => current = Idle
      /\ Idle \in AllThreads
  BY DEF SchedInv, TypeOK, IdleInv, AllThreads
<1>2. next \in Elements(thread_list) /\ CanRun(st, next)
  BY <1>1, NextThreadExists
<1>3. Elements(thread_list) \subseteq AllThreads
  BY <1>1 DEF TypeOK, Elements
<1> HIDE DEF next
<1>4. /\ thread_list' = Unlinked(st) /\ state' = Rescheduled(st, next)
      /\ ctx' = saved /\ current' = next /\ cpu' = saved[next]
  BY DEF SwitchFrom, next
<1>5. thread_list' \in Seq(AllThreads) /\ {Idle, next} \subseteq Elements(thread_list')
  <2>1. CASE st[current] = "DEAD"
    <3>1. current # Idle /\ current # next
      BY <1>2, <2>1 DEF CanRun
    <3> QED
      BY <1>1, <1>2, <1>4, <2>1, <3>1, ListDelFacts DEF Unlinked, TypeOK
  <2>2. CASE st[current] # "DEAD"
    BY <1>1, <1>2, <1>4, <2>2 DEF Unlinked, TypeOK
  <2> QED
    BY <2>1, <2>2
<1>6. /\ state' \in [AllThreads -> States] /\ CanRun(state', Idle)
      /\ \A t \in AllThreads : state'[t] = "RUNNING" => t = next
  BY <1>4, <1>1, <1>3, <1>2 DEF Rescheduled, States, CanRun, SchedInv, RunningInv
<1>7. /\ saved \in [AllThreads -> Context]
      /\ \A t \in AllThreads : Parked(saved[t])
      /\ saved[Idle] = IdleContext
      /\ \A t \in Threads : saved[t].op \notin {"idle", "start"}
  <2>1. CASE st[current] \in {"RUNNING", "BLOCK"}
    <3>1. saved = [ctx EXCEPT ![current] = c]
      BY <2>1 DEF SaveContext
    <3>2. cpu.op # "start"
      BY <2>1, <1>1
    <3>3. current = Idle => c = IdleContext
      BY <1>1, <3>2
    <3>4. current \in Threads => c.op \notin {"idle", "start"}
      BY <1>1, <3>2
    <3> QED
      BY <1>1, <3>1, <3>3, <3>4 DEF SchedInv, TypeOK, ThreadContexts, AllThreads
  <2>2. CASE st[current] \notin {"RUNNING", "BLOCK"}
    BY <1>1, <2>2 DEF SaveContext, SchedInv, TypeOK, ThreadContexts
  <2> QED
    BY <2>1, <2>2
<1> HIDE DEF saved
<1>8. /\ cpu' \in Context /\ Parked(cpu')
      /\ next = Idle => cpu' = IdleContext
      /\ next # Idle => cpu'.op \notin {"idle", "start"}
  BY <1>2, <1>3, <1>4, <1>7 DEF AllThreads
<1>9. TypeOK'
  BY <1>1, <1>2, <1>3, <1>4, <1>5, <1>6, <1>7, <1>8 DEF TypeOK, States
<1>10. LockDiscipline'
  <2>1. preempt_count = 0 /\ \A l \in Locks : lock[l] # 1
    BY MieMeansFree DEF SchedInv, LockDiscipline
  <2>2. Holds(cpu') = {} /\ cpu'.mie /\ cpu'.step \notin {"wake", "halt"}
    BY <1>8, FreshFacts DEF Parked, Coherent, IdleContext, FreshContext
  <2> QED
    BY <2>1, <2>2, FS_EmptySet DEF LockDiscipline
<1>11. IdleInv'
  BY <1>1, <1>2, <1>3, <1>4, <1>5, <1>6, <1>7, <1>8, FreshFacts DEF IdleInv
<1>12. RunningInv' /\ ThreadContexts' /\ \A t \in AllThreads : Parked(ctx'[t])
  BY <1>4, <1>6, <1>7 DEF RunningInv, ThreadContexts
<1> QED
  BY <1>8, <1>9, <1>10, <1>11, <1>12 DEF SchedInv, Parked

LEMMA InterruptInv ==
    ASSUME SchedInv, Tick \/ Interrupt, UNCHANGED semVars
    PROVE  SchedInv'
<1>1. /\ TypeOK /\ current # NoThread /\ cpu.mie /\ IdleInv /\ cpu \in Context
  BY DEF Tick, Interrupt, SchedInv, TypeOK
<1>2. Parked(cpu)
  BY <1>1, MieMeansFree DEF SchedInv, Parked
<1>3. cpu.op = "idle" => cpu = IdleContext
  BY <1>1 DEF IdleInv
<1>4. CanRun(state, Idle) /\ (cpu.op = "start" => state[Idle] = "RUNNABLE")
  BY <1>1 DEF IdleInv
<1>5. CASE Tick
  <2>1. Woken \in [AllThreads -> States] /\ sleep_time' \in [AllThreads -> Nat]
    BY <1>1, <1>5 DEF Tick, Woken, Aged, TypeOK, States
  <2>2. \A t \in AllThreads : Woken[t] \in {"RUNNABLE", state[t]}
    BY DEF Woken
  <2>3. CanRun(Woken, Idle) /\ (cpu.op = "start" => Woken[Idle] = "RUNNABLE")
    BY <1>4, <2>2 DEF CanRun, AllThreads
  <2>4. \A t \in AllThreads : Woken[t] = "RUNNING" => state[t] = "RUNNING"
    BY <2>2
  <2>5. SwitchFrom(Woken, cpu) /\ UNCHANGED <<priority, lock, preempt_count, semVars>>
    BY <1>5 DEF Tick
  <2> HIDE DEF Woken
  <2> QED
    BY <1>1, <1>2, <1>3, <2>1, <2>3, <2>4, <2>5, SwitchInv
<1>6. CASE Interrupt
  <2>1. state \in [AllThreads -> States] /\ sleep_time' \in [AllThreads -> Nat]
    BY <1>1, <1>6 DEF Interrupt, TypeOK, States
  <2>2. SwitchFrom(state, cpu) /\ UNCHANGED <<priority, lock, preempt_count, semVars>>
    BY <1>6 DEF Interrupt
  <2> QED
    BY <1>1, <1>2, <1>3, <1>4, <2>1, <2>2, SwitchInv
<1> QED
  BY <1>5, <1>6

LEMMA YieldInv == ASSUME SchedInv, Yield, UNCHANGED semVars PROVE SchedInv'
<1> DEFINE c == AfterEcall(cpu)
<1> USE ConstantsAssumption
<1>1. /\ TypeOK /\ IdleInv /\ cpu \in Context /\ Coherent(cpu) /\ cpu.step = "yield"
      /\ cpu.held = {} /\ cpu.op \in YieldingCalls \cup {"start"}
  BY HoldsFacts DEF Yield, SchedInv, Coherent
<1>2. Holds(cpu) = {}
  BY <1>1 DEF Holds
<1>3. cpu.mie /\ preempt_count = 0
  BY <1>1, <1>2, FS_EmptySet DEF SchedInv, LockDiscipline
<1>4. /\ c \in Context /\ c.held = {} /\ c.mie /\ c.arg \in {cpu.arg, NoThread}
      /\ \/ c.op = "user" /\ c.step = "user" /\ ~c.yields /\ c.arg = NoThread
         \/ /\ c.op = "sem_wait" /\ c.step = "check" /\ c.arg = cpu.arg
            /\ cpu.op = "sem_wait" /\ c.yields
  <2>1. CASE cpu.op = "sem_wait"
    <3>1. c = [cpu EXCEPT !.step = "check"]
      BY <2>1 DEF AfterEcall
    <3> QED
      BY <1>1, <1>3, <2>1, <3>1 DEF Context, Steps, Coherent
  <2>2. CASE cpu.op # "sem_wait"
    <3>1. c = [cpu EXCEPT !.op = "user", !.step = "user", !.arg = NoThread,
                          !.yields = FALSE]
      BY <2>2 DEF AfterEcall, ToUser
    <3> QED
      BY <1>1, <1>3, <2>2, <3>1 DEF Context, Steps
  <2> QED
    BY <2>1, <2>2
<1> HIDE DEF c
<1>5. Coherent(c)
  BY <1>1, <1>4 DEF Coherent, YieldingCalls
<1>6. Holds(c) = {}
  BY <1>4 DEF Holds
<1>7. CASE current = NoThread
  <2>1. cpu.op \notin {"idle", "start"} /\ cpu.op # "sem_wait"
    BY <1>1, <1>7 DEF IdleInv
  <2>2. cpu' = c
    BY <1>7 DEF Yield, c
  <2>3. c.op = "user" /\ c.step = "user"
    BY <1>4, <2>1
  <2> QED
    BY <1>1, <1>2, <1>3, <1>4, <1>5, <1>6, <1>7, <2>1, <2>2, <2>3, CpuOnly
       DEF Yield, TypeOK, semVars
<1>8. CASE current # NoThread
  <2>1. Parked(c)
    BY <1>4, <1>5, <1>6 DEF Parked
  <2>2. CanRun(state, Idle) /\ (cpu.op = "start" => state[Idle] = "RUNNABLE")
    BY <1>1, <1>8 DEF IdleInv
  <2>3. cpu.op # "idle" /\ c.op \notin {"idle", "start"}
    BY <1>1, <1>4 DEF YieldingCalls
  <2>4. state \in [AllThreads -> States] /\ sleep_time' \in [AllThreads -> Nat]
    BY <1>1 DEF Yield, TypeOK, States
  <2>5. SwitchFrom(state, c) /\ UNCHANGED <<priority, lock, preempt_count, semVars>>
    BY <1>8 DEF Yield, c
  <2> QED
    BY <1>3, <1>4, <1>8, <2>1, <2>2, <2>3, <2>4, <2>5, SwitchInv
<1> QED
  BY <1>7, <1>8

-----------------------------------------------------------------------------
(* The invariant is inductive.                                             *)

LEMMA NextInv == ASSUME SchedInv, ~MayYieldHolding, [Next]_vars PROVE SchedInv'
<1>1. CASE CoreStep /\ UNCHANGED semVars
  BY <1>1, YieldInv, SpinCheckInv, SpinTryInv, SpinUnlockInv, CallInv, MsleepBlockInv,
     MsleepEnableInv, CallCreateInv, CreateBodyInv, DestroyBodyInv, ExitBodyInv,
     SchedStartInv, HaltInv
     DEF CoreStep
<1>2. CASE SemStep
  BY <1>2, SemCallInv, SemWaitBodyInv, SemPostBodyInv DEF SemStep
<1>3. CASE (Tick \/ Interrupt) /\ UNCHANGED semVars
  BY <1>3, InterruptInv
<1>4. CASE UNCHANGED vars
  BY <1>4 DEF vars, coreVars, semVars, SchedInv, TypeOK, LockDiscipline, IdleInv,
              RunningInv, ThreadContexts, CanRun
<1> QED
  BY <1>1, <1>2, <1>3, <1>4 DEF Next, Run

\* The invariant holds in every reachable state when clients do not yield
\* inside spinlocks (spinlock.c and thread.c leave that to their callers).
THEOREM Invariance == ASSUME ~MayYieldHolding PROVE Spec => []SchedInv
<1>1. Init => SchedInv
  BY InitInv
<1>2. SchedInv /\ [Next]_vars => SchedInv'
  BY NextInv
<1> QED
  BY <1>1, <1>2, PTL DEF Spec

\* Every variable keeps its type: in particular preempt_count and the semaphore
\* counts never go negative and sched_thread always has a thread to return.
THEOREM TypeCorrect == ASSUME ~MayYieldHolding PROVE Spec => []TypeOK
<1>1. SchedInv => TypeOK
  BY DEF SchedInv
<1> QED
  BY <1>1, Invariance, PTL

\* Lock words, preempt_count and MIE always agree with the running context.
THEOREM LocksDisciplined == ASSUME ~MayYieldHolding PROVE Spec => []LockDiscipline
<1>1. SchedInv => LockDiscipline
  BY DEF SchedInv
<1> QED
  BY <1>1, Invariance, PTL

\* No thread waits for a spinlock: spin_lock never finds the word set.
THEOREM SpinFree == ASSUME ~MayYieldHolding PROVE Spec => []NeverSpins
<1>1. SchedInv => NeverSpins
  <2> SUFFICES ASSUME SchedInv PROVE NeverSpins
    OBVIOUS
  <2>1. \A t \in AllThreads : ctx[t].mie /\ Holds(ctx[t]) = {}
    BY DEF SchedInv, Parked
  <2>2. ASSUME cpu.step \in {"check", "try"} PROVE lock[LockOf(cpu)] = 0
    <3>1. LockOf(cpu) \in Locks \ Holds(cpu)
      BY <2>2, HoldsFacts DEF Holds
    <3> QED
      BY <3>1 DEF SchedInv, LockDiscipline, TypeOK
  <2> QED
    BY <2>1, <2>2 DEF NeverSpins
<1> QED
  BY <1>1, Invariance, PTL

\* Locks are safe: they agree with the running context and nobody spins.
THEOREM LocksStaySafe == ASSUME ~MayYieldHolding PROVE Spec => []LocksSafe
<1>1. LockDiscipline /\ NeverSpins => LocksSafe
  BY DEF LocksSafe
<1> QED
  BY <1>1, LocksDisciplined, SpinFree, PTL

\* "idle thread always runnable" (sched_thread): there is always a next thread.
THEOREM IdleThere == ASSUME ~MayYieldHolding PROVE Spec => []IdleAlwaysRunnable
<1>1. SchedInv => IdleAlwaysRunnable
  BY DEF SchedInv, IdleInv, RunningInv, IdleAlwaysRunnable
<1> QED
  BY <1>1, Invariance, PTL
=============================================================================
