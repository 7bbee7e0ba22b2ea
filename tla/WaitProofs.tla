----------------------------- MODULE WaitProofs -----------------------------
(***************************************************************************)
(* Proofs about who runs and who waits: thread and wait lists stay sound,  *)
(* the thread of the highest priority runs, no wake-up is lost and a       *)
(* switch loses no context.  They build on SchedProofs and are for clients *)
(* that do not yield inside a spinlock and sleep for 0 or at least a whole *)
(* tick (LongSleeps).                                                      *)
(***************************************************************************)
EXTENDS SchedProofs

\* A list without duplicates loses exactly the entry that list_del takes out.
LEMMA ListDelDistinct ==
    ASSUME NEW S, NEW s \in Seq(S), NEW e \in Elements(s),
           \A i, j \in DOMAIN s : s[i] = s[j] => i = j
    PROVE  /\ Elements(ListDel(s, e)) = Elements(s) \ {e}
           /\ \A i, j \in DOMAIN ListDel(s, e) : ListDel(s, e)[i] = ListDel(s, e)[j] => i = j
<1> DEFINE k == CHOOSE i \in DOMAIN s : s[i] = e
           d == [i \in 1 .. Len(s) - 1 |-> IF i < k THEN s[i] ELSE s[i + 1]]
<1>1. k \in 1 .. Len(s) /\ s[k] = e /\ DOMAIN s = 1 .. Len(s) /\ Len(s) \in Nat
  BY DEF Elements
<1>2. ListDel(s, e) = d /\ DOMAIN d = 1 .. Len(s) - 1
  BY DEF ListDel
<1> HIDE DEF k
<1>3. ASSUME NEW i \in 1 .. Len(s) - 1, NEW j \in 1 .. Len(s) - 1, d[i] = d[j]
      PROVE  i = j
  <2>1. \A m \in 1 .. Len(s) - 1 :
           /\ (IF m < k THEN m ELSE m + 1) \in 1 .. Len(s)
           /\ d[m] = s[IF m < k THEN m ELSE m + 1]
    BY <1>1
  <2>2. (IF i < k THEN i ELSE i + 1) = (IF j < k THEN j ELSE j + 1)
    BY <2>1, <1>1, <1>3
  <2> QED
    BY <2>2, <1>1
<1>4. ASSUME NEW i \in 1 .. Len(s) - 1
      PROVE  d[i] # e
  <2>1. (IF i < k THEN i ELSE i + 1) \in 1 .. Len(s) \ {k}
    BY <1>1
  <2>2. d[i] = s[IF i < k THEN i ELSE i + 1]
    BY <1>1
  <2> QED
    BY <2>1, <2>2, <1>1
<1>5. e \notin Elements(d)
  BY <1>2, <1>4 DEF Elements
<1> HIDE DEF d
<1> QED
  BY <1>2, <1>3, <1>5, ListDelFacts

\* list_add_tail of a new entry keeps a list free of duplicates.
LEMMA AppendDistinct ==
    ASSUME NEW S, NEW s \in Seq(S), NEW e \in S, e \notin Elements(s),
           \A i, j \in DOMAIN s : s[i] = s[j] => i = j
    PROVE  \A i, j \in DOMAIN Append(s, e) : Append(s, e)[i] = Append(s, e)[j] => i = j
<1>1. /\ DOMAIN Append(s, e) = 1 .. Len(s) + 1 /\ DOMAIN s = 1 .. Len(s)
      /\ Len(s) \in Nat
      /\ \A i \in 1 .. Len(s) : Append(s, e)[i] = s[i]
      /\ Append(s, e)[Len(s) + 1] = e
  OBVIOUS
<1>2. \A i \in 1 .. Len(s) : s[i] # e
  BY <1>1 DEF Elements
<1>3. \A i \in 1 .. Len(s) + 1 : i \in 1 .. Len(s) \/ i = Len(s) + 1
  BY <1>1
<1> QED
  BY <1>1, <1>2, <1>3

\* sched_thread's scan returns a thread no runnable one is above of.
LEMMA NextThreadHighest ==
    ASSUME TypeOK, current \in Elements(thread_list),
           NEW st, NEW r \in Elements(thread_list), CanRun(st, r)
    PROVE  \A t \in Elements(thread_list) :
              CanRun(st, t) => priority[t] <= priority[NextThread(st)]
<1> DEFINE P(i) == priority[thread_list[i]]
<1>1. \E i \in DOMAIN thread_list : IsNext(st, i)
  BY NextExists
<1>2. PICK n \in DOMAIN thread_list : IsNext(st, n) /\ NextThread(st) = thread_list[n]
  BY <1>1 DEF NextThread
<1>3. \A i \in DOMAIN thread_list : P(i) \in Int
  BY DEF TypeOK
<1> QED
  BY <1>2, <1>3 DEF IsNext, Elements

-----------------------------------------------------------------------------
(* What the invariants say about the running thread.                       *)

\* The running thread is listed; where it executes ordinary code it is RUNNING.
LEMMA CurrentFacts ==
    ASSUME SchedInv, WakeInv, current # NoThread
    PROVE  /\ current \in AllThreads /\ current \in Elements(thread_list)
           /\ state[current] \in {"RUNNABLE", "RUNNING", "BLOCK", "DEAD"}
           /\ cpu.op # "start" /\ cpu.step \notin {"wake", "unlock", "yield"} =>
                 state[current] = "RUNNING"
<1>1. current \in AllThreads /\ current \in Elements(thread_list)
  BY DEF SchedInv, IdleInv, TypeOK
<1>2. state[current] \in {"RUNNABLE", "RUNNING", "BLOCK", "DEAD"}
  BY <1>1 DEF WakeInv, ListInv, Live
<1> QED
  BY <1>1, <1>2 DEF WakeInv, CurrentInv

\* Nobody but a BLOCK thread sleeps or is in a wait list.
LEMMA OnlyBlockedSleep ==
    ASSUME SchedInv, WakeInv, NEW t \in AllThreads, state[t] # "BLOCK"
    PROVE  sleep_time[t] = 0 /\ \A s \in Sems : t \notin Elements(wait_list[s])
<1>1. sleep_time[t] \in Nat
  BY DEF SchedInv, TypeOK
<1>2. ~(sleep_time[t] > 0)
  BY DEF WakeInv, WaitInv
<1>3. \A s \in Sems : t \notin Elements(wait_list[s])
  BY DEF WakeInv, WaitInv
<1> QED
  BY <1>1, <1>2, <1>3

\* Listed threads are threads.
LEMMA ListedThreads ==
    ASSUME TypeOK
    PROVE  /\ Elements(thread_list) \subseteq AllThreads
           /\ \A s \in Sems : Elements(wait_list[s]) \subseteq Threads
BY DEF TypeOK, Elements

LEMMA ThreadsApart ==
    /\ Threads \subseteq AllThreads /\ Idle \in AllThreads /\ Idle \notin Threads
    /\ NoThread \notin AllThreads
BY ConstantsAssumption DEF AllThreads

\* The threads on their way to a token are finitely many.
LEMMA RecheckingFinite == \A s \in Sems : IsFiniteSet(Rechecking(s))
BY ConstantsAssumption, FS_Subset DEF Rechecking

\* No wake-up is lost by a step that takes no token, adds no waiter and turns
\* no thread away from the count.
LEMMA WakeupsKept ==
    ASSUME NoLostWakeup, TypeOK, UNCHANGED semVars,
           \A s \in Sems : Rechecking(s) \subseteq Rechecking(s)'
    PROVE  NoLostWakeup'
<1> SUFFICES ASSUME NEW s \in Sems, wait_list[s] # <<>>
             PROVE  count[s] <= Cardinality(Rechecking(s)')
  BY DEF NoLostWakeup, semVars
<1>1. IsFiniteSet(Rechecking(s)')
  BY ConstantsAssumption, FS_Subset DEF Rechecking
<1>2. Cardinality(Rechecking(s)) <= Cardinality(Rechecking(s)')
  BY <1>1, FS_Subset
<1>3. Cardinality(Rechecking(s)) \in Nat /\ Cardinality(Rechecking(s)') \in Nat
  BY <1>1, RecheckingFinite, FS_CardinalityType
<1> QED
  BY <1>2, <1>3 DEF NoLostWakeup, TypeOK

-----------------------------------------------------------------------------
(* Steps of the running context that leave threads and lists alone.        *)

\* Where the context goes: it does not leave sched_start, sem_wait without a
\* token, or a call that owes a sched_yield.
GoesOn ==
    /\ current # NoThread => (cpu'.op = "start" <=> cpu.op = "start")
    /\ current # NoThread /\ cpu.op \in {"set_priority", "sem_post"} => cpu'.op = cpu.op
    /\ cpu.op = "sem_wait" /\ ~(cpu.step = "unlock" /\ ~cpu.yields) =>
          /\ cpu'.op = "sem_wait" /\ cpu'.arg = cpu.arg
          /\ ~(cpu'.step = "unlock" /\ ~cpu'.yields)

LEMMA ContextsStay ==
    ASSUME SchedInv, GoesOn, UNCHANGED <<state, current, ctx>>
    PROVE  \A t \in AllThreads :
              /\ Saved(t)' = Saved(t)
              /\ ContextOf(t)' = IF t = current /\ cpu'.op # "start" THEN cpu' ELSE ctx[t]
              /\ t # current \/ cpu.op = "start" => ContextOf(t)' = ContextOf(t)
BY ThreadsApart DEF GoesOn, Saved, Live, OnCpu, ContextOf

LEMMA WaitersStay ==
    ASSUME SchedInv, WakeInv, GoesOn, CurrentInv',
           UNCHANGED <<thread_list, state, sleep_time, current, ctx, wait_list>>
    PROVE  WaitInv'
<1>1. ASSUME NEW s \in Sems, NEW t \in Elements(wait_list[s])
      PROVE  ContextOf(t)'.op = "sem_wait" /\ ContextOf(t)'.arg = s
  <2>1. t \in AllThreads /\ state[t] = "BLOCK"
        /\ ContextOf(t).op = "sem_wait" /\ ContextOf(t).arg = s
    BY ThreadsApart, ListedThreads DEF SchedInv, WakeInv, WaitInv
  <2>2. CASE t = current /\ cpu.op # "start"
    <3>1. cpu.op = "sem_wait" /\ cpu.arg = s
      BY <2>1, <2>2 DEF ContextOf, OnCpu
    <3>2. ~(cpu.step = "unlock" /\ ~cpu.yields)
      BY <2>1, <2>2, ThreadsApart DEF WakeInv, CurrentInv
    <3> QED
      BY <2>1, <2>2, <3>1, <3>2, ContextsStay DEF GoesOn
  <2>3. CASE ~(t = current /\ cpu.op # "start")
    BY <2>1, <2>3, ContextsStay
  <2> QED
    BY <2>2, <2>3
<1> QED
  BY <1>1 DEF WakeInv, WaitInv

LEMMA RecheckersStay ==
    ASSUME SchedInv, WakeInv, GoesOn,
           UNCHANGED <<state, current, ctx, semVars>>
    PROVE  NoLostWakeup'
<1> USE DEF semVars
<1>1. ASSUME NEW s \in Sems, NEW t \in Rechecking(s)
      PROVE  t \in Rechecking(s)'
  <2>1. t \in AllThreads /\ t \in Threads
    BY ThreadsApart DEF Rechecking
  <2>2. CASE t = current /\ cpu.op # "start"
    <3>1. ContextOf(t) = cpu
      BY <2>2 DEF ContextOf, OnCpu
    <3>2. ContextOf(t)' = cpu'
      BY <2>1, <2>2, <3>1, ThreadsApart DEF ContextOf, OnCpu, GoesOn
    <3> QED
      BY <2>1, <3>1, <3>2 DEF Rechecking, GoesOn, Live
  <2>3. CASE ~(t = current /\ cpu.op # "start")
    BY <2>1, <2>3, ContextsStay DEF Rechecking, Live
  <2> QED
    BY <2>2, <2>3
<1> QED
  BY <1>1, WakeupsKept DEF WakeInv, SchedInv

LEMMA OwnersStay ==
    ASSUME SchedInv, WakeInv, GoesOn,
           UNCHANGED <<thread_list, state, priority, current, ctx>>,
           Owns(cpu') =>
              \/ Owns(cpu) /\ cpu'.op = cpu.op /\ cpu'.arg = cpu.arg
              \/ /\ Owned(cpu')
                 /\ \A t \in AllThreads : Saved(t) /\ Owns(ctx[t]) => ctx[t].arg # cpu'.arg
    PROVE  OwnerInv'
<1>1. \A t \in AllThreads : Saved(t)' = Saved(t) /\ ctx'[t] = ctx[t]
  BY ContextsStay
<1>2. \A t \in AllThreads : Owned(ctx[t]) => Owned(ctx[t])'
  BY DEF Owned
<1>3. Owns(cpu)' => Owned(cpu)' /\ \A t \in AllThreads : Saved(t) /\ Owns(ctx[t]) => ctx[t].arg # cpu'.arg
  BY DEF WakeInv, OwnerInv, Owns, Owned
<1> HIDE DEF SchedInv, GoesOn
<1> QED
  BY <1>1, <1>2, <1>3 DEF WakeInv, OwnerInv, Owns

\* All of it together.
LEMMA QuietInv ==
    ASSUME SchedInv, WakeInv, GoesOn, CurrentInv',
           UNCHANGED <<thread_list, state, priority, sleep_time, current, ctx, semVars>>,
           Owns(cpu') =>
              \/ Owns(cpu) /\ cpu'.op = cpu.op /\ cpu'.arg = cpu.arg
              \/ /\ Owned(cpu')
                 /\ \A t \in AllThreads : Saved(t) /\ Owns(ctx[t]) => ctx[t].arg # cpu'.arg
    PROVE  WakeInv'
<1>1. ListInv'
  BY DEF WakeInv, ListInv, Live
<1>2. PriorityInv'
  BY DEF WakeInv, PriorityInv, CanRun, GoesOn
<1> QED
  BY <1>1, <1>2, WaitersStay, RecheckersStay, OwnersStay DEF WakeInv, semVars

\* Entering a call, from a thread's own code: the thread is RUNNING.
LEMMA EnterInv ==
    ASSUME SchedInv, WakeInv, cpu.step = "user", cpu'.op # "start",
           UNCHANGED <<thread_list, state, priority, sleep_time, current, ctx, semVars>>,
           Owns(cpu') =>
              /\ Owned(cpu')
              /\ \A t \in AllThreads : Saved(t) /\ Owns(ctx[t]) => ctx[t].arg # cpu'.arg
    PROVE  WakeInv'
<1>1. cpu.op = "user"
  BY DEF SchedInv, Coherent
<1>2. GoesOn
  BY <1>1 DEF GoesOn
<1>3. current # NoThread => state[current] = "RUNNING"
  BY <1>1, CurrentFacts
<1>4. CurrentInv'
  BY <1>3 DEF CurrentInv
<1> QED
  BY <1>2, <1>4, QuietInv

LEMMA CallWake ==
    ASSUME SchedInv, WakeInv, UNCHANGED semVars,
           \/ \E l \in AppLocks : CallSpinLock(l) \/ CallSpinUnlock(l)
           \/ CallYield
           \/ \E time \in SleepTimes : CallMsleep(time)
           \/ CallExit
    PROVE  WakeInv'
<1>0. cpu \in Context
  BY DEF SchedInv, TypeOK
<1>1. /\ cpu.step = "user"
      /\ UNCHANGED <<thread_list, state, priority, sleep_time, current, ctx, semVars>>
  BY Zenon DEF CallSpinLock, CallSpinUnlock, CallYield, CallMsleep, CallExit, MayCall
<1>2. cpu'.op \in {"spin_lock", "spin_unlock", "yield", "msleep", "exit"}
  BY <1>0 DEF CallSpinLock, CallSpinUnlock, CallYield, CallMsleep, CallExit, Enter, Context
<1> QED
  BY <1>1, <1>2, EnterInv DEF Owns

LEMMA SemCallWake ==
    ASSUME SchedInv, WakeInv, \E s \in Sems : CallSemWait(s) \/ CallSemPost(s)
    PROVE  WakeInv'
<1>0. cpu \in Context
  BY DEF SchedInv, TypeOK
<1>1. /\ cpu.step = "user"
      /\ UNCHANGED <<thread_list, state, priority, sleep_time, current, ctx, semVars>>
  BY Zenon DEF CallSemWait, CallSemPost, MayCall
<1>2. cpu'.op \in {"sem_wait", "sem_post"}
  BY <1>0 DEF CallSemWait, CallSemPost, Enter, Context
<1> QED
  BY <1>1, <1>2, EnterInv DEF Owns

\* thread_destroy's owner is the only one.
LEMMA CallDestroyWake ==
    ASSUME SchedInv, WakeInv, UNCHANGED semVars, NEW t \in Threads, CallDestroy(t)
    PROVE  WakeInv'
<1>0. cpu \in Context /\ cpu.op = "user"
  BY DEF SchedInv, TypeOK, CallDestroy, MayCall, Coherent
<1>1. /\ cpu.step = "user"
      /\ UNCHANGED <<thread_list, state, priority, sleep_time, current, ctx, semVars>>
  BY Zenon DEF CallDestroy, MayCall
<1>2. cpu'.op = "destroy" /\ cpu'.arg = t
  BY <1>0 DEF CallDestroy, Enter, Context
<1>3. Owned(cpu')
  <2>1. state[t] = "DEAD" /\ t # current
    BY DEF CallDestroy
  <2>2. t \notin Elements(thread_list)
    BY <2>1 DEF WakeInv, ListInv, Live
  <2> QED
    BY <1>2, <2>1, <2>2 DEF Owned
<1>4. ASSUME NEW u \in AllThreads, Saved(u), Owns(ctx[u])
      PROVE  ctx[u].arg # t
  <2>1. CASE ctx[u].op = "create"
    BY <1>4, <2>1 DEF WakeInv, OwnerInv, Owned, CallDestroy
  <2>2. CASE ctx[u].op = "destroy"
    <3>1. u # current /\ state[u] # "RUNNING"
      BY <1>0, <1>4 DEF Saved, OnCpu, SchedInv, RunningInv
    <3> QED
      BY <1>4, <2>2, <3>1 DEF CallDestroy, Saved, Live
  <2> QED
    BY <1>4, <2>1, <2>2 DEF Owns
<1> QED
  BY <1>1, <1>2, <1>3, <1>4, EnterInv

\* spin_lock and spin_unlock.
LEMMA SpinWake ==
    ASSUME SchedInv, WakeInv, UNCHANGED semVars, SpinCheck \/ SpinTry
    PROVE  WakeInv'
<1>1. /\ cpu \in Context /\ Coherent(cpu) /\ cpu.step \in {"check", "try"}
      /\ UNCHANGED <<thread_list, state, priority, sleep_time, current, ctx, semVars>>
  BY Zenon, HoldsFacts DEF SpinCheck, SpinTry
<1>2. cpu.op \notin {"idle", "start", "user", "set_priority"}
  BY <1>1 DEF Coherent
<1>3. \/ /\ cpu'.op = cpu.op /\ cpu'.arg = cpu.arg /\ cpu'.yields = cpu.yields
         /\ cpu'.step \in {"check", "try", "crit"}
      \/ cpu.op = "spin_lock" /\ cpu'.op = "user" /\ cpu'.step = "user"
  BY <1>1, <1>2, Zenon DEF SpinCheck, SpinTry, EnableAt, ToUser, Context
<1>4. GoesOn
  BY <1>1, <1>2, <1>3 DEF GoesOn
<1>5. CurrentInv'
  BY <1>1, <1>2, CurrentFacts DEF CurrentInv
<1>6. Owns(cpu') => Owns(cpu) /\ cpu'.op = cpu.op /\ cpu'.arg = cpu.arg
  BY <1>1, <1>3 DEF Owns
<1> QED
  BY <1>1, <1>4, <1>5, <1>6, QuietInv

LEMMA SpinUnlockWake ==
    ASSUME SchedInv, WakeInv, UNCHANGED semVars, SpinUnlock
    PROVE  WakeInv'
<1>1. /\ cpu \in Context /\ Coherent(cpu) /\ cpu.step = "unlock"
      /\ UNCHANGED <<thread_list, state, priority, sleep_time, current, ctx, semVars>>
  BY Zenon, HoldsFacts DEF SpinUnlock
<1>2. cpu.op \notin {"idle", "start", "user", "set_priority"}
  BY <1>1 DEF Coherent
<1>3. \/ /\ cpu.yields /\ cpu'.op = cpu.op /\ cpu'.arg = cpu.arg /\ cpu'.step = "yield"
      \/ ~cpu.yields /\ cpu'.op = "user" /\ cpu'.step = "user"
  BY <1>1 DEF SpinUnlock, EnableAt, ToUser, Context
<1>4. GoesOn
  BY <1>1, <1>2, <1>3 DEF GoesOn, Coherent
<1>5. CurrentInv'
  BY <1>1, <1>2, <1>3 DEF WakeInv, CurrentInv, Coherent
<1>6. ~Owns(cpu')
  BY <1>3 DEF Owns
<1> QED
  BY <1>1, <1>4, <1>5, <1>6, QuietInv

LEMMA MsleepEnableWake ==
    ASSUME SchedInv, WakeInv, UNCHANGED semVars, MsleepEnable
    PROVE  WakeInv'
<1>1. /\ cpu \in Context /\ Coherent(cpu) /\ cpu.step = "wake" /\ cpu.op = "msleep"
      /\ UNCHANGED <<thread_list, state, priority, sleep_time, current, ctx, semVars>>
  BY HoldsFacts DEF MsleepEnable, Coherent
<1>2. cpu'.op = "msleep" /\ cpu'.step = "yield"
  BY <1>1 DEF MsleepEnable, EnableAt, Context
<1>3. GoesOn
  BY <1>1, <1>2 DEF GoesOn
<1>4. CurrentInv'
  BY <1>1, <1>2 DEF WakeInv, CurrentInv
<1> QED
  BY <1>1, <1>2, <1>3, <1>4, QuietInv DEF Owns

LEMMA HaltWake ==
    ASSUME SchedInv, WakeInv, UNCHANGED semVars, SchedStartNoMemory \/ Halted
    PROVE  WakeInv'
<1>1. CASE SchedStartNoMemory
  <2>1. /\ cpu \in Context /\ Coherent(cpu) /\ cpu.step = "user" /\ cpu.op = "user"
        /\ current = NoThread
        /\ UNCHANGED <<thread_list, state, priority, sleep_time, current, ctx, semVars>>
    BY <1>1, HoldsFacts DEF SchedStartNoMemory, Coherent
  <2>2. cpu'.op = "start"
    BY <1>1, <2>1 DEF SchedStartNoMemory, Context
  <2>3. GoesOn /\ CurrentInv'
    BY <2>1 DEF GoesOn, CurrentInv
  <2> QED
    BY <2>1, <2>2, <2>3, QuietInv DEF Owns
<1>2. CASE Halted
  <2>1. cpu' = cpu /\ UNCHANGED <<thread_list, state, priority, sleep_time, current, ctx, semVars>>
    BY <1>2 DEF Halted, coreVars
  <2>2. GoesOn /\ CurrentInv'
    BY <2>1 DEF GoesOn, WakeInv, CurrentInv
  <2> QED
    BY <2>1, <2>2, QuietInv
<1> QED
  BY <1>1, <1>2

-----------------------------------------------------------------------------
(* thread_set_priority, thread_create and thread_destroy.                  *)

LEMMA SetPriorityWake ==
    ASSUME SchedInv, WakeInv, UNCHANGED semVars,
           NEW t \in Threads, NEW p \in Priorities, CallSetPriority(t, p)
    PROVE  WakeInv'
<1>1. /\ cpu \in Context /\ cpu.step = "user" /\ cpu.op = "user" /\ TypeOK
      /\ UNCHANGED <<thread_list, state, sleep_time, current, ctx, semVars>>
      /\ priority' = [priority EXCEPT ![t] = p] /\ p > 0 /\ p \in Int
      /\ t \in Elements(thread_list) \/ state[t] = "DEAD"
  BY HoldsFacts, ConstantsAssumption DEF CallSetPriority, MayCall, Coherent, SchedInv
<1>2. cpu'.op = "set_priority" /\ cpu'.step = "yield"
  BY <1>1 DEF CallSetPriority, Enter, Context
<1>3. GoesOn
  BY <1>1, <1>2 DEF GoesOn
<1>4. CurrentInv'
  <2>1. current # NoThread => state[current] = "RUNNING"
    BY <1>1, CurrentFacts
  <2> QED
    BY <1>1, <2>1 DEF CurrentInv
<1>5. ListInv'
  BY <1>1 DEF WakeInv, ListInv, Live
<1>6. PriorityInv'
  BY <1>1, <1>2, ThreadsApart DEF WakeInv, PriorityInv, TypeOK
<1>7. OwnerInv'
  <2>1. ~Owns(cpu')
    BY <1>2 DEF Owns
  <2>2. \A u \in AllThreads : Saved(u)' = Saved(u) /\ ctx'[u] = ctx[u]
    BY <1>1, <1>3, ContextsStay
  <2>3. ASSUME NEW c \in Context, Owns(c), Owned(c)
        PROVE  Owned(c)'
    BY <1>1, <2>3, ThreadsApart DEF Owned, Owns, TypeOK
  <2>4. \A u \in AllThreads : ctx[u] \in Context
    BY <1>1 DEF TypeOK
  <2> QED
    BY <2>1, <2>2, <2>3, <2>4 DEF WakeInv, OwnerInv, Owns
<1> QED
  BY <1>1, <1>3, <1>4, <1>5, <1>6, <1>7, WaitersStay, RecheckersStay DEF WakeInv, semVars

LEMMA CallCreateWake ==
    ASSUME SchedInv, WakeInv, UNCHANGED semVars, NEW t \in Threads, CallCreate(t)
    PROVE  WakeInv'
<1>1. /\ cpu \in Context /\ cpu.step = "user" /\ cpu.op = "user" /\ TypeOK
      /\ UNCHANGED <<thread_list, current, semVars>>
      /\ state[t] = "FREE" /\ state' = [state EXCEPT ![t] = "RUNNABLE"]
      /\ priority' = [priority EXCEPT ![t] = 1]
      /\ sleep_time' = [sleep_time EXCEPT ![t] = 0]
      /\ ctx' = [ctx EXCEPT ![t] = FreshContext]
  BY HoldsFacts DEF CallCreate, MayCall, Coherent, SchedInv
<1>2. cpu'.op = "create" /\ cpu'.arg = t
  BY <1>1 DEF CallCreate, Enter, Context
<1>3. t \in AllThreads /\ t \notin Elements(thread_list) /\ t # current
  BY <1>1, ThreadsApart, CurrentFacts DEF WakeInv, ListInv, Live
<1>4. \A u \in AllThreads \ {t} :
         /\ state'[u] = state[u] /\ priority'[u] = priority[u]
         /\ sleep_time'[u] = sleep_time[u] /\ ctx'[u] = ctx[u]
         /\ Live(u)' = Live(u) /\ OnCpu(u)' = OnCpu(u) /\ Saved(u)' = Saved(u)
  BY <1>1, <1>2, <1>3 DEF TypeOK, Live, OnCpu, Saved
<1>5. /\ state'[t] = "RUNNABLE" /\ priority'[t] = 1 /\ sleep_time'[t] = 0
      /\ ctx'[t].op = "user"
  BY <1>1, <1>3, FreshFacts DEF TypeOK
<1>6. Elements(thread_list) \subseteq AllThreads \ {t}
  BY <1>1, <1>3, ListedThreads
<1>7. ListInv'
  BY <1>1, <1>3, <1>4, <1>6, ThreadsApart DEF WakeInv, ListInv
<1>8. CurrentInv'
  <2>1. current # NoThread => current \in AllThreads \ {t} /\ state[current] = "RUNNING"
    BY <1>1, <1>3, CurrentFacts
  <2> QED
    BY <1>1, <1>4, <2>1 DEF CurrentInv
<1>9. ASSUME NEW s \in Sems, NEW u \in Elements(wait_list[s])
      PROVE  /\ u \in AllThreads \ {t} /\ u # current
             /\ ContextOf(u)' = ContextOf(u)
  <2>1. u \in AllThreads \ {t} /\ state[u] = "BLOCK"
    BY <1>1, <1>6, <1>9 DEF WakeInv, WaitInv
  <2>2. u # current
    BY <2>1, <1>1, ThreadsApart, CurrentFacts
  <2> QED
    BY <1>1, <1>4, <2>1, <2>2 DEF ContextOf, OnCpu
<1>10. WaitInv'
  BY <1>1, <1>4, <1>5, <1>9 DEF WakeInv, WaitInv, semVars
<1>11. OwnerInv'
  <2>1. ~Owns(cpu) /\ ~Owns(ctx'[t]) /\ cpu'.arg = t
    BY <1>1, <1>2, <1>5 DEF Owns
  <2>2. Owned(cpu)'
    BY <1>1, <1>2, <1>3, <1>5 DEF Owned
  <2>3. ASSUME NEW u \in AllThreads \ {t}, Saved(u), Owns(ctx[u])
        PROVE  Owned(ctx[u])' /\ ctx[u].arg # t
    <3>1. Owned(ctx[u]) /\ ctx[u].arg \in Threads
      BY <2>3 DEF WakeInv, OwnerInv, SchedInv, Parked, Coherent, Owns
    <3>2. ctx[u].arg \in AllThreads \ {t}
      BY <1>1, <2>3, <3>1, ThreadsApart DEF Owned, Owns
    <3> QED
      BY <1>1, <1>4, <2>3, <3>1, <3>2 DEF Owned
  <2> QED
    BY <1>4, <2>1, <2>2, <2>3 DEF WakeInv, OwnerInv, Owns
<1>12. PriorityInv'
  <2>1. current # NoThread => current \in AllThreads \ {t}
    BY <1>3, CurrentFacts
  <2> QED
    BY <1>1, <1>2, <1>4, <1>5, <1>6, <2>1, ThreadsApart DEF WakeInv, PriorityInv, CanRun
<1>13. NoLostWakeup'
  <2>1. ASSUME NEW s \in Sems, NEW u \in Rechecking(s)
        PROVE  u \in Rechecking(s)'
    <3>1. u \in AllThreads \ {t} /\ Live(u) /\ ContextOf(u).op = "sem_wait"
      BY <1>1, ThreadsApart DEF Rechecking, Live
    <3>2. u # current
      BY <1>1, <3>1 DEF ContextOf, OnCpu
    <3>3. ContextOf(u)' = ContextOf(u)
      BY <1>1, <1>4, <3>1, <3>2 DEF ContextOf, OnCpu
    <3> QED
      BY <1>1, <1>4, <3>1, <3>3 DEF Rechecking, semVars
  <2> QED
    BY <1>1, <2>1, WakeupsKept DEF WakeInv
<1> QED
  BY <1>7, <1>8, <1>10, <1>11, <1>12, <1>13 DEF WakeInv

LEMMA CreateBodyWake ==
    ASSUME SchedInv, WakeInv, UNCHANGED semVars, CreateBody
    PROVE  WakeInv'
<1> DEFINE t == cpu.arg
<1>1. /\ cpu \in Context /\ cpu.step = "crit" /\ cpu.op = "create" /\ t \in Threads /\ TypeOK
      /\ UNCHANGED <<state, priority, sleep_time, current, ctx, semVars>>
      /\ thread_list' = Append(thread_list, t)
  BY HoldsFacts DEF CreateBody, Coherent, SchedInv
<1>2. cpu'.op = "create" /\ cpu'.step = "unlock"
  BY <1>1 DEF CreateBody, Context
<1>3. /\ t \in AllThreads /\ t \notin Elements(thread_list)
      /\ state[t] = "RUNNABLE" /\ priority[t] = 1
      /\ \A u \in AllThreads : Saved(u) /\ Owns(ctx[u]) => ctx[u].arg # t
  BY <1>1, ThreadsApart DEF WakeInv, OwnerInv, Owns, Owned
<1>4. Elements(thread_list') = Elements(thread_list) \cup {t}
  BY <1>1, AppendElements DEF TypeOK
<1>5. GoesOn
  BY <1>1, <1>2 DEF GoesOn
<1>6. CurrentInv'
  BY <1>1, CurrentFacts DEF CurrentInv
<1>7. ListInv'
  <2>0. thread_list \in Seq(AllThreads)
        /\ \A i, j \in DOMAIN thread_list : thread_list[i] = thread_list[j] => i = j
    BY <1>1 DEF TypeOK, WakeInv, ListInv
  <2>1. \A i, j \in DOMAIN thread_list' : thread_list'[i] = thread_list'[j] => i = j
    <3> HIDE DEF t
    <3>1. \A i, j \in DOMAIN Append(thread_list, t) :
             Append(thread_list, t)[i] = Append(thread_list, t)[j] => i = j
      BY <1>3, <2>0, AppendDistinct
    <3> QED
      BY <1>1, <3>1, Zenon
  <2>2. t # Idle
    BY <1>1, ThreadsApart
  <2> QED
    BY <1>1, <1>3, <1>4, <2>1, <2>2 DEF WakeInv, ListInv, Live
<1>8. WaitInv'
  <2>1. \A u \in AllThreads : u # current => ContextOf(u)' = ContextOf(u)
    BY <1>1, <1>5, ContextsStay
  <2>2. ASSUME NEW s \in Sems, NEW u \in Elements(wait_list[s])
        PROVE  ContextOf(u)' = ContextOf(u)
    <3>1. u \in AllThreads /\ state[u] = "BLOCK"
      BY <1>1, ListedThreads, ThreadsApart DEF WakeInv, WaitInv
    <3>2. u # current
      BY <1>1, <3>1, ThreadsApart, CurrentFacts
    <3> QED
      BY <2>1, <3>1, <3>2
  <2> QED
    BY <1>1, <1>4, <2>2 DEF WakeInv, WaitInv, semVars
<1>9. OwnerInv'
  <2>1. ~Owns(cpu') /\ \A u \in AllThreads : Saved(u)' = Saved(u) /\ ctx'[u] = ctx[u]
    BY <1>1, <1>2, <1>5, ContextsStay DEF Owns
  <2>2. ASSUME NEW u \in AllThreads, Saved(u), Owns(ctx[u])
        PROVE  Owned(ctx[u])'
    BY <1>1, <1>3, <1>4, <2>2 DEF WakeInv, OwnerInv, Owned
  <2> QED
    BY <2>1, <2>2 DEF WakeInv, OwnerInv, Owns
<1>10. PriorityInv'
  <2>1. ASSUME current # NoThread PROVE priority[current] >= 1
    <3>1. current \in Threads /\ state[current] = "RUNNING"
      BY <1>1, <2>1, CurrentFacts DEF AllThreads, SchedInv, IdleInv
    <3> QED
      BY <3>1 DEF WakeInv, PriorityInv
  <2> QED
    BY <1>1, <1>2, <1>3, <1>4, <2>1 DEF WakeInv, PriorityInv, CanRun
<1> QED
  BY <1>1, <1>5, <1>6, <1>7, <1>8, <1>9, <1>10, RecheckersStay DEF WakeInv

LEMMA DestroyBodyWake ==
    ASSUME SchedInv, WakeInv, UNCHANGED semVars, DestroyBody
    PROVE  WakeInv'
<1>0. PICK t \in Threads : t = cpu.arg
  BY HoldsFacts DEF DestroyBody, Coherent, SchedInv
<1>1. /\ cpu \in Context /\ cpu.step = "crit" /\ cpu.op = "destroy" /\ TypeOK
      /\ UNCHANGED <<thread_list, priority, sleep_time, current, ctx, semVars>>
      /\ state' = [state EXCEPT ![t] = "FREE"]
  BY <1>0, HoldsFacts DEF DestroyBody, SchedInv
<1>2. cpu'.op = "destroy" /\ cpu'.step = "unlock"
  BY <1>1 DEF DestroyBody, Context
<1>3. /\ t \in AllThreads /\ t # Idle /\ t \notin Elements(thread_list) /\ state[t] = "DEAD"
      /\ \A u \in AllThreads : Saved(u) /\ Owns(ctx[u]) => ctx[u].arg # t
  BY <1>0, <1>1, ThreadsApart DEF WakeInv, OwnerInv, Owns, Owned
<1>4. current # NoThread => current \in AllThreads \ {t} /\ state[current] = "RUNNING"
  BY <1>1, <1>3, CurrentFacts
<1>5. /\ \A u \in AllThreads \ {t} : state'[u] = state[u] /\ Live(u)' = Live(u)
      /\ state'[t] = "FREE" /\ ~Live(t) /\ ~Live(t)'
  <2>1. state \in [AllThreads -> States]
    BY <1>1 DEF TypeOK, States
  <2>2. state'[t] = "FREE" /\ \A u \in AllThreads \ {t} : state'[u] = state[u]
    BY <1>1, <1>3, <2>1
  <2>3. \A u \in AllThreads \ {t} : Live(u)' = Live(u)
    BY <2>2, Zenon DEF Live
  <2>4. ~Live(t) /\ ~Live(t)'
    BY <1>3, <2>2 DEF Live
  <2> QED
    BY <2>2, <2>3, <2>4
<1>6. \A u \in AllThreads : /\ Saved(u)' = Saved(u) /\ OnCpu(u)' = OnCpu(u)
                            /\ u # current => ContextOf(u)' = ContextOf(u)
  <2>1. \A u \in AllThreads : OnCpu(u)' = OnCpu(u)
    BY <1>1, <1>2 DEF OnCpu
  <2>2. ASSUME NEW u \in AllThreads PROVE Saved(u)' = Saved(u)
    <3>1. CASE u = t
      BY <1>5, <3>1, Zenon DEF Saved
    <3>2. CASE u # t
      BY <1>5, <2>1, <3>2, Zenon DEF Saved
    <3> QED
      BY <3>1, <3>2
  <2> QED
    BY <1>1, <2>1, <2>2 DEF OnCpu, ContextOf
<1>7. ListInv'
  <2>1. Elements(thread_list) \subseteq AllThreads \ {t}
    BY <1>1, <1>3, ListedThreads
  <2> QED
    BY <1>1, <1>3, <1>5, <2>1, ThreadsApart DEF WakeInv, ListInv
<1>8. CurrentInv'
  BY <1>1, <1>4, <1>5 DEF CurrentInv
<1>9. WaitInv'
  <2>1. ASSUME NEW s \in Sems, NEW u \in Elements(wait_list[s])
        PROVE  u \in AllThreads \ {t} /\ ContextOf(u)' = ContextOf(u)
    <3>1. u \in AllThreads \ {t} /\ state[u] = "BLOCK"
      BY <1>1, <1>3, ListedThreads, ThreadsApart DEF WakeInv, WaitInv
    <3> QED
      BY <1>4, <1>6, <3>1, ThreadsApart
  <2>2. sleep_time[t] = 0
    BY <1>1, <1>3, OnlyBlockedSleep
  <2> QED
    BY <1>1, <1>5, <2>1, <2>2 DEF WakeInv, WaitInv, semVars
<1>10. OwnerInv'
  <2>1. ~Owns(cpu')
    BY <1>2 DEF Owns
  <2>2. ASSUME NEW u \in AllThreads, Saved(u), Owns(ctx[u])
        PROVE  Owned(ctx[u])'
    <3>1. Owned(ctx[u]) /\ ctx[u].arg \in Threads /\ ctx[u].arg # t
      BY <1>3, <2>2 DEF WakeInv, OwnerInv, SchedInv, Parked, Coherent, Owns
    <3> QED
      BY <1>1, <1>5, <2>2, <3>1, ThreadsApart DEF Owned
  <2> QED
    BY <1>1, <1>6, <2>1, <2>2 DEF WakeInv, OwnerInv, Owns
<1>11. PriorityInv'
  <2>1. Elements(thread_list) \subseteq AllThreads \ {t}
    BY <1>1, <1>3, ListedThreads
  <2> QED
    BY <1>1, <1>2, <1>4, <1>5, <2>1, ThreadsApart DEF WakeInv, PriorityInv, CanRun
<1>12. NoLostWakeup'
  <2>1. ASSUME NEW s \in Sems, NEW u \in Rechecking(s)
        PROVE  u \in Rechecking(s)'
    <3>1. u \in AllThreads \ {t} /\ Live(u) /\ ContextOf(u).op = "sem_wait"
      BY <1>5, ThreadsApart DEF Rechecking
    <3>2. u # current
      BY <1>1, <3>1 DEF ContextOf, OnCpu
    <3> QED
      BY <1>1, <1>5, <1>6, <3>1, <3>2 DEF Rechecking, semVars
  <2> QED
    BY <1>1, <2>1, WakeupsKept DEF WakeInv
<1> QED
  BY <1>7, <1>8, <1>9, <1>10, <1>11, <1>12 DEF WakeInv

-----------------------------------------------------------------------------
(* The running thread stops running: exit, sleep and wait.                 *)

\* The running thread was RUNNING and becomes st.
LEMMA StopsFacts ==
    ASSUME SchedInv, WakeInv, current \in Threads, state[current] = "RUNNING", cpu.op # "start",
           NEW st, state' = [state EXCEPT ![current] = st],
           UNCHANGED <<thread_list, priority, current, ctx>>, cpu'.op # "start",
           ~Owns(cpu')
    PROVE  /\ state'[current] = st
           /\ \A u \in AllThreads \ {current} :
                 /\ state'[u] = state[u] /\ Live(u)' = Live(u)
                 /\ ContextOf(u)' = ContextOf(u)
           /\ \A u \in AllThreads : Saved(u)' = Saved(u)
           /\ ContextOf(current) = cpu /\ ContextOf(current)' = cpu'
           /\ \A s \in Sems : current \notin Elements(wait_list[s])
           /\ OwnerInv' /\ sleep_time[current] = 0
<1>1. current \in AllThreads /\ TypeOK /\ current # NoThread
  BY ThreadsApart DEF SchedInv
<1>2. /\ state'[current] = st
      /\ \A u \in AllThreads \ {current} : state'[u] = state[u] /\ Live(u)' = Live(u)
  BY <1>1 DEF TypeOK, Live
<1>3. /\ \A u \in AllThreads \ {current} : ContextOf(u)' = ContextOf(u)
      /\ \A u \in AllThreads : Saved(u)' = Saved(u)
      /\ ContextOf(current) = cpu /\ ContextOf(current)' = cpu'
  BY <1>1, <1>2 DEF ContextOf, OnCpu, Saved
<1>4. /\ \A s \in Sems : current \notin Elements(wait_list[s])
      /\ sleep_time[current] = 0
  BY <1>1, OnlyBlockedSleep
<1>5. ASSUME NEW u \in AllThreads, Saved(u), Owns(ctx[u])
      PROVE  Owned(ctx[u])'
  <2>1. Owned(ctx[u]) /\ ctx[u].arg \in AllThreads
    BY <1>5, ThreadsApart DEF WakeInv, OwnerInv, SchedInv, Parked, Coherent, Owns
  <2>2. ctx[u].arg # current
    BY <1>5, <2>1 DEF Owned, Owns
  <2> QED
    BY <1>2, <2>1, <2>2 DEF Owned
<1>6. OwnerInv'
  BY <1>3, <1>5 DEF WakeInv, OwnerInv, Owns
<1> QED
  BY <1>2, <1>3, <1>4, <1>6

LEMMA ExitBodyWake ==
    ASSUME SchedInv, WakeInv, UNCHANGED semVars, ExitBody
    PROVE  WakeInv'
<1>1. /\ cpu \in Context /\ cpu.step = "crit" /\ cpu.op = "exit" /\ TypeOK
      /\ UNCHANGED <<thread_list, priority, sleep_time, current, ctx, semVars>>
      /\ state' = [state EXCEPT ![current] = "DEAD"]
  BY HoldsFacts DEF ExitBody, SchedInv
<1>2. cpu'.op = "exit" /\ cpu'.step = "unlock"
  BY <1>1 DEF ExitBody, Context
<1>3. current \in Threads /\ current # NoThread /\ current \in AllThreads
  BY <1>1, ThreadsApart DEF SchedInv, IdleInv, TypeOK, AllThreads
<1>4. state[current] = "RUNNING"
  BY <1>1, <1>3, CurrentFacts
<1>5. /\ state'[current] = "DEAD"
      /\ \A u \in AllThreads \ {current} :
            /\ state'[u] = state[u] /\ Live(u)' = Live(u)
            /\ ContextOf(u)' = ContextOf(u)
      /\ ContextOf(current) = cpu
      /\ \A s \in Sems : current \notin Elements(wait_list[s])
      /\ OwnerInv' /\ sleep_time[current] = 0
  BY <1>1, <1>2, <1>3, <1>4, StopsFacts DEF Owns
<1>6. /\ Elements(thread_list) \subseteq AllThreads
      /\ \A s \in Sems : Elements(wait_list[s]) \subseteq AllThreads \ {current}
  BY <1>1, <1>5, ListedThreads, ThreadsApart
<1>7. ListInv'
  BY <1>1, <1>3, <1>5, <1>6 DEF WakeInv, ListInv
<1>8. CurrentInv'
  BY <1>1, <1>2, <1>5 DEF CurrentInv
<1>9. WaitInv'
  BY <1>1, <1>5, <1>6 DEF WakeInv, WaitInv, semVars
<1>10. PriorityInv'
  BY <1>1, <1>4, <1>5, <1>6, ThreadsApart DEF WakeInv, PriorityInv, CanRun
<1>11. NoLostWakeup'
  <2>1. ASSUME NEW s \in Sems, NEW u \in Rechecking(s)
        PROVE  u \in Rechecking(s)'
    <3>1. u \in AllThreads \ {current}
      BY <1>1, <1>5, ThreadsApart DEF Rechecking
    <3> QED
      BY <1>1, <1>5, <3>1 DEF Rechecking, semVars
  <2> QED
    BY <1>1, <2>1, WakeupsKept DEF WakeInv
<1> QED
  BY <1>5, <1>7, <1>8, <1>9, <1>10, <1>11 DEF WakeInv

LEMMA MsleepBlockWake ==
    ASSUME SchedInv, WakeInv, LongSleeps, UNCHANGED semVars, MsleepBlock
    PROVE  WakeInv'
<1>1. /\ cpu \in Context /\ cpu.step = "sleep" /\ cpu.op = "msleep" /\ TypeOK
      /\ cpu.arg \in SleepTimes
      /\ UNCHANGED <<thread_list, priority, current, ctx, semVars>>
      /\ state' = [state EXCEPT ![current] = "BLOCK"]
      /\ sleep_time' = [sleep_time EXCEPT ![current] = SleepTicks(cpu.arg)]
  BY HoldsFacts DEF MsleepBlock, SchedInv, Coherent
<1>2. cpu'.op = "msleep" /\ cpu'.step = "wake"
  BY <1>1 DEF MsleepBlock, Context
<1>3. current \in Threads /\ current # NoThread /\ current \in AllThreads
  BY <1>1, ThreadsApart DEF SchedInv, IdleInv, TypeOK, AllThreads
<1>4. state[current] = "RUNNING"
  BY <1>1, <1>3, CurrentFacts
<1>5. /\ state'[current] = "BLOCK"
      /\ \A u \in AllThreads \ {current} :
            /\ state'[u] = state[u] /\ Live(u)' = Live(u)
            /\ ContextOf(u)' = ContextOf(u)
      /\ ContextOf(current) = cpu
      /\ \A s \in Sems : current \notin Elements(wait_list[s])
      /\ OwnerInv'
  BY <1>1, <1>2, <1>3, <1>4, StopsFacts DEF Owns
<1>6. /\ Elements(thread_list) \subseteq AllThreads
      /\ \A s \in Sems : Elements(wait_list[s]) \subseteq AllThreads \ {current}
  BY <1>1, <1>5, ListedThreads, ThreadsApart
<1>7. ListInv'
  BY <1>1, <1>3, <1>5, <1>6 DEF WakeInv, ListInv, Live
<1>8. /\ sleep_time'[current] > 1
      /\ \A u \in AllThreads \ {current} : sleep_time'[u] = sleep_time[u]
  <2>1. cpu.arg # 0
    BY <1>1 DEF SchedInv, Coherent
  <2> QED
    BY <1>1, <1>3, <2>1 DEF LongSleeps, TypeOK
<1>9. CurrentInv'
  BY <1>1, <1>2, <1>5, <1>8 DEF CurrentInv
<1>10. WaitInv'
  BY <1>1, <1>5, <1>6, <1>8 DEF WakeInv, WaitInv, semVars
<1>11. PriorityInv'
  BY <1>1, <1>4, <1>5, <1>6, ThreadsApart DEF WakeInv, PriorityInv, CanRun
<1>12. NoLostWakeup'
  <2>1. ASSUME NEW s \in Sems, NEW u \in Rechecking(s)
        PROVE  u \in Rechecking(s)'
    <3>1. u \in AllThreads \ {current}
      BY <1>1, <1>5, ThreadsApart DEF Rechecking
    <3> QED
      BY <1>1, <1>5, <3>1 DEF Rechecking, semVars
  <2> QED
    BY <1>1, <2>1, WakeupsKept DEF WakeInv
<1> QED
  BY <1>5, <1>7, <1>9, <1>10, <1>11, <1>12 DEF WakeInv

\* The same for one semaphore.
LEMMA WakeupsKeptAt ==
    ASSUME NoLostWakeup, TypeOK, NEW s \in Sems, wait_list[s] # <<>>,
           count'[s] = count[s], Rechecking(s) \subseteq Rechecking(s)'
    PROVE  count'[s] <= Cardinality(Rechecking(s)')
<1>1. IsFiniteSet(Rechecking(s)')
  BY ConstantsAssumption, FS_Subset DEF Rechecking
<1>2. Cardinality(Rechecking(s)) <= Cardinality(Rechecking(s)')
  BY <1>1, FS_Subset
<1>3. Cardinality(Rechecking(s)) \in Nat /\ Cardinality(Rechecking(s)') \in Nat
  BY <1>1, RecheckingFinite, FS_CardinalityType
<1> QED
  BY <1>2, <1>3 DEF NoLostWakeup, TypeOK

\* The running thread in sem_wait's critical section.
LEMMA InSemWait ==
    ASSUME SchedInv, WakeInv, cpu.step = "crit", cpu.op = "sem_wait"
    PROVE  /\ cpu \in Context /\ TypeOK /\ cpu.arg \in Sems /\ cpu.yields
           /\ current \in Threads /\ current \in AllThreads /\ current # NoThread
           /\ state[current] = "RUNNING" /\ sleep_time[current] = 0
           /\ current \in Elements(thread_list)
           /\ \A s \in Sems : current \notin Elements(wait_list[s])
           /\ ContextOf(current) = cpu
<1>1. cpu \in Context /\ TypeOK /\ cpu.arg \in Sems /\ cpu.yields
  BY HoldsFacts DEF SchedInv, Coherent
<1>2. current \in Threads /\ current # NoThread /\ current \in AllThreads
  BY <1>1, ThreadsApart DEF SchedInv, IdleInv, TypeOK, AllThreads
<1>3. state[current] = "RUNNING" /\ current \in Elements(thread_list)
  BY <1>2, CurrentFacts
<1>4. sleep_time[current] = 0 /\ \A s \in Sems : current \notin Elements(wait_list[s])
  BY <1>2, <1>3, OnlyBlockedSleep
<1> QED
  BY <1>1, <1>2, <1>3, <1>4 DEF ContextOf, OnCpu

\* sem_wait finds a token: the thread that was on its way takes it.
LEMMA SemTakeWake ==
    ASSUME SchedInv, WakeInv, cpu.step = "crit", cpu.op = "sem_wait",
           NEW s \in Sems, s = cpu.arg, count[s] > 0,
           count' = [count EXCEPT ![s] = @ - 1],
           cpu' = [cpu EXCEPT !.step = "unlock", !.yields = FALSE],
           UNCHANGED <<thread_list, state, priority, sleep_time, current, ctx, wait_list>>
    PROVE  WakeInv'
<1>1. /\ cpu \in Context /\ TypeOK
      /\ current \in Threads /\ current \in AllThreads /\ current # NoThread
      /\ state[current] = "RUNNING"
      /\ \A r \in Sems : current \notin Elements(wait_list[r])
      /\ ContextOf(current) = cpu /\ cpu.yields
  BY InSemWait
<1>2. cpu'.op = "sem_wait" /\ cpu'.step = "unlock" /\ ~cpu'.yields /\ cpu'.arg = s
  BY <1>1 DEF Context
<1>3. /\ \A u \in AllThreads : Saved(u)' = Saved(u)
      /\ \A u \in AllThreads \ {current} : ContextOf(u)' = ContextOf(u)
      /\ ContextOf(current)' = cpu'
  BY <1>1, <1>2 DEF Saved, Live, OnCpu, ContextOf
<1>4. ListInv' /\ CurrentInv' /\ PriorityInv'
  BY <1>1, <1>2 DEF WakeInv, ListInv, Live, CurrentInv, PriorityInv, CanRun
<1>5. WaitInv'
  <2>1. \A r \in Sems : Elements(wait_list[r]) \subseteq AllThreads \ {current}
    BY <1>1, ListedThreads, ThreadsApart
  <2> QED
    BY <1>3, <2>1 DEF WakeInv, WaitInv
<1>6. OwnerInv'
  <2>1. ~Owns(cpu') /\ \A u \in AllThreads : Owned(ctx[u]) => Owned(ctx[u])'
    BY <1>2 DEF Owns, Owned
  <2> QED
    BY <1>3, <2>1 DEF WakeInv, OwnerInv, Owns
<1>7. ASSUME NEW r \in Sems, wait_list[r] # <<>>
      PROVE  count'[r] <= Cardinality(Rechecking(r)')
  <2>1. CASE r # s
    <3>1. count'[r] = count[r]
      BY <1>1, <2>1 DEF TypeOK
    <3>2. ASSUME NEW u \in Rechecking(r) PROVE u \in Rechecking(r)'
      <4>1. u \in AllThreads \ {current}
        BY <1>1, <2>1, ThreadsApart DEF Rechecking
      <4> QED
        BY <1>3, <4>1 DEF Rechecking, Live
    <3> QED
      BY <1>1, <1>7, <3>1, <3>2, WakeupsKeptAt DEF WakeInv
  <2>2. CASE r = s
    <3>1. current \in Rechecking(s)
      BY <1>1 DEF Rechecking, Live
    <3>2. ASSUME NEW u \in Rechecking(s) \ {current} PROVE u \in Rechecking(s)'
      <4>1. u \in AllThreads \ {current}
        BY <3>2, ThreadsApart DEF Rechecking
      <4> QED
        BY <1>3, <3>2, <4>1 DEF Rechecking, Live
    <3>3. /\ IsFiniteSet(Rechecking(s)') /\ IsFiniteSet(Rechecking(s))
          /\ IsFiniteSet(Rechecking(s) \ {current})
      BY ConstantsAssumption, FS_Subset DEF Rechecking
    <3>4. Cardinality(Rechecking(s) \ {current}) = Cardinality(Rechecking(s)) - 1
      BY <3>1, <3>3, FS_RemoveElement
    <3>5. Cardinality(Rechecking(s) \ {current}) <= Cardinality(Rechecking(s)')
      BY <3>2, <3>3, FS_Subset
    <3>6. /\ Cardinality(Rechecking(s)) \in Nat /\ Cardinality(Rechecking(s)') \in Nat
          /\ Cardinality(Rechecking(s) \ {current}) \in Nat
      BY <3>3, FS_CardinalityType
    <3>7. count[s] <= Cardinality(Rechecking(s)) /\ count[s] \in Nat /\ count'[s] = count[s] - 1
      BY <1>1, <1>7, <2>2 DEF WakeInv, NoLostWakeup, TypeOK
    <3> QED
      BY <2>2, <3>4, <3>5, <3>6, <3>7
  <2> QED
    BY <2>1, <2>2
<1> QED
  BY <1>4, <1>5, <1>6, <1>7 DEF WakeInv, NoLostWakeup

\* sem_wait finds none: the thread joins the list.
LEMMA SemBlockWake ==
    ASSUME SchedInv, WakeInv, cpu.step = "crit", cpu.op = "sem_wait",
           NEW s \in Sems, s = cpu.arg, count[s] = 0,
           state' = [state EXCEPT ![current] = "BLOCK"],
           wait_list' = [wait_list EXCEPT ![s] = Append(@, current)],
           cpu' = [cpu EXCEPT !.step = "unlock", !.yields = TRUE],
           UNCHANGED <<thread_list, priority, sleep_time, current, ctx, count>>
    PROVE  WakeInv'
<1>1. /\ cpu \in Context /\ TypeOK
      /\ current \in Threads /\ current \in AllThreads /\ current # NoThread
      /\ state[current] = "RUNNING" /\ sleep_time[current] = 0
      /\ current \in Elements(thread_list)
  BY InSemWait
<1>2. cpu'.op = "sem_wait" /\ cpu'.step = "unlock" /\ cpu'.yields /\ cpu'.arg = s
  BY <1>1 DEF Context
<1>3. /\ state'[current] = "BLOCK"
      /\ \A u \in AllThreads \ {current} :
            /\ state'[u] = state[u] /\ Live(u)' = Live(u)
            /\ ContextOf(u)' = ContextOf(u)
      /\ ContextOf(current) = cpu /\ ContextOf(current)' = cpu'
      /\ \A r \in Sems : current \notin Elements(wait_list[r])
      /\ OwnerInv'
  BY <1>1, <1>2, StopsFacts DEF Owns
<1>4. /\ Elements(thread_list) \subseteq AllThreads
      /\ \A r \in Sems : Elements(wait_list[r]) \subseteq AllThreads \ {current}
  BY <1>1, <1>3, ListedThreads, ThreadsApart
<1>5. /\ wait_list[s] \in Seq(Threads) /\ wait_list'[s] = Append(wait_list[s], current)
      /\ \A r \in Sems \ {s} : wait_list'[r] = wait_list[r]
  BY <1>1 DEF TypeOK
<1>6. Elements(wait_list'[s]) = Elements(wait_list[s]) \cup {current}
  BY <1>1, <1>5, AppendElements
<1>7. ListInv'
  BY <1>1, <1>3, <1>4 DEF WakeInv, ListInv, Live
<1>8. CurrentInv'
  BY <1>1, <1>2, <1>3 DEF CurrentInv
<1>9. WaitInv'
  <2>1. \A r \in Sems : \A i, j \in DOMAIN wait_list'[r] :
           wait_list'[r][i] = wait_list'[r][j] => i = j
    <3> DEFINE q == wait_list[s]
    <3>1. q \in Seq(Threads) /\ current \notin Elements(q)
          /\ \A i, j \in DOMAIN q : q[i] = q[j] => i = j
      BY <1>3, <1>5 DEF WakeInv, WaitInv
    <3> HIDE DEF q
    <3>2. \A i, j \in DOMAIN Append(q, current) :
             Append(q, current)[i] = Append(q, current)[j] => i = j
      BY <1>1, <3>1, AppendDistinct
    <3>3. \A i, j \in DOMAIN wait_list'[s] : wait_list'[s][i] = wait_list'[s][j] => i = j
      BY <1>5, <3>2, Zenon DEF q
    <3>4. \A r \in Sems \ {s} : \A i, j \in DOMAIN wait_list'[r] :
             wait_list'[r][i] = wait_list'[r][j] => i = j
      BY <1>5 DEF WakeInv, WaitInv
    <3> QED
      BY <3>3, <3>4
  <2>2. ASSUME NEW r \in Sems, NEW u \in Elements(wait_list'[r])
        PROVE  /\ state'[u] = "BLOCK" /\ sleep_time[u] = 0 /\ u \in Elements(thread_list)
               /\ ContextOf(u)'.op = "sem_wait" /\ ContextOf(u)'.arg = r
    <3>1. CASE u = current
      <4>1. r = s
        BY <1>3, <1>5, <2>2, <3>1
      <4> QED
        BY <1>1, <1>2, <1>3, <3>1, <4>1
    <3>2. CASE u # current
      <4>1. u \in Elements(wait_list[r])
        BY <1>5, <1>6, <2>2, <3>2
      <4>2. u \in AllThreads \ {current}
        BY <1>4, <4>1
      <4> QED
        BY <1>3, <4>1, <4>2 DEF WakeInv, WaitInv
    <3> QED
      BY <3>1, <3>2
  <2>3. ASSUME NEW u \in AllThreads
        PROVE  /\ sleep_time[u] > 0 => state'[u] = "BLOCK"
               /\ state'[u] = "BLOCK" /\ sleep_time[u] = 0 =>
                     \E r \in Sems : u \in Elements(wait_list'[r])
    <3>1. CASE u = current
      BY <1>3, <1>6, <3>1
    <3>2. CASE u # current
      <4>1. \A r \in Sems : u \in Elements(wait_list[r]) => u \in Elements(wait_list'[r])
        BY <1>5, <1>6
      <4> QED
        BY <1>3, <3>2, <4>1 DEF WakeInv, WaitInv
    <3> QED
      BY <3>1, <3>2
  <2> QED
    BY <2>1, <2>2, <2>3 DEF WaitInv
<1>10. PriorityInv'
  BY <1>1, <1>3, <1>4, ThreadsApart DEF WakeInv, PriorityInv, CanRun
<1>11. ASSUME NEW r \in Sems, wait_list'[r] # <<>>
       PROVE  count'[r] <= Cardinality(Rechecking(r)')
  <2>1. CASE r = s
    <3>1. IsFiniteSet(Rechecking(r)')
      BY ConstantsAssumption, FS_Subset DEF Rechecking
    <3> QED
      BY <2>1, <3>1, FS_CardinalityType
  <2>2. CASE r # s
    <3>1. ASSUME NEW u \in Rechecking(r) PROVE u \in Rechecking(r)'
      <4>1. u \in AllThreads \ {current}
        BY <1>3, <2>2, ThreadsApart DEF Rechecking
      <4>2. wait_list'[r] = wait_list[r]
        BY <1>5, <2>2
      <4> QED
        BY <1>3, <4>1, <4>2 DEF Rechecking
    <3> QED
      BY <1>1, <1>5, <1>11, <2>2, <3>1, WakeupsKeptAt DEF WakeInv
  <2> QED
    BY <2>1, <2>2
<1> QED
  BY <1>3, <1>7, <1>8, <1>9, <1>10, <1>11 DEF WakeInv, NoLostWakeup

LEMMA SemWaitBodyWake ==
    ASSUME SchedInv, WakeInv, SemWaitBody
    PROVE  WakeInv'
<1>1. cpu.step = "crit" /\ cpu.op = "sem_wait"
  BY DEF SemWaitBody
<1>2. PICK s \in Sems : s = cpu.arg
  BY <1>1, InSemWait
<1>3. current \notin Elements(wait_list[s])
  BY <1>1, InSemWait
<1>4. CASE /\ count[s] > 0 /\ count' = [count EXCEPT ![s] = @ - 1]
           /\ cpu' = [cpu EXCEPT !.step = "unlock", !.yields = FALSE]
           /\ UNCHANGED <<wait_list, state>>
  BY <1>1, <1>2, <1>4, SemTakeWake DEF SemWaitBody
<1>5. CASE /\ count[s] = 0 /\ state' = [state EXCEPT ![current] = "BLOCK"]
           /\ wait_list' = [wait_list EXCEPT ![s] = Append(@, current)]
           /\ cpu' = [cpu EXCEPT !.step = "unlock", !.yields = TRUE]
           /\ UNCHANGED count
  BY <1>1, <1>2, <1>5, SemBlockWake DEF SemWaitBody
<1> QED
  BY <1>2, <1>3, <1>4, <1>5 DEF SemWaitBody

-----------------------------------------------------------------------------
(* sem_post.                                                               *)

\* The running thread in sem_post's critical section.
LEMMA InSemPost ==
    ASSUME SchedInv, WakeInv, cpu.step = "crit", cpu.op = "sem_post"
    PROVE  /\ cpu \in Context /\ TypeOK /\ cpu.arg \in Sems
           /\ current \in Threads /\ current \in AllThreads /\ current # NoThread
           /\ state[current] = "RUNNING"
           /\ ContextOf(current) = cpu
<1>1. cpu \in Context /\ TypeOK /\ cpu.arg \in Sems
  BY HoldsFacts DEF SchedInv, Coherent
<1>2. current \in Threads /\ current # NoThread /\ current \in AllThreads
  BY <1>1, ThreadsApart DEF SchedInv, IdleInv, TypeOK, AllThreads
<1>3. state[current] = "RUNNING"
  BY <1>2, CurrentFacts
<1> QED
  BY <1>1, <1>2, <1>3 DEF ContextOf, OnCpu

\* A post that nobody waits for.
LEMMA SemPostUnheard ==
    ASSUME SchedInv, WakeInv, cpu.step = "crit", cpu.op = "sem_post",
           NEW s \in Sems, s = cpu.arg, wait_list[s] = <<>>,
           count' = [count EXCEPT ![s] = @ + 1],
           cpu' = [cpu EXCEPT !.step = "unlock"],
           UNCHANGED <<thread_list, state, priority, sleep_time, current, ctx, wait_list>>
    PROVE  WakeInv'
<1>1. /\ cpu \in Context /\ TypeOK /\ current # NoThread /\ state[current] = "RUNNING"
      /\ current \in AllThreads /\ ContextOf(current) = cpu
  BY InSemPost
<1>2. cpu'.op = "sem_post" /\ cpu'.step = "unlock"
  BY <1>1 DEF Context
<1>3. GoesOn
  BY <1>1, <1>2 DEF GoesOn
<1>4. ListInv' /\ CurrentInv' /\ PriorityInv'
  BY <1>1, <1>2 DEF WakeInv, ListInv, Live, CurrentInv, PriorityInv, CanRun
<1>5. WaitInv'
  BY <1>3, <1>4, WaitersStay
<1>6. OwnerInv'
  BY <1>2, <1>3, OwnersStay DEF Owns
<1>7. ASSUME NEW r \in Sems, wait_list[r] # <<>>
      PROVE  count'[r] <= Cardinality(Rechecking(r)')
  <2>1. count'[r] = count[r]
    BY <1>1, <1>7 DEF TypeOK
  <2>2. ASSUME NEW u \in Rechecking(r) PROVE u \in Rechecking(r)'
    <3>1. u \in AllThreads /\ u # current
      BY <1>1, ThreadsApart DEF Rechecking
    <3> QED
      BY <1>3, <3>1, ContextsStay DEF Rechecking, Live
  <2> QED
    BY <1>1, <1>7, <2>1, <2>2, WakeupsKeptAt DEF WakeInv
<1> QED
  BY <1>4, <1>5, <1>6, <1>7 DEF WakeInv, NoLostWakeup

\* A post that wakes w: w is on its way to the new token.
LEMMA SemPostWakes ==
    ASSUME SchedInv, WakeInv, cpu.step = "crit", cpu.op = "sem_post",
           NEW s \in Sems, s = cpu.arg, NEW w \in Elements(wait_list[s]),
           count' = [count EXCEPT ![s] = @ + 1],
           state' = [state EXCEPT ![w] = "RUNNABLE"],
           wait_list' = [wait_list EXCEPT ![s] = ListDel(@, w)],
           cpu' = [cpu EXCEPT !.step = "unlock"],
           UNCHANGED <<thread_list, priority, sleep_time, current, ctx>>
    PROVE  WakeInv'
<1>1. /\ cpu \in Context /\ TypeOK /\ current # NoThread /\ state[current] = "RUNNING"
      /\ current \in AllThreads /\ ContextOf(current) = cpu
  BY InSemPost
<1>2. cpu'.op = "sem_post" /\ cpu'.step = "unlock"
  BY <1>1 DEF Context
<1>3. /\ w \in Threads /\ w \in AllThreads /\ state[w] = "BLOCK" /\ sleep_time[w] = 0
      /\ w # current /\ w \in Elements(thread_list)
      /\ ContextOf(w).op = "sem_wait" /\ ContextOf(w).arg = s
  BY <1>1, ListedThreads, ThreadsApart DEF WakeInv, WaitInv
<1>4. /\ state'[w] = "RUNNABLE" /\ Live(w) /\ Live(w)'
      /\ \A u \in AllThreads \ {w} : state'[u] = state[u] /\ Live(u)' = Live(u)
  <2>1. state \in [AllThreads -> States]
    BY <1>1 DEF TypeOK, States
  <2>2. state'[w] = "RUNNABLE" /\ \A u \in AllThreads \ {w} : state'[u] = state[u]
    BY <1>3, <2>1
  <2>3. \A u \in AllThreads \ {w} : Live(u)' = Live(u)
    BY <2>2, Zenon DEF Live
  <2> QED
    BY <1>3, <2>2, <2>3 DEF Live
<1>5. \A u \in AllThreads : /\ Saved(u)' = Saved(u)
                            /\ u # current => ContextOf(u)' = ContextOf(u)
  <2>1. \A u \in AllThreads : OnCpu(u)' = OnCpu(u)
    BY <1>1, <1>2 DEF OnCpu
  <2>2. \A u \in AllThreads : Live(u)' <=> Live(u)
    BY <1>4
  <2> QED
    BY <1>1, <2>1, <2>2 DEF Saved, OnCpu, ContextOf
<1>6. /\ wait_list[s] \in Seq(Threads) /\ wait_list'[s] = ListDel(wait_list[s], w)
      /\ \A r \in Sems \ {s} : wait_list'[r] = wait_list[r]
  BY <1>1 DEF TypeOK
<1>7. /\ Elements(wait_list'[s]) = Elements(wait_list[s]) \ {w}
      /\ \A i, j \in DOMAIN wait_list'[s] : wait_list'[s][i] = wait_list'[s][j] => i = j
  <2> DEFINE q == wait_list[s]
  <2>1. /\ q \in Seq(Threads) /\ w \in Elements(q)
        /\ \A i, j \in DOMAIN q : q[i] = q[j] => i = j
    BY <1>6 DEF WakeInv, WaitInv
  <2> HIDE DEF q
  <2>2. /\ Elements(ListDel(q, w)) = Elements(q) \ {w}
        /\ \A i, j \in DOMAIN ListDel(q, w) : ListDel(q, w)[i] = ListDel(q, w)[j] => i = j
    BY <2>1, ListDelDistinct
  <2> QED
    BY <1>6, <2>2, ZenonT(60) DEF q
<1>8. /\ Elements(thread_list) \subseteq AllThreads
      /\ \A r \in Sems : Elements(wait_list[r]) \subseteq AllThreads
      /\ \A r \in Sems \ {s} : w \notin Elements(wait_list[r])
  BY <1>1, <1>3, ListedThreads, ThreadsApart DEF WakeInv, WaitInv
<1>9. ListInv'
  BY <1>1, <1>4, <1>8, ThreadsApart DEF WakeInv, ListInv
<1>10. CurrentInv'
  BY <1>1, <1>3, <1>4 DEF CurrentInv
<1>11. WaitInv'
  <2>1. \A r \in Sems : \A i, j \in DOMAIN wait_list'[r] :
           wait_list'[r][i] = wait_list'[r][j] => i = j
    <3>1. \A r \in Sems \ {s} : \A i, j \in DOMAIN wait_list'[r] :
             wait_list'[r][i] = wait_list'[r][j] => i = j
      BY <1>6 DEF WakeInv, WaitInv
    <3> QED
      BY <1>7, <3>1
  <2>2. ASSUME NEW r \in Sems, NEW u \in Elements(wait_list'[r])
        PROVE  /\ state'[u] = "BLOCK" /\ sleep_time[u] = 0 /\ u \in Elements(thread_list)
               /\ ContextOf(u)'.op = "sem_wait" /\ ContextOf(u)'.arg = r
    <3>1. u \in Elements(wait_list[r]) /\ u # w
      BY <1>6, <1>7, <1>8, <2>2
    <3>2. u \in AllThreads \ {w} /\ state[u] = "BLOCK" /\ u # current
      BY <1>1, <1>8, <3>1 DEF WakeInv, WaitInv
    <3> QED
      BY <1>4, <1>5, <3>1, <3>2 DEF WakeInv, WaitInv
  <2>3. ASSUME NEW u \in AllThreads
        PROVE  /\ sleep_time[u] > 0 => state'[u] = "BLOCK"
               /\ state'[u] = "BLOCK" /\ sleep_time[u] = 0 =>
                     \E r \in Sems : u \in Elements(wait_list'[r])
    <3>1. CASE u = w
      BY <1>3, <1>4, <3>1
    <3>2. CASE u # w
      <4>1. \A r \in Sems : u \in Elements(wait_list[r]) => u \in Elements(wait_list'[r])
        BY <1>6, <1>7, <3>2
      <4> QED
        BY <1>4, <3>2, <4>1 DEF WakeInv, WaitInv
    <3> QED
      BY <3>1, <3>2
  <2> QED
    BY <2>1, <2>2, <2>3 DEF WaitInv
<1>12. OwnerInv'
  <2>1. ~Owns(cpu')
    BY <1>2 DEF Owns
  <2>2. ASSUME NEW u \in AllThreads, Saved(u), Owns(ctx[u])
        PROVE  Owned(ctx[u])'
    <3>1. Owned(ctx[u]) /\ ctx[u].arg \in AllThreads
      BY <2>2, ThreadsApart DEF WakeInv, OwnerInv, SchedInv, Parked, Coherent, Owns
    <3>2. ctx[u].arg # w
      BY <1>3, <3>1 DEF Owned
    <3> QED
      BY <1>4, <3>1, <3>2 DEF Owned
  <2> QED
    BY <1>5, <2>1, <2>2 DEF WakeInv, OwnerInv, Owns
<1>13. PriorityInv'
  BY <1>2, <1>3, <1>4, ThreadsApart DEF WakeInv, PriorityInv
<1>14. ASSUME NEW r \in Sems, wait_list'[r] # <<>>
       PROVE  count'[r] <= Cardinality(Rechecking(r)')
  <2>0. ASSUME NEW u \in Rechecking(r) PROVE u \in Rechecking(r)' /\ u # w
    <3>1. u \in AllThreads /\ u # current /\ Live(u)
      BY <1>1, ThreadsApart DEF Rechecking
    <3>2. u # w
      BY <1>3 DEF Rechecking
    <3>3. u \notin Elements(wait_list'[r])
      BY <1>6, <1>7 DEF Rechecking
    <3> QED
      BY <1>4, <1>5, <3>1, <3>2, <3>3 DEF Rechecking
  <2>1. CASE r # s
    <3>1. count'[r] = count[r] /\ wait_list'[r] = wait_list[r]
      BY <1>1, <1>6, <2>1 DEF TypeOK
    <3> QED
      BY <1>1, <1>14, <2>0, <3>1, WakeupsKeptAt DEF WakeInv
  <2>2. CASE r = s
    <3>1. w \in Rechecking(s)'
      <4>1. ContextOf(w) = ctx[w] /\ ContextOf(w)' = ctx[w]
        BY <1>3, <1>5 DEF ContextOf, OnCpu
      <4>2. ctx[w].step # "unlock"
        BY <1>3 DEF SchedInv, Parked, Holds
      <4> QED
        BY <1>3, <1>4, <1>7, <4>1, <4>2 DEF Rechecking
    <3>2. /\ IsFiniteSet(Rechecking(s)') /\ IsFiniteSet(Rechecking(s))
      BY ConstantsAssumption, FS_Subset DEF Rechecking
    <3>3. /\ w \notin Rechecking(s)
          /\ Rechecking(s) \cup {w} \subseteq Rechecking(s)'
      BY <2>0, <2>2, <3>1
    <3>4. Cardinality(Rechecking(s) \cup {w}) = Cardinality(Rechecking(s)) + 1
      BY <3>2, <3>3, FS_AddElement
    <3>5. Cardinality(Rechecking(s) \cup {w}) <= Cardinality(Rechecking(s)')
      BY <3>2, <3>3, FS_Subset
    <3>6. Cardinality(Rechecking(s)) \in Nat /\ Cardinality(Rechecking(s)') \in Nat
      BY <3>2, FS_CardinalityType
    <3>7. count[s] <= Cardinality(Rechecking(s)) /\ count[s] \in Nat /\ count'[s] = count[s] + 1
      BY <1>1 DEF WakeInv, NoLostWakeup, TypeOK, Elements
    <3> QED
      BY <2>2, <3>4, <3>5, <3>6, <3>7
  <2> QED
    BY <2>1, <2>2
<1> QED
  BY <1>9, <1>10, <1>11, <1>12, <1>13, <1>14 DEF WakeInv, NoLostWakeup

LEMMA SemPostBodyWake ==
    ASSUME SchedInv, WakeInv, SemPostBody
    PROVE  WakeInv'
<1>1. cpu.step = "crit" /\ cpu.op = "sem_post"
  BY DEF SemPostBody
<1>2. PICK s \in Sems : s = cpu.arg
  BY <1>1, InSemPost
<1>3. CASE \E i \in DOMAIN wait_list[s] :
              /\ state' = [state EXCEPT ![wait_list[s][i]] = "RUNNABLE"]
              /\ wait_list' = [wait_list EXCEPT ![s] = ListDel(@, wait_list[s][i])]
  <2>1. PICK w \in Elements(wait_list[s]) :
              /\ state' = [state EXCEPT ![w] = "RUNNABLE"]
              /\ wait_list' = [wait_list EXCEPT ![s] = ListDel(@, w)]
    BY <1>3 DEF Elements
  <2> QED
    BY <1>1, <1>2, <2>1, SemPostWakes DEF SemPostBody
<1>4. CASE /\ \A i \in DOMAIN wait_list[s] : state[wait_list[s][i]] # "BLOCK"
           /\ UNCHANGED <<state, wait_list>>
  <2>1. \A i \in DOMAIN wait_list[s] : state[wait_list[s][i]] = "BLOCK"
    BY DEF WakeInv, WaitInv, Elements
  <2>2. wait_list[s] \in Seq(Threads)
    BY DEF SchedInv, TypeOK
  <2>3. wait_list[s] = <<>>
    BY <1>4, <2>1, <2>2
  <2> QED
    BY <1>1, <1>2, <1>4, <2>3, SemPostUnheard DEF SemPostBody
<1> QED
  BY <1>2, <1>3, <1>4 DEF SemPostBody, WakeBest

-----------------------------------------------------------------------------
(* Switching.                                                              *)

\* Where a trap resumes the interrupted code: still on its way to the token it
\* was after, and owner of nothing it did not own.
ResumesAt(c) ==
    /\ cpu.op = "sem_wait" /\ ~(cpu.step = "unlock" /\ ~cpu.yields) =>
          c.op = "sem_wait" /\ c.arg = cpu.arg /\ ~(c.step = "unlock" /\ ~c.yields)
    /\ Owns(c) => Owns(cpu) /\ c.op = cpu.op /\ c.arg = cpu.arg

\* What the trap handler leaves of states and sleeps: a sleeper other than the
\* running thread may have been woken.
WokenOnly(st) ==
    \A t \in AllThreads :
       \/ st[t] = state[t] /\ (sleep_time'[t] > 0 <=> sleep_time[t] > 0)
       \/ /\ t # current /\ state[t] = "BLOCK" /\ st[t] = "RUNNABLE"
          /\ sleep_time[t] > 0 /\ sleep_time'[t] = 0

\* Threads that are between a call of thread_create or thread_destroy and its
\* critical section own different objects.
LEMMA OwnersApart ==
    ASSUME SchedInv, WakeInv, NEW t \in AllThreads, Live(t), Owns(ContextOf(t))
    PROVE  /\ Owned(ContextOf(t)) /\ ContextOf(t).arg \in Threads
           /\ \A u \in AllThreads :
                 Live(u) /\ Owns(ContextOf(u)) /\ ContextOf(u).arg = ContextOf(t).arg => u = t
<1>1. CASE OnCpu(t)
  <2>1. ContextOf(t) = cpu /\ t = current
    BY <1>1 DEF ContextOf, OnCpu
  <2>2. \A u \in AllThreads : u # t => ContextOf(u) = ctx[u] /\ ~OnCpu(u)
    BY <2>1 DEF ContextOf, OnCpu
  <2>3. cpu.arg \in Threads
    BY <2>1 DEF SchedInv, Coherent, Owns
  <2> QED
    BY <2>1, <2>2, <2>3 DEF WakeInv, OwnerInv, Saved
<1>2. CASE ~OnCpu(t)
  <2>1. ContextOf(t) = ctx[t] /\ Saved(t)
    BY <1>2 DEF ContextOf, Saved
  <2>2. ctx[t].arg \in Threads
    BY <2>1 DEF SchedInv, Parked, Coherent, Owns
  <2>3. ASSUME NEW u \in AllThreads, Live(u), Owns(ContextOf(u)), ContextOf(u).arg = ctx[t].arg
        PROVE  u = t
    <3>1. CASE OnCpu(u)
      BY <2>1, <2>3, <3>1 DEF WakeInv, OwnerInv, ContextOf
    <3>2. CASE ~OnCpu(u)
      BY <2>1, <2>3, <3>2 DEF WakeInv, OwnerInv, ContextOf, Saved
    <3> QED
      BY <3>1, <3>2
  <2> QED
    BY <2>1, <2>2, <2>3 DEF WakeInv, OwnerInv
<1> QED
  BY <1>1, <1>2

\* A sched_thread step from the states st, the interrupted context being c.
Switches(st, c) ==
    /\ current # NoThread
    /\ st \in [AllThreads -> States] /\ CanRun(st, Idle)
    /\ c \in Context /\ c \in {cpu, AfterEcall(cpu)} /\ ResumesAt(c)
    /\ WokenOnly(st) /\ SwitchFrom(st, c)
    /\ UNCHANGED <<priority, semVars>> /\ sleep_time' \in [AllThreads -> Nat]

\* The context of every live thread survives: the interrupted one is saved as
\* c, the others stay what they were, and the chosen one is resumed.
LEMMA SwitchContexts ==
    ASSUME SchedInv, WakeInv, SchedInv', NEW st, NEW c, Switches(st, c)
    PROVE  \A t \in AllThreads :
              /\ ContextOf(t)' = ctx'[t]
              /\ Live(t) /\ ~OnCpu(t) => ctx'[t] = ctx[t]
              /\ Live(t) /\ OnCpu(t) => ctx'[t] = c
<1>1. /\ TypeOK /\ current \in AllThreads /\ current \in Elements(thread_list)
      /\ Idle \in Elements(thread_list) /\ current # NoThread
      /\ state[current] \in {"RUNNABLE", "RUNNING", "BLOCK", "DEAD"}
      /\ st[current] = state[current]
  BY CurrentFacts DEF SchedInv, IdleInv, WokenOnly, Switches
<1>2. PICK next \in Elements(thread_list) : next = NextThread(st) /\ CanRun(st, next)
  BY <1>1, NextThreadExists DEF Switches
<1>3. /\ state' = Rescheduled(st, next)
      /\ ctx' = SaveContext(st, c) /\ current' = next /\ cpu' = ctx'[next]
  BY <1>2 DEF SwitchFrom, Switches
<1>4. next \in AllThreads /\ next # NoThread
  BY <1>1, <1>2, ListedThreads, ThreadsApart
<1>5. state'[next] = "RUNNING"
  BY <1>3, <1>4 DEF Rescheduled
<1>6. /\ \A t \in AllThreads \ {current} : ctx'[t] = ctx[t]
      /\ st[current] \in {"RUNNING", "BLOCK"} => ctx'[current] = c
      /\ st[current] \notin {"RUNNING", "BLOCK"} => ctx'[current] = ctx[current]
  <2>1. ctx \in [AllThreads -> Context]
    BY <1>1 DEF TypeOK
  <2> QED
    BY <1>1, <1>3, <2>1 DEF SaveContext
<1>7. cpu'.op # "start"
  BY <1>3, <1>4, <1>5 DEF SchedInv, IdleInv
<1>8. \A t \in AllThreads : ContextOf(t)' = ctx'[t]
  BY <1>3, <1>4, <1>7 DEF ContextOf, OnCpu
<1>9. ASSUME NEW t \in AllThreads, Live(t), OnCpu(t)
      PROVE  ctx'[t] = c
  <2>1. t = current /\ cpu.op # "start"
    BY <1>9 DEF OnCpu
  <2>2. st[t] \in {"RUNNING", "BLOCK"}
    BY <1>1, <1>9, <2>1 DEF WakeInv, CurrentInv, Live
  <2> QED
    BY <1>6, <2>1, <2>2
<1>10. ASSUME NEW t \in AllThreads, ~OnCpu(t)
       PROVE  ctx'[t] = ctx[t]
  <2>1. t = current => st[t] = "RUNNABLE"
    BY <1>1, <1>10 DEF OnCpu, SchedInv, IdleInv
  <2> QED
    BY <1>6, <2>1
<1> QED
  BY <1>8, <1>9, <1>10

\* sched_thread with the states st and the interrupted context c.
LEMMA SwitchWake ==
    ASSUME SchedInv, WakeInv, SchedInv', NEW st, NEW c, Switches(st, c)
    PROVE  WakeInv'
<1>0. /\ current # NoThread /\ st \in [AllThreads -> States] /\ CanRun(st, Idle)
      /\ ResumesAt(c) /\ WokenOnly(st) /\ SwitchFrom(st, c)
      /\ UNCHANGED <<priority, semVars>> /\ sleep_time' \in [AllThreads -> Nat]
  BY DEF Switches
<1>1. /\ TypeOK /\ current \in AllThreads /\ current \in Elements(thread_list)
      /\ Idle \in Elements(thread_list)
      /\ state[current] \in {"RUNNABLE", "RUNNING", "BLOCK", "DEAD"}
      /\ st[current] = state[current]
  BY <1>0, CurrentFacts DEF SchedInv, IdleInv, WokenOnly
<1>2. PICK next \in Elements(thread_list) : next = NextThread(st) /\ CanRun(st, next)
  BY <1>0, <1>1, NextThreadExists
<1>3. /\ thread_list' = Unlinked(st) /\ state' = Rescheduled(st, next)
      /\ ctx' = SaveContext(st, c) /\ current' = next /\ cpu' = SaveContext(st, c)[next]
  BY <1>0, <1>2 DEF SwitchFrom
<1>4. /\ Elements(thread_list) \subseteq AllThreads /\ next \in AllThreads /\ next # NoThread
      /\ \A s \in Sems : Elements(wait_list[s]) \subseteq AllThreads
  BY <1>1, <1>2, ListedThreads, ThreadsApart
<1>5. \A t \in AllThreads :
         state'[t] = IF t = next THEN "RUNNING"
                     ELSE IF t = current /\ st[t] = "RUNNING" THEN "RUNNABLE"
                     ELSE st[t]
  BY <1>3 DEF Rescheduled
<1>6. /\ \A t \in AllThreads \ {current} : ctx'[t] = ctx[t]
      /\ st[current] \in {"RUNNING", "BLOCK"} => ctx'[current] = c
      /\ st[current] \notin {"RUNNING", "BLOCK"} => ctx'[current] = ctx[current]
      /\ cpu' = ctx'[next]
  <2>1. ctx \in [AllThreads -> Context]
    BY <1>0, <1>1 DEF TypeOK
  <2> QED
    BY <1>1, <1>3, <2>1 DEF SaveContext
<1>7. /\ Elements(thread_list') = IF st[current] = "DEAD" THEN Elements(thread_list) \ {current}
                                                          ELSE Elements(thread_list)
      /\ \A i, j \in DOMAIN thread_list' : thread_list'[i] = thread_list'[j] => i = j
  <2>1. /\ thread_list \in Seq(AllThreads)
        /\ \A i, j \in DOMAIN thread_list : thread_list[i] = thread_list[j] => i = j
    BY <1>1 DEF TypeOK, WakeInv, ListInv
  <2>2. CASE st[current] = "DEAD"
    <3>1. PICK e \in Elements(thread_list) : e = current
      BY <1>1
    <3>2. /\ Elements(ListDel(thread_list, e)) = Elements(thread_list) \ {e}
          /\ \A i, j \in DOMAIN ListDel(thread_list, e) :
                ListDel(thread_list, e)[i] = ListDel(thread_list, e)[j] => i = j
      BY <2>1, ListDelDistinct
    <3>3. thread_list' = ListDel(thread_list, e)
      BY <1>3, <2>2, <3>1 DEF Unlinked
    <3> QED
      BY <2>2, <3>1, <3>2, <3>3
  <2>3. CASE st[current] # "DEAD"
    BY <1>3, <2>1, <2>3 DEF Unlinked
  <2> QED
    BY <2>2, <2>3
<1>8. cpu'.op # "start"
  BY <1>3, <1>4, <1>5 DEF SchedInv, IdleInv
<1>9. /\ \A t \in AllThreads : ContextOf(t)' = ctx'[t]
      /\ \A t \in AllThreads : OnCpu(t)' <=> t = next
  BY <1>3, <1>4, <1>6, <1>8 DEF ContextOf, OnCpu
<1>10. \A t \in AllThreads : Live(t)' <=> Live(t)
  <2> SUFFICES ASSUME NEW t \in AllThreads PROVE Live(t)' <=> Live(t)
    OBVIOUS
  <2>1. st[t] \in {"RUNNABLE", "RUNNING", "BLOCK"} <=> Live(t)
    BY <1>0 DEF WokenOnly, Live
  <2>2. state'[t] \in {"RUNNABLE", "RUNNING", "BLOCK"} <=> st[t] \in {"RUNNABLE", "RUNNING", "BLOCK"}
    BY <1>2, <1>5 DEF CanRun
  <2> QED
    BY <2>1, <2>2 DEF Live
<1>11. ASSUME NEW t \in AllThreads, Live(t)
       PROVE  ContextOf(t)' = ContextOf(t) \/ (ContextOf(t) = cpu /\ ContextOf(t)' = c)
  BY <1>11, SwitchContexts DEF ContextOf, OnCpu
<1>12. ListInv'
  <2>1. ASSUME NEW t \in Elements(thread_list') PROVE Live(t)'
    <3>1. t \in Elements(thread_list) /\ (t = current => state[t] # "DEAD")
      BY <1>1, <1>7, <2>1
    <3>2. Live(t)
      BY <3>1 DEF WakeInv, ListInv
    <3> QED
      BY <1>4, <1>10, <3>1, <3>2
  <2> QED
    BY <1>3, <1>4, <1>7, <2>1 DEF ListInv
<1>13. CurrentInv'
  BY <1>3, <1>4, <1>5 DEF CurrentInv
<1>14. WaitInv'
  <2>1. ASSUME NEW s \in Sems, NEW t \in Elements(wait_list[s])
        PROVE  /\ state'[t] = "BLOCK" /\ sleep_time'[t] = 0 /\ t \in Elements(thread_list')
               /\ ContextOf(t)'.op = "sem_wait" /\ ContextOf(t)'.arg = s
    <3>1. /\ t \in AllThreads /\ state[t] = "BLOCK" /\ sleep_time[t] = 0
          /\ t \in Elements(thread_list) /\ Live(t)
          /\ ContextOf(t).op = "sem_wait" /\ ContextOf(t).arg = s
      BY <1>0, <1>4 DEF WakeInv, WaitInv, Live
    <3>2. st[t] = "BLOCK" /\ sleep_time'[t] = 0
      BY <1>0, <3>1 DEF WokenOnly
    <3>3. state'[t] = "BLOCK"
      BY <1>2, <1>5, <3>1, <3>2 DEF CanRun
    <3>4. t \in Elements(thread_list')
      BY <1>7, <3>1, <3>2
    <3>5. CASE ContextOf(t)' = ContextOf(t)
      BY <3>1, <3>2, <3>3, <3>4, <3>5
    <3>6. CASE ContextOf(t)' # ContextOf(t)
      <4>1. ContextOf(t) = cpu /\ ContextOf(t)' = c
        BY <1>11, <3>1, <3>6
      <4>2. t = current
        BY <1>6, <1>9, <3>1, <3>6 DEF ContextOf, OnCpu
      <4>3. ~(cpu.step = "unlock" /\ ~cpu.yields)
        BY <1>1, <3>1, <4>2, ThreadsApart DEF WakeInv, CurrentInv
      <4> QED
        BY <1>0, <3>1, <3>2, <3>3, <3>4, <4>1, <4>3 DEF ResumesAt
    <3> QED
      BY <3>5, <3>6
  <2>2. ASSUME NEW t \in AllThreads
        PROVE  /\ sleep_time'[t] > 0 => state'[t] = "BLOCK"
               /\ state'[t] = "BLOCK" /\ sleep_time'[t] = 0 =>
                     \E s \in Sems : t \in Elements(wait_list[s])
    <3>1. sleep_time'[t] \in Nat /\ sleep_time[t] \in Nat
      BY <1>0, <1>1 DEF TypeOK
    <3>2. state'[t] = "BLOCK" <=> st[t] = "BLOCK"
      BY <1>2, <1>5 DEF CanRun
    <3>3. CASE st[t] = state[t] /\ (sleep_time'[t] > 0 <=> sleep_time[t] > 0)
      BY <1>0, <3>1, <3>2, <3>3 DEF WakeInv, WaitInv
    <3>4. CASE st[t] = "RUNNABLE" /\ sleep_time'[t] = 0
      BY <3>2, <3>4
    <3> QED
      BY <1>0, <3>3, <3>4 DEF WokenOnly
  <2> QED
    BY <1>0, <2>1, <2>2 DEF WaitInv, WakeInv, semVars
<1>15. OwnerInv'
  <2>1. ASSUME NEW t \in AllThreads, Live(t), Owns(ctx'[t])
        PROVE  /\ Owns(ContextOf(t)) /\ Owned(ctx[t])'
               /\ ctx'[t].arg = ContextOf(t).arg
    <3>1. Owns(ContextOf(t)) /\ ctx'[t].arg = ContextOf(t).arg /\ ctx'[t].op = ContextOf(t).op
      BY <1>0, <1>9, <1>11, <2>1 DEF ResumesAt
    <3>2. PICK a \in Threads : a = ctx'[t].arg
      BY <1>0, <2>1, <3>1, OwnersApart
    <3>3. /\ a \in AllThreads /\ a \notin Elements(thread_list)
          /\ ctx'[t].op = "create" => state[a] = "RUNNABLE" /\ priority[a] = 1
          /\ ctx'[t].op = "destroy" => state[a] = "DEAD"
          /\ ctx'[t].op \in {"create", "destroy"}
      BY <1>0, <2>1, <3>1, <3>2, OwnersApart, ThreadsApart DEF Owned, Owns
    <3>4. st[a] = state[a] /\ a # current /\ a # next
      BY <1>0, <1>1, <1>2, <3>3 DEF WokenOnly
    <3>5. state'[a] = state[a] /\ a \notin Elements(thread_list')
      BY <1>5, <1>7, <3>3, <3>4
    <3> QED
      BY <1>0, <3>1, <3>2, <3>3, <3>5 DEF Owned
  <2>2. ASSUME NEW t \in AllThreads, NEW u \in AllThreads, Live(t), Live(u),
               Owns(ctx'[t]), Owns(ctx'[u]), ctx'[t].arg = ctx'[u].arg
        PROVE  t = u
    BY <1>0, <2>1, <2>2, OwnersApart
  <2>3. Live(next)
    BY <1>2, <1>4, <1>5, <1>10 DEF Live
  <2>4. Owns(cpu') => Owned(cpu)'
    BY <1>0, <1>4, <1>6, <2>1, <2>3 DEF Owned
  <2>5. \A t \in AllThreads : Saved(t)' <=> Live(t) /\ t # next
    BY <1>9, <1>10 DEF Saved
  <2>6. ASSUME NEW t \in AllThreads, Saved(t)', Owns(ctx'[t])
        PROVE  Owns(cpu') => cpu'.arg # ctx'[t].arg
    BY <1>4, <1>6, <2>2, <2>3, <2>5, <2>6
  <2> QED
    BY <1>0, <2>1, <2>2, <2>4, <2>5, <2>6 DEF OwnerInv, Owns
<1>16. PriorityInv'
  <2>1. ASSUME NEW t \in Threads, state'[t] # "FREE" PROVE priority[t] >= 1
    <3>1. t \in AllThreads
      BY ThreadsApart
    <3>2. st[t] # "FREE"
      BY <1>2, <1>5, <2>1, <3>1 DEF CanRun
    <3>3. state[t] # "FREE"
      BY <1>0, <3>1, <3>2 DEF WokenOnly
    <3> QED
      BY <1>0, <3>3 DEF WakeInv, PriorityInv
  <2>2. ASSUME NEW t \in Elements(thread_list'), CanRun(state', t)
        PROVE  priority[t] <= priority[next]
    <3>1. t \in Elements(thread_list) /\ t \in AllThreads
      BY <1>4, <1>7, <2>2
    <3>2. CanRun(st, t)
      BY <1>2, <1>5, <2>2, <3>1 DEF CanRun
    <3> QED
      BY <1>0, <1>1, <1>2, <3>1, <3>2, NextThreadHighest
  <2> QED
    BY <1>0, <1>3, <2>1, <2>2 DEF PriorityInv, CanRun
<1>17. NoLostWakeup'
  <2>1. ASSUME NEW s \in Sems, NEW t \in Rechecking(s)
        PROVE  t \in Rechecking(s)'
    <3>1. t \in AllThreads /\ Live(t)
      BY ThreadsApart DEF Rechecking
    <3>2. CASE ContextOf(t)' = ContextOf(t)
      BY <1>0, <1>10, <3>1, <3>2 DEF Rechecking, semVars
    <3>3. CASE ContextOf(t) = cpu /\ ContextOf(t)' = c
      BY <1>0, <1>10, <3>1, <3>3 DEF Rechecking, semVars, ResumesAt
    <3> QED
      BY <1>11, <3>1, <3>2, <3>3
  <2> QED
    BY <1>0, <1>1, <2>1, WakeupsKept DEF WakeInv
<1> QED
  BY <1>12, <1>13, <1>14, <1>15, <1>16, <1>17 DEF WakeInv

\* sched_tick and the other interrupts resume the context where it was; a tick
\* wakes sleepers, and by CurrentInv never the running thread.
LEMMA InterruptSwitches ==
    ASSUME SchedInv, WakeInv, UNCHANGED semVars, Tick \/ Interrupt
    PROVE  \E st : Switches(st, cpu)
<1>1. /\ TypeOK /\ current # NoThread /\ cpu \in Context /\ CanRun(state, Idle)
      /\ UNCHANGED priority /\ Idle \in AllThreads
      /\ state \in [AllThreads -> States] /\ sleep_time \in [AllThreads -> Nat]
  BY ThreadsApart DEF Tick, Interrupt, SchedInv, TypeOK, IdleInv, States
<1>2. ResumesAt(cpu)
  BY DEF ResumesAt
<1>3. CASE Tick
  <2>1. sleep_time' = Aged /\ SwitchFrom(Woken, cpu)
    BY <1>3 DEF Tick
  <2>2. Aged \in [AllThreads -> Nat]
    BY <1>1 DEF Aged
  <2>3. Woken \in [AllThreads -> States] /\ CanRun(Woken, Idle)
    BY <1>1 DEF Woken, States, CanRun
  <2>4. ASSUME NEW t \in AllThreads
        PROVE  \/ Woken[t] = state[t] /\ (sleep_time'[t] > 0 <=> sleep_time[t] > 0)
               \/ /\ t # current /\ state[t] = "BLOCK" /\ Woken[t] = "RUNNABLE"
                  /\ sleep_time[t] > 0 /\ sleep_time'[t] = 0
    <3>1. sleep_time[t] \in Nat /\ sleep_time'[t] = Aged[t] /\ Aged[t] \in Nat
      BY <1>1, <2>1, <2>2
    <3>2. CASE Aged[t] = 0 /\ sleep_time[t] > 0
      <4>1. Woken[t] = "RUNNABLE" /\ state[t] = "BLOCK"
        BY <3>2 DEF Woken, WakeInv, WaitInv
      <4>2. sleep_time[t] = 1
        BY <3>1, <3>2 DEF Aged
      <4>3. t # current
        BY <1>1, <4>1, <4>2 DEF WakeInv, CurrentInv
      <4> QED
        BY <3>1, <3>2, <4>1, <4>3
    <3>3. CASE ~(Aged[t] = 0 /\ sleep_time[t] > 0)
      <4>1. Woken[t] = state[t]
        BY <3>3 DEF Woken
      <4>2. sleep_time[t] = 0 => Aged[t] = 0
        BY DEF Aged
      <4> QED
        BY <3>1, <3>3, <4>1, <4>2
    <3> QED
      BY <3>2, <3>3
  <2>5. WokenOnly(Woken)
    BY <2>4 DEF WokenOnly
  <2>6. Switches(Woken, cpu)
    BY <1>1, <1>2, <2>1, <2>2, <2>3, <2>5 DEF Switches
  <2> QED
    BY <2>6
<1>4. CASE Interrupt
  <2>1. SwitchFrom(state, cpu) /\ sleep_time' = sleep_time
    BY <1>4 DEF Interrupt
  <2>2. WokenOnly(state)
    BY <2>1 DEF WokenOnly
  <2>3. Switches(state, cpu)
    BY <1>1, <1>2, <2>1, <2>2 DEF Switches
  <2> QED
    BY <2>3
<1> QED
  BY <1>3, <1>4

\* sched_yield: sem_wait goes on to look at the count again.
LEMMA YieldSwitches ==
    ASSUME SchedInv, WakeInv, UNCHANGED semVars, Yield
    PROVE  /\ current # NoThread => Switches(state, AfterEcall(cpu))
           /\ current = NoThread => GoesOn /\ CurrentInv' /\ ~Owns(cpu')
<1>1. /\ TypeOK /\ cpu \in Context /\ Coherent(cpu) /\ cpu.step = "yield"
      /\ UNCHANGED <<priority, sleep_time>> /\ Idle \in AllThreads
      /\ state \in [AllThreads -> States] /\ sleep_time \in [AllThreads -> Nat]
  BY ThreadsApart DEF Yield, SchedInv, TypeOK, States
<1>2. PICK c \in Context : c = AfterEcall(cpu)
  BY <1>1, ConstantsAssumption DEF AfterEcall, ToUser, Context, Steps
<1>3. /\ cpu.op = "sem_wait" => c.op = "sem_wait" /\ c.arg = cpu.arg /\ c.step = "check"
      /\ cpu.op # "sem_wait" => c.op = "user"
  BY <1>1, <1>2 DEF AfterEcall, ToUser, Context
<1>4. ResumesAt(c)
  BY <1>3 DEF ResumesAt, Owns
<1>5. ASSUME current # NoThread PROVE Switches(state, AfterEcall(cpu))
  <2>1. SwitchFrom(state, c)
    BY <1>2, <1>5 DEF Yield
  <2>2. WokenOnly(state) /\ CanRun(state, Idle)
    BY <1>1, <1>5 DEF WokenOnly, SchedInv, IdleInv
  <2> QED
    BY <1>1, <1>2, <1>4, <1>5, <2>1, <2>2 DEF Switches
<1>6. ASSUME current = NoThread PROVE GoesOn /\ CurrentInv' /\ ~Owns(cpu')
  <2>1. cpu' = c /\ UNCHANGED current
    BY <1>1, <1>2, <1>6 DEF Yield
  <2> QED
    BY <1>3, <1>6, <2>1 DEF GoesOn, CurrentInv, Owns
<1> QED
  BY <1>5, <1>6

LEMMA TrapWake ==
    ASSUME SchedInv, WakeInv, SchedInv', UNCHANGED semVars, Tick \/ Interrupt \/ Yield
    PROVE  WakeInv'
<1>1. CASE Tick \/ Interrupt
  BY <1>1, InterruptSwitches, SwitchWake
<1>2. CASE Yield /\ current # NoThread
  BY <1>2, YieldSwitches, SwitchWake
<1>3. CASE Yield /\ current = NoThread
  BY <1>3, YieldSwitches, QuietInv DEF Yield
<1> QED
  BY <1>1, <1>2, <1>3

\* sched_start: the idle thread joins the list.
LEMMA SchedStartWake ==
    ASSUME SchedInv, WakeInv, UNCHANGED semVars, SchedStart
    PROVE  WakeInv'
<1>1. /\ TypeOK /\ cpu \in Context /\ current = NoThread /\ cpu.op = "user"
      /\ thread_list' = Append(thread_list, Idle)
      /\ state' = [state EXCEPT ![Idle] = "RUNNABLE"]
      /\ priority' = [priority EXCEPT ![Idle] = 0]
      /\ ctx' = [ctx EXCEPT ![Idle] = IdleContext]
      /\ current' = Idle
      /\ UNCHANGED <<sleep_time, semVars>>
  BY HoldsFacts DEF SchedStart, SchedInv, Coherent
<1>2. cpu'.op = "start"
  BY <1>1 DEF SchedStart, Enter, Context
<1>3. Idle \notin Elements(thread_list) /\ state[Idle] = "FREE"
  BY <1>1 DEF WakeInv, ListInv
<1>4. /\ Elements(thread_list) \subseteq Threads /\ Idle \in AllThreads
      /\ Elements(thread_list') = Elements(thread_list) \cup {Idle}
      /\ \A s \in Sems : Elements(wait_list[s]) \subseteq Threads
  BY <1>1, <1>3, ListedThreads, AppendElements, ThreadsApart DEF TypeOK, AllThreads
<1>5. /\ state'[Idle] = "RUNNABLE" /\ ctx'[Idle] = IdleContext
      /\ \A t \in Threads : state'[t] = state[t] /\ priority'[t] = priority[t] /\ ctx'[t] = ctx[t]
  <2>1. /\ state \in [AllThreads -> States] /\ ctx \in [AllThreads -> Context]
        /\ priority \in [AllThreads -> 0 .. IntMax]
    BY <1>1 DEF TypeOK, States
  <2> QED
    BY <1>1, <2>1, ThreadsApart
<1>6. /\ \A t \in Threads : Live(t)' <=> Live(t)
      /\ \A t \in Threads : ~OnCpu(t) /\ ~OnCpu(t)' /\ ContextOf(t)' = ContextOf(t)
      /\ Live(Idle)' /\ ~Live(Idle) /\ ~OnCpu(Idle)'
  BY <1>1, <1>2, <1>3, <1>5, ThreadsApart DEF Live, OnCpu, ContextOf
<1>7. ListInv'
  <2>1. /\ thread_list \in Seq(AllThreads)
        /\ \A i, j \in DOMAIN thread_list : thread_list[i] = thread_list[j] => i = j
    BY <1>1 DEF TypeOK, WakeInv, ListInv
  <2>2. \A i, j \in DOMAIN thread_list' : thread_list'[i] = thread_list'[j] => i = j
    <3>1. \A i, j \in DOMAIN Append(thread_list, Idle) :
             Append(thread_list, Idle)[i] = Append(thread_list, Idle)[j] => i = j
      BY <1>3, <1>4, <2>1, AppendDistinct
    <3> QED
      BY <1>1, <3>1, Zenon
  <2>3. \A t \in Elements(thread_list') : Live(t)'
    BY <1>1, <1>4, <1>6, ThreadsApart DEF WakeInv, ListInv
  <2>4. current' # NoThread
    BY <1>1, ThreadsApart
  <2> QED
    BY <2>2, <2>3, <2>4 DEF ListInv
<1>8. CurrentInv'
  BY <1>1, <1>2, <1>5 DEF CurrentInv
<1>9. WaitInv'
  <2>1. sleep_time[Idle] = 0
    BY <1>3, <1>4, OnlyBlockedSleep
  <2>2. \A t \in AllThreads : t \in Threads \/ t = Idle
    BY DEF AllThreads
  <2> QED
    BY <1>1, <1>4, <1>5, <1>6, <2>1, <2>2, ThreadsApart DEF WakeInv, WaitInv, semVars
<1>10. OwnerInv'
  <2>1. ~Owns(cpu') /\ ~Owns(ctx'[Idle])
    BY <1>2, <1>5, FreshFacts DEF Owns, IdleContext, FreshContext
  <2>2. ASSUME NEW t \in Threads, Saved(t)', Owns(ctx'[t])
        PROVE  Saved(t) /\ Owned(ctx[t])'
    <3>1. Saved(t) /\ Owns(ctx[t]) /\ ctx'[t] = ctx[t]
      BY <1>5, <1>6, <2>2 DEF Saved
    <3>2. Owned(ctx[t]) /\ ctx[t].arg \in Threads
      BY <3>1, ThreadsApart DEF WakeInv, OwnerInv, SchedInv, Parked, Coherent, Owns
    <3>3. ctx[t].arg \notin Elements(thread_list')
      BY <1>4, <3>2, ThreadsApart DEF Owned
    <3> QED
      BY <1>5, <3>1, <3>2, <3>3 DEF Owned
  <2>3. \A t \in AllThreads : t \in Threads \/ t = Idle
    BY DEF AllThreads
  <2> QED
    BY <1>5, <2>1, <2>2, <2>3, ThreadsApart DEF WakeInv, OwnerInv, Owns
<1>11. PriorityInv'
  BY <1>2, <1>5 DEF WakeInv, PriorityInv
<1>12. NoLostWakeup'
  <2>1. \A s \in Sems : Rechecking(s) \subseteq Rechecking(s)'
    BY <1>1, <1>6 DEF Rechecking, semVars
  <2> QED
    BY <1>1, <2>1, WakeupsKept DEF WakeInv
<1> QED
  BY <1>7, <1>8, <1>9, <1>10, <1>11, <1>12 DEF WakeInv

-----------------------------------------------------------------------------
(* The invariant is inductive, and what follows from it.                   *)

LEMMA InitWake == Init => WakeInv
<1> SUFFICES ASSUME Init PROVE WakeInv
  OBVIOUS
<1>1. /\ thread_list = <<>> /\ current = NoThread /\ cpu = FreshContext
      /\ \A t \in AllThreads : state[t] = "FREE" /\ sleep_time[t] = 0
      /\ \A s \in Sems : wait_list[s] = <<>>
  BY DEF Init, CoreInit
<1>2. Elements(thread_list) = {} /\ \A s \in Sems : Elements(wait_list[s]) = {}
  BY <1>1 DEF Elements
<1>3. ~Owns(cpu) /\ \A t \in AllThreads : ~Live(t)
  BY <1>1, FreshFacts DEF Owns, Live, FreshContext
<1>4. ListInv
  BY <1>1, <1>2, ThreadsApart DEF ListInv
<1>5. CurrentInv /\ PriorityInv
  BY <1>1, ThreadsApart DEF CurrentInv, PriorityInv
<1>6. WaitInv
  BY <1>1, <1>2 DEF WaitInv
<1>7. OwnerInv /\ NoLostWakeup
  BY <1>1, <1>3 DEF OwnerInv, NoLostWakeup, Saved
<1> QED
  BY <1>4, <1>5, <1>6, <1>7 DEF WakeInv

LEMMA NextWake ==
    ASSUME SchedInv, WakeInv, SchedInv', LongSleeps, [Next]_vars
    PROVE  WakeInv'
<1>1. CASE CoreStep /\ UNCHANGED semVars
  BY <1>1, TrapWake, SpinWake, SpinUnlockWake, CallWake, MsleepBlockWake, MsleepEnableWake,
     SetPriorityWake, CallCreateWake, CallDestroyWake, CreateBodyWake, DestroyBodyWake,
     ExitBodyWake, SchedStartWake, HaltWake
     DEF CoreStep
<1>2. CASE SemStep
  BY <1>2, SemCallWake, SemWaitBodyWake, SemPostBodyWake DEF SemStep
<1>3. CASE (Tick \/ Interrupt) /\ UNCHANGED semVars
  BY <1>3, TrapWake
<1>4. CASE UNCHANGED vars
  <2>1. /\ UNCHANGED <<thread_list, state, priority, sleep_time, current, ctx, semVars>>
        /\ UNCHANGED cpu
    BY <1>4 DEF vars, coreVars
  <2>2. GoesOn
    BY <2>1 DEF GoesOn
  <2>3. CurrentInv'
    BY <2>1 DEF WakeInv, CurrentInv
  <2>4. Owns(cpu') => Owns(cpu) /\ cpu'.op = cpu.op /\ cpu'.arg = cpu.arg
    BY <2>1
  <2> QED
    BY <2>1, <2>2, <2>3, <2>4, QuietInv
<1> QED
  BY <1>1, <1>2, <1>3, <1>4 DEF Next, Run

\* Both invariants hold in every reachable state when clients do not yield
\* inside spinlocks and sleep for 0 or a whole tick.
THEOREM WakeInvariance ==
    ASSUME ~MayYieldHolding, LongSleeps
    PROVE  Spec => [](SchedInv /\ WakeInv)
<1>1. Init => WakeInv
  BY InitWake
<1>2. SchedInv /\ SchedInv' /\ WakeInv /\ [Next]_vars => WakeInv'
  BY NextWake
<1> QED
  BY <1>1, <1>2, Invariance, PTL DEF Spec

\* NoLostWakeup: a thread never sleeps in sem_wait while there are more tokens
\* than threads on their way to sem_wait's next look at the count.
THEOREM WakeupsNeverLost ==
    ASSUME ~MayYieldHolding, LongSleeps
    PROVE  Spec => []NoLostWakeup
<1>1. WakeInv => NoLostWakeup
  BY DEF WakeInv
<1> QED
  BY <1>1, WakeInvariance, PTL

\* HighestPriorityRuns: outside a call no listed thread that can run has a
\* higher priority than the running one; sched_thread's scan is right and every
\* change that could make it stale is followed by a sched_yield.
THEOREM HighestAlwaysRuns ==
    ASSUME ~MayYieldHolding, LongSleeps
    PROVE  Spec => []HighestPriorityRuns
<1>1. WakeInv => HighestPriorityRuns
  BY DEF WakeInv, PriorityInv, HighestPriorityRuns
<1> QED
  BY <1>1, WakeInvariance, PTL

\* The entries of t in the wait lists: none, or the one that WaitInv allows.
LEMMA OneEntry ==
    ASSUME SchedInv, WakeInv, NEW t \in AllThreads, NEW s \in Sems, NEW i \in DOMAIN wait_list[s],
           wait_list[s][i] = t
    PROVE  UNION {{r} \X {j \in DOMAIN wait_list[r] : wait_list[r][j] = t} : r \in Sems}
             = {<<s, i>>}
<1>1. t \in Elements(wait_list[s])
  BY DEF Elements
<1>2. \A r \in Sems : t \in Elements(wait_list[r]) => r = s
  BY <1>1 DEF WakeInv, WaitInv
<1>3. ASSUME NEW r \in Sems, NEW j \in DOMAIN wait_list[r], wait_list[r][j] = t
      PROVE  r = s /\ j = i
  <2>1. r = s
    BY <1>2, <1>3 DEF Elements
  <2> QED
    BY <1>3, <2>1 DEF WakeInv, WaitInv
<1>4. \A r \in Sems : {j \in DOMAIN wait_list[r] : wait_list[r][j] = t} = IF r = s THEN {i} ELSE {}
  BY <1>3
<1> QED
  BY <1>4

LEMMA NoEntry ==
    ASSUME NEW t, \A s \in Sems : t \notin Elements(wait_list[s])
    PROVE  UNION {{r} \X {j \in DOMAIN wait_list[r] : wait_list[r][j] = t} : r \in Sems} = {}
<1>1. \A r \in Sems : {j \in DOMAIN wait_list[r] : wait_list[r][j] = t} = {}
  BY DEF Elements
<1> QED
  BY <1>1

LEMMA OneWaker == ASSUME SchedInv, WakeInv PROVE BlockedHasOneWaker
<1> DEFINE Entries(t) ==
      UNION {{r} \X {j \in DOMAIN wait_list[r] : wait_list[r][j] = t} : r \in Sems}
<1> SUFFICES ASSUME NEW t \in AllThreads
             PROVE  IF state[t] = "BLOCK"
                      THEN Cardinality(Entries(t)) + (IF sleep_time[t] > 0 THEN 1 ELSE 0) = 1
                      ELSE Entries(t) = {} /\ sleep_time[t] = 0
  BY DEF BlockedHasOneWaker
<1>1. sleep_time[t] \in Nat
  BY DEF SchedInv, TypeOK
<1>2. CASE state[t] # "BLOCK"
  <2>1. sleep_time[t] = 0 /\ \A s \in Sems : t \notin Elements(wait_list[s])
    BY <1>2, OnlyBlockedSleep
  <2>2. Entries(t) = {}
    BY <2>1, NoEntry
  <2> QED
    BY <1>2, <2>1, <2>2
<1>3. CASE state[t] = "BLOCK" /\ sleep_time[t] > 0
  <2>1. \A s \in Sems : t \notin Elements(wait_list[s])
    BY <1>3 DEF WakeInv, WaitInv
  <2>2. Entries(t) = {}
    BY <2>1, NoEntry
  <2>3. Cardinality(Entries(t)) = 0
    BY <2>2, FS_EmptySet
  <2> HIDE DEF Entries
  <2> QED
    BY <1>3, <2>3
<1>4. CASE state[t] = "BLOCK" /\ sleep_time[t] = 0
  <2>1. PICK s \in Sems : t \in Elements(wait_list[s])
    BY <1>4 DEF WakeInv, WaitInv
  <2>2. PICK i \in DOMAIN wait_list[s] : wait_list[s][i] = t
    BY <2>1 DEF Elements
  <2>3. Entries(t) = {<<s, i>>}
    BY <2>2, OneEntry
  <2>4. Cardinality({<<s, i>>}) = 1
    BY FS_Singleton
  <2> HIDE DEF Entries
  <2> QED
    BY <1>4, <2>3, <2>4
<1> QED
  BY <1>1, <1>2, <1>3, <1>4

\* ThreadListSound: no list or current pointer leads to a freed thread, there
\* is always a thread to run, and a blocked thread has exactly one waker.
THEOREM ListsStaySound ==
    ASSUME ~MayYieldHolding, LongSleeps
    PROVE  Spec => []ThreadListSound
<1>1. SchedInv /\ WakeInv => ThreadListSound
  <2> SUFFICES ASSUME SchedInv, WakeInv PROVE ThreadListSound
    OBVIOUS
  <2>1. NoDanglingThread
    BY DEF NoDanglingThread, WakeInv, ListInv, WaitInv, SchedInv, IdleInv
  <2>2. IdleAlwaysRunnable
    BY DEF SchedInv, IdleInv, RunningInv, IdleAlwaysRunnable
  <2> QED
    BY <2>1, <2>2, OneWaker DEF ThreadListSound
<1> QED
  BY <1>1, WakeInvariance, PTL

-----------------------------------------------------------------------------
(* Contexts.                                                               *)

\* What ContextPreserved says of one step.
ContextsKept ==
    \A t \in AllThreads :
       /\ Live(t) /\ ~OnCpu(t) => ContextOf(t)' = ctx[t]
       /\ Live(t) /\ OnCpu(t) /\ current' # t => ctx'[t] \in {cpu, AfterEcall(cpu)}

LEMMA TrapKeepsContexts ==
    ASSUME SchedInv, WakeInv, SchedInv', UNCHANGED semVars, Tick \/ Interrupt \/ Yield
    PROVE  ContextsKept
<1>1. ASSUME NEW st, NEW c, Switches(st, c) PROVE ContextsKept
  <2>1. c \in {cpu, AfterEcall(cpu)}
    BY <1>1 DEF Switches
  <2> QED
    BY <1>1, <2>1, SwitchContexts DEF ContextsKept
<1>2. CASE Tick \/ Interrupt
  BY <1>1, <1>2, InterruptSwitches
<1>3. CASE Yield /\ current # NoThread
  BY <1>1, <1>3, YieldSwitches
<1>4. CASE Yield /\ current = NoThread
  BY <1>4, ThreadsApart DEF Yield, ContextsKept, ContextOf, OnCpu
<1> QED
  BY <1>2, <1>3, <1>4

\* A step of the running code touches no saved context of a live thread.
LEMMA RunKeepsContexts ==
    ASSUME SchedInv, current' = current,
           \A t \in AllThreads : Live(t) => ctx'[t] = ctx[t],
           cpu.step \notin {"yield", "halt"} \/ UNCHANGED cpu
    PROVE  ContextsKept
<1>1. cpu.op = "start" => cpu'.op = "start"
  BY DEF SchedInv, Coherent
<1> QED
  BY <1>1 DEF ContextsKept, ContextOf, OnCpu

LEMMA StepKeepsContexts ==
    ASSUME SchedInv, WakeInv, SchedInv', [Next]_vars
    PROVE  ContextsKept
<1>1. CASE (Tick \/ Interrupt \/ Yield) /\ UNCHANGED semVars
  BY <1>1, TrapKeepsContexts
<1>2. CASE \/ SpinCheck \/ SpinTry \/ SpinUnlock \/ CallYield \/ CallExit
           \/ \E l \in AppLocks : CallSpinLock(l) \/ CallSpinUnlock(l)
           \/ \E time \in SleepTimes : CallMsleep(time)
           \/ \E t \in Threads, p \in Priorities : CallSetPriority(t, p)
           \/ \E t \in Threads : CallDestroy(t)
  <2>1. UNCHANGED <<current, ctx>> /\ cpu.step \in {"check", "try", "unlock", "user"}
    BY <1>2, Zenon DEF SpinCheck, SpinTry, SpinUnlock, CallYield, CallExit, CallSpinLock,
       CallSpinUnlock, CallMsleep, CallSetPriority, CallDestroy, MayCall
  <2> QED
    BY <2>1, RunKeepsContexts
<1>3. CASE \/ MsleepBlock \/ MsleepEnable \/ CreateBody \/ DestroyBody \/ ExitBody
           \/ SemWaitBody \/ SemPostBody
           \/ \E s \in Sems : CallSemWait(s) \/ CallSemPost(s)
  <2>1. UNCHANGED <<current, ctx>> /\ cpu.step \in {"sleep", "wake", "crit", "user"}
    BY <1>3, Zenon DEF MsleepBlock, MsleepEnable, CreateBody, DestroyBody, ExitBody,
       SemWaitBody, SemPostBody, CallSemWait, CallSemPost, MayCall
  <2> QED
    BY <2>1, RunKeepsContexts
<1>4. CASE \E t \in Threads : CallCreate(t)
  <2>1. PICK t \in Threads : CallCreate(t)
    BY <1>4
  <2>2. \A u \in AllThreads : Live(u) => ctx'[u] = ctx[u]
    BY <2>1 DEF CallCreate, Live, SchedInv, TypeOK
  <2> QED
    BY <2>1, <2>2, RunKeepsContexts DEF CallCreate, MayCall
<1>5. CASE SchedStart
  <2>1. current = NoThread /\ ctx' = [ctx EXCEPT ![Idle] = IdleContext]
    BY <1>5, Zenon DEF SchedStart
  <2>2. cpu'.op = "start"
    BY <1>5, ZenonT(60) DEF SchedStart, Enter, SchedInv, TypeOK, Context
  <2>3. ~Live(Idle)
    BY <2>1 DEF WakeInv, ListInv, Live
  <2> QED
    BY <2>1, <2>2, <2>3, ThreadsApart DEF ContextsKept, ContextOf, OnCpu, SchedInv, TypeOK
<1>6. CASE SchedStartNoMemory
  BY <1>6, RunKeepsContexts DEF SchedStartNoMemory
<1>7. CASE Halted \/ UNCHANGED vars
  BY <1>7, RunKeepsContexts DEF Halted, vars, coreVars
<1> QED
  BY <1>1, <1>2, <1>3, <1>4, <1>5, <1>6, <1>7 DEF Next, Run, CoreStep, SemStep

\* ContextPreserved: interrupts, sched_yield and wake-ups switch threads out
\* and in without losing or mixing up the context of any of them.
THEOREM ContextsNeverLost ==
    ASSUME ~MayYieldHolding, LongSleeps
    PROVE  Spec => ContextPreserved
<1>1. SchedInv /\ WakeInv /\ SchedInv' /\ [Next]_vars => ContextsKept
  BY StepKeepsContexts
<1>2. ContextPreserved <=> [][ContextsKept]_vars
  BY PTL DEF ContextPreserved, ContextsKept
<1> QED
  BY <1>1, <1>2, WakeInvariance, PTL DEF Spec
=============================================================================
