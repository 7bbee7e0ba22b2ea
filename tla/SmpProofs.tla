----------------------------- MODULE SmpProofs -----------------------------
(***************************************************************************)
(* Proofs about the secondary harts, for any number of harts and of calls: *)
(* harts whose loads take effect in program order jump only to complete    *)
(* jobs, each once.                                                        *)
(***************************************************************************)
EXTENDS SmpWake, TLAPS

\* At reset nothing has been given or begun.
LEMMA InitSmpInv == Init => SmpInv
<1> SUFFICES ASSUME Init
             PROVE  SmpInv
  OBVIOUS
<1>1. TypeOK
  BY DEF Init, TypeOK, Polls, Pcs, Values
<1>2. RunsOnce
  BY DEF Init, RunsOnce
<1>3. ASSUME NEW h \in Harts
      PROVE  MailInv(h) /\ RegsInv(h) /\ HistoryInv(h)
  BY DEF Init, MailInv, RegsInv, HistoryInv, Early, Polling, Taking, Started
<1>4. BootInv
  BY DEF Init, BootInv
<1> QED
  BY <1>1, <1>2, <1>3, <1>4 DEF SmpInv

\* Setting _boot_status touches no mailbox.
LEMMA RelocateStep ==
    ASSUME SmpInv, Relocate
    PROVE  SmpInv'
<1>1. TypeOK'
  BY DEF Relocate, SmpInv, TypeOK, Polls
<1>2. RunsOnce'
  BY DEF Relocate, SmpInv, RunsOnce
<1>3. ASSUME NEW k \in Harts
      PROVE  MailInv(k)'
  BY DEF Relocate, SmpInv, MailInv, HistoryInv
<1>4. ASSUME NEW k \in Harts
      PROVE  RegsInv(k)'
  BY DEF Relocate, SmpInv, RegsInv
<1>5. ASSUME NEW k \in Harts
      PROVE  HistoryInv(k)'
  BY DEF Relocate, SmpInv, Started, HistoryInv
<1>6. BootInv'
  BY DEF Relocate, SmpInv, BootInv
<1> QED
  BY <1>1, <1>2, <1>3, <1>4, <1>5, <1>6 DEF SmpInv

\* Nobody has been given anything when .bss is cleared.
LEMMA ClearBssStep ==
    ASSUME SmpInv, ClearBss
    PROVE  SmpInv'
<1>1. TypeOK'
  BY SmpAssumption DEF ClearBss, SmpInv, TypeOK, Values
<1>2. RunsOnce'
  BY DEF ClearBss, SmpInv, RunsOnce
<1>3. ASSUME NEW k \in Harts
      PROVE  MailInv(k)'
  BY SmpAssumption DEF ClearBss, SmpInv, MailInv, HistoryInv, Word
<1>4. ASSUME NEW k \in Harts
      PROVE  RegsInv(k)'
  BY DEF ClearBss, SmpInv, RegsInv, HistoryInv, Early, Polling, Taking
<1>5. ASSUME NEW k \in Harts
      PROVE  HistoryInv(k)'
  BY DEF ClearBss, SmpInv, Started, HistoryInv
<1>6. BootInv'
  BY DEF ClearBss, SmpInv, BootInv
<1> QED
  BY <1>1, <1>2, <1>3, <1>4, <1>5, <1>6 DEF SmpInv

\* A hart that has begun with all it was given either runs or polls an
\* empty mailbox.
LEMMA WakeStep ==
    ASSUME SmpInv, NEW h \in Harts, NEW j \in Jobs, Wake(h, j)
    PROVE  SmpInv'
<1>1. TypeOK'
  BY DEF Wake, SmpInv, TypeOK, Polls
<1>2. RunsOnce'
  BY DEF Wake, SmpInv, RunsOnce
<1>3. ASSUME NEW k \in Harts
      PROVE  MailInv(k)'
  BY DEF Wake, SmpInv, Started, MailInv
<1>4. ASSUME NEW k \in Harts
      PROVE  RegsInv(k)'
  BY DEF Wake, SmpInv, RegsInv
<1>5. ASSUME NEW k \in Harts
      PROVE  HistoryInv(k)'
  BY DEF Wake, SmpInv, Started, HistoryInv
<1>6. BootInv'
  <2>1. pc[h] \in Polling \cup Taking => mbox[h]["fn"] = Zero
    BY DEF Wake, MayWake, SmpInv, MailInv
  <2>2. pc[h] \in Polling \cup {"run", "clearfn"}
    BY <2>1 DEF Wake, MayWake, Polls, SmpInv, TypeOK, Pcs, MailInv, Polling, Taking
  <2>3. /\ boot'.hart = h /\ boot'.job = j /\ boot'.todo = {"sp", "stack_size", "priv"}
        /\ booted' = "main" /\ UNCHANGED <<mbox, pc, given>> /\ \A k \in Harts : j \notin given[k]
    BY DEF Wake
  <2> QED
    BY <2>1, <2>2, <2>3 DEF BootInv
<1> QED
  BY <1>1, <1>2, <1>3, <1>4, <1>5, <1>6 DEF SmpInv

\* Argument words change only in an empty mailbox, or under a hart that has
\* loaded what it needs.
LEMMA StoreArgStep ==
    ASSUME SmpInv, NEW w \in Word, StoreArg(w)
    PROVE  SmpInv'
<1>1. TypeOK'
  <2>1. boot # NoCall /\ boot.hart \in Harts /\ boot.job \in Jobs
    BY DEF StoreArg, SmpInv, TypeOK, NoCall
  <2>2. mbox' \in [Harts -> [Word -> Values]]
    BY <2>1 DEF StoreArg, SmpInv, TypeOK, Values
  <2>3. ASSUME NEW k \in Harts, Polls(k)'
        PROVE  Junk \notin {mbox'[k][v] : v \in Word}
    BY <2>1, <2>3, SmpAssumption DEF StoreArg, SmpInv, TypeOK, Polls
  <2>4. boot' \in [hart : Harts, job : Jobs, todo : SUBSET {"sp", "stack_size", "priv"}]
    BY <2>1 DEF StoreArg, SmpInv, TypeOK
  <2> QED
    BY <2>2, <2>3, <2>4 DEF StoreArg, SmpInv, TypeOK
<1>2. RunsOnce'
  BY DEF StoreArg, SmpInv, RunsOnce
<1>3. ASSUME NEW k \in Harts
      PROVE  MailInv(k)'
  BY SmpAssumption DEF StoreArg, SmpInv, TypeOK, Started, MailInv, BootInv, Taking,
     Word, NoCall
<1>4. ASSUME NEW k \in Harts
      PROVE  RegsInv(k)'
  BY DEF StoreArg, SmpInv, RegsInv, BootInv, Polling, Taking, NoCall
<1>5. ASSUME NEW k \in Harts
      PROVE  HistoryInv(k)'
  BY DEF StoreArg, SmpInv, Started, HistoryInv
<1>6. BootInv'
  BY DEF StoreArg, SmpInv, TypeOK, BootInv, Word, NoCall
<1> QED
  BY <1>1, <1>2, <1>3, <1>4, <1>5, <1>6 DEF SmpInv

\* With the fence before it, the function completes the job.
LEMMA StoreFnStep ==
    ASSUME SmpInv, StoreFn
    PROVE  SmpInv'
<1>1. TypeOK'
  BY SmpAssumption DEF StoreFn, SmpInv, TypeOK, Polls, Word, Values
<1>2. RunsOnce'
  BY DEF StoreFn, SmpInv, RunsOnce
<1>3. ASSUME NEW k \in Harts
      PROVE  MailInv(k)'
  BY DEF StoreFn, MayStoreFn, SmpInv, TypeOK, Started, MailInv,
     HistoryInv, BootInv, Polling, Word
<1>4. ASSUME NEW k \in Harts
      PROVE  RegsInv(k)'
  BY DEF StoreFn, SmpInv, RegsInv, BootInv, Polling, Taking
<1>5. ASSUME NEW k \in Harts
      PROVE  HistoryInv(k)'
  BY DEF StoreFn, SmpInv, Started, HistoryInv, BootInv, Early, Polling
<1>6. BootInv'
  BY DEF StoreFn, BootInv
<1> QED
  BY <1>1, <1>2, <1>3, <1>4, <1>5, <1>6 DEF SmpInv

\* Leaving the park loop.
LEMMA ParkStep ==
    ASSUME SmpInv, NEW h \in Harts, Park(h)
    PROVE  SmpInv'
<1>1. TypeOK'
  BY DEF Park, SmpInv, TypeOK, Polls, Pcs
<1>2. RunsOnce'
  BY DEF Park, SmpInv, RunsOnce
<1>3. ASSUME NEW k \in Harts
      PROVE  MailInv(k)'
  BY DEF Park, SmpInv, Started, MailInv, Polling, Taking
<1>4. ASSUME NEW k \in Harts
      PROVE  RegsInv(k)'
  BY DEF Park, SmpInv, RegsInv, Taking
<1>5. ASSUME NEW k \in Harts
      PROVE  HistoryInv(k)'
  BY DEF Park, SmpInv, Started, HistoryInv, Early
<1>6. BootInv'
  BY DEF Park, SmpInv, BootInv, Polling
<1> QED
  BY <1>1, <1>2, <1>3, <1>4, <1>5, <1>6 DEF SmpInv

\* Each word that is cleared no longer holds junk.
LEMMA ClearWordStep ==
    ASSUME SmpInv, NEW h \in Harts, NEW i \in 1 .. 4, ClearWord(h, i)
    PROVE  SmpInv'
<1>1. TypeOK'
  BY SmpAssumption DEF ClearWord, LastWord, ClearPcs, Words, SmpInv, TypeOK, MailInv,
     Polls, Pcs, Word, Values
<1>2. RunsOnce'
  BY DEF ClearWord, SmpInv, RunsOnce
<1>3. ASSUME NEW k \in Harts
      PROVE  MailInv(k)'
  BY SmpAssumption DEF ClearWord, LastWord, ClearPcs, Words, SmpInv, TypeOK, Started,
     MailInv, Polling, Taking, Word
<1>4. ASSUME NEW k \in Harts
      PROVE  RegsInv(k)'
  BY DEF ClearWord, ClearPcs, SmpInv, RegsInv, Taking
<1>5. ASSUME NEW k \in Harts
      PROVE  HistoryInv(k)'
  BY DEF ClearWord, ClearPcs, SmpInv, Started, HistoryInv, Early, Polling
<1>6. BootInv'
  BY DEF ClearWord, ClearPcs, SmpInv, BootInv, Polling
<1> QED
  BY <1>1, <1>2, <1>3, <1>4, <1>5, <1>6 DEF SmpInv

\* Registers loaded while polling are not relied on.
LEMMA PollArgsStep ==
    ASSUME SmpInv, NEW h \in Harts, PollArgs(h)
    PROVE  SmpInv'
<1>1. TypeOK'
  BY DEF PollArgs, SmpInv, TypeOK, Polls, Pcs
<1>2. RunsOnce'
  BY DEF PollArgs, SmpInv, RunsOnce
<1>3. ASSUME NEW k \in Harts
      PROVE  MailInv(k)'
  BY DEF PollArgs, SmpInv, Started, MailInv, Polling, Taking
<1>4. ASSUME NEW k \in Harts
      PROVE  RegsInv(k)'
  BY DEF PollArgs, SmpInv, RegsInv, Taking
<1>5. ASSUME NEW k \in Harts
      PROVE  HistoryInv(k)'
  BY DEF PollArgs, SmpInv, Started, HistoryInv, Early, Polling
<1>6. BootInv'
  BY DEF PollArgs, SmpInv, BootInv, Polling
<1> QED
  BY <1>1, <1>2, <1>3, <1>4, <1>5, <1>6 DEF SmpInv

\* A function that is seen is complete and has not begun.
LEMMA PollFnStep ==
    ASSUME SmpInv, NEW h \in Harts, PollFn(h)
    PROVE  SmpInv'
<1>1. TypeOK'
  BY DEF PollFn, SmpInv, TypeOK, Polls, Pcs
<1>2. RunsOnce'
  BY DEF PollFn, SmpInv, RunsOnce
<1>3. ASSUME NEW k \in Harts
      PROVE  MailInv(k)'
  BY DEF PollFn, SmpInv, Started, MailInv, Polling, Taking
<1>4. ASSUME NEW k \in Harts
      PROVE  RegsInv(k)'
  BY DEF PollFn, SmpInv, RegsInv, Taking
<1>5. ASSUME NEW k \in Harts
      PROVE  HistoryInv(k)'
  BY DEF PollFn, SmpInv, Started, MailInv, HistoryInv, Early, Polling
<1>6. BootInv'
  BY DEF PollFn, SmpInv, BootInv, Polling
<1> QED
  BY <1>1, <1>2, <1>3, <1>4, <1>5, <1>6 DEF SmpInv

\* In order loads read the job that was seen.
LEMMA TakeStep ==
    ASSUME SmpInv, LoadsOrdered, NEW h \in Harts, Take(h)
    PROVE  SmpInv'
<1>1. TypeOK'
  BY DEF Take, Loads, TakePcs, AfterTake, SmpInv, TypeOK, Polls, Pcs, Word
<1>2. RunsOnce'
  BY DEF Take, SmpInv, RunsOnce
<1>3. ASSUME NEW k \in Harts
      PROVE  MailInv(k)'
  BY DEF Take, TakePcs, AfterTake, SmpInv, Started, MailInv, Taking
<1>4. ASSUME NEW k \in Harts
      PROVE  RegsInv(k)'
  BY DEF Take, Loads, TakePcs, AfterTake, SmpInv, TypeOK, MailInv,
     RegsInv, Taking, Word
<1>5. ASSUME NEW k \in Harts
      PROVE  HistoryInv(k)'
  BY DEF Take, TakePcs, AfterTake, SmpInv, Started, HistoryInv, Early,
     Polling
<1>6. BootInv'
  BY DEF Take, TakePcs, SmpInv, BootInv, Polling
<1> QED
  BY <1>1, <1>2, <1>3, <1>4, <1>5, <1>6 DEF SmpInv

\* The job begun is complete and had not begun before.
LEMMA JumpStep ==
    ASSUME SmpInv, NEW h \in Harts, Jump(h)
    PROVE  SmpInv'
<1>1. TypeOK'
  BY DEF Jump, SmpInv, TypeOK, Polls, Pcs, Word
<1>2. RunsOnce'
  <2>1. regs[h]["fn"] \notin Started(h)
    BY DEF Jump, SmpInv, RegsInv, MailInv, Taking
  <2>2. ASSUME NEW k \in Harts, NEW a \in 1 .. Len(started'[k]), NEW b \in 1 .. Len(started'[k]),
               started'[k][a] = started'[k][b]
        PROVE  a = b
    <3>1. CASE k # h
      BY <2>2, <3>1 DEF Jump, SmpInv, RunsOnce
    <3>2. CASE k = h
      <4> DEFINE s == started[h]
                 n == Len(s) + 1
      <4>1. s \in Seq(Values) /\ Len(s) \in Nat
        BY DEF SmpInv, TypeOK
      <4>2. started'[h] = Append(s, regs[h]["fn"])
        BY DEF Jump, SmpInv, TypeOK
      <4>3. \A c \in 1 .. n : started'[h][c] = IF c = n THEN regs[h]["fn"] ELSE s[c]
        BY <4>1, <4>2
      <4>4. a \in 1 .. n /\ b \in 1 .. n
        BY <4>1, <4>2, <3>2
      <4>5. \A c \in 1 .. Len(s) : s[c] # regs[h]["fn"]
        BY <2>1 DEF Started
      <4>6. \A c, d \in 1 .. Len(s) : s[c] = s[d] => c = d
        BY DEF SmpInv, RunsOnce
      <4>7. started'[h][a] = started'[h][b]
        BY <2>2, <3>2
      <4> HIDE DEF s
      <4> QED
        BY <4>1, <4>3, <4>4, <4>5, <4>6, <4>7
    <3> QED
      BY <3>1, <3>2
  <2> QED
    BY <2>2 DEF RunsOnce
<1>3. ASSUME NEW k \in Harts
      PROVE  MailInv(k)'
  BY DEF Jump, SmpInv, TypeOK, Started, MailInv, Polling, Taking
<1>4. ASSUME NEW k \in Harts
      PROVE  RegsInv(k)'
  BY DEF Jump, SmpInv, MailInv, RegsInv, Taking, Word
<1>5. ASSUME NEW k \in Harts
      PROVE  HistoryInv(k)'
  BY DEF Jump, SmpInv, Started, MailInv, RegsInv, HistoryInv, Early,
     Taking
<1>6. BootInv'
  BY DEF Jump, SmpInv, BootInv
<1> QED
  BY <1>1, <1>2, <1>3, <1>4, <1>5, <1>6 DEF SmpInv

\* The mailbox still holds the old job, or a new one.
LEMMA FnReturnsStep ==
    ASSUME SmpInv, NEW h \in Harts, FnReturns(h)
    PROVE  SmpInv'
<1>1. TypeOK'
  BY DEF FnReturns, SmpInv, TypeOK, Polls, Pcs
<1>2. RunsOnce'
  BY DEF FnReturns, SmpInv, RunsOnce
<1>3. ASSUME NEW k \in Harts
      PROVE  MailInv(k)'
  BY DEF FnReturns, SmpInv, Started, MailInv, Polling, Taking
<1>4. ASSUME NEW k \in Harts
      PROVE  RegsInv(k)'
  BY DEF FnReturns, SmpInv, RegsInv, Taking
<1>5. ASSUME NEW k \in Harts
      PROVE  HistoryInv(k)'
  BY DEF FnReturns, SmpInv, Started, HistoryInv, Early, Polling
<1>6. BootInv'
  BY DEF FnReturns, SmpInv, BootInv, Polling
<1> QED
  BY <1>1, <1>2, <1>3, <1>4, <1>5, <1>6 DEF SmpInv

\* An empty mailbox is what the hart polls next.
LEMMA ClearFnStep ==
    ASSUME SmpInv, NEW h \in Harts, ClearFn(h)
    PROVE  SmpInv'
<1>1. TypeOK'
  BY SmpAssumption DEF ClearFn, Emptied, SmpInv, TypeOK, Polls, Pcs, Word, Values
<1>2. RunsOnce'
  BY DEF ClearFn, SmpInv, RunsOnce
<1>3. ASSUME NEW k \in Harts
      PROVE  MailInv(k)'
  BY DEF ClearFn, Emptied, SmpInv, TypeOK, Started, MailInv, Taking, Word
<1>4. ASSUME NEW k \in Harts
      PROVE  RegsInv(k)'
  BY DEF ClearFn, SmpInv, RegsInv, Taking
<1>5. ASSUME NEW k \in Harts
      PROVE  HistoryInv(k)'
  BY DEF ClearFn, SmpInv, Started, HistoryInv, Early, Polling
<1>6. BootInv'
  BY DEF ClearFn, Emptied, SmpInv, TypeOK, BootInv, Polling, Word
<1> QED
  BY <1>1, <1>2, <1>3, <1>4, <1>5, <1>6 DEF SmpInv

\* Steps that change nothing.
LEMMA StutterStep ==
    ASSUME SmpInv, UNCHANGED vars
    PROVE  SmpInv'
<1>1. TypeOK' /\ RunsOnce' /\ BootInv'
  BY DEF vars, SmpInv, TypeOK, RunsOnce, BootInv, Polls
<1>2. ASSUME NEW h \in Harts
      PROVE  MailInv(h)' /\ RegsInv(h)' /\ HistoryInv(h)'
  BY DEF vars, SmpInv, MailInv, RegsInv, HistoryInv, Started
<1> QED
  BY <1>1, <1>2 DEF SmpInv

\* SmpInv is an invariant when loads are ordered: every mailbox that a hart
\* reads is empty or holds one complete call of wake_up_other_core that has
\* not begun.
THEOREM SmpInvariance ==
    ASSUME LoadsOrdered
    PROVE  Spec => []SmpInv
<1>1. ASSUME SmpInv, [Next]_vars
      PROVE  SmpInv'
  <2>1. CASE BootHart
    BY <1>1, <2>1, RelocateStep, ClearBssStep, StoreArgStep, StoreFnStep DEF BootHart
  <2>2. CASE \E h \in Harts, j \in Jobs : Wake(h, j)
    BY <1>1, <2>2, WakeStep
  <2>3. ASSUME NEW h \in Harts, Hart(h)
        PROVE  SmpInv'
    BY <1>1, <2>3, ParkStep, ClearWordStep, PollArgsStep, PollFnStep, TakeStep,
       JumpStep, ClearFnStep DEF Hart
  <2>4. CASE \E h \in Harts : FnReturns(h)
    BY <1>1, <2>4, FnReturnsStep
  <2>5. CASE UNCHANGED vars
    BY <1>1, <2>5, StutterStep
  <2> QED
    BY <1>1, <2>1, <2>2, <2>3, <2>4, <2>5 DEF Next
<1>2. SmpInv /\ [Next]_vars => SmpInv'
  BY <1>1
<1> QED
  BY <1>2, InitSmpInv, PTL DEF Spec

\* A hart that has reached its polling loop has nothing of what memory held at
\* reset in its mailbox (clean_smp_context, clear_bss).
THEOREM MailboxesTyped ==
    ASSUME LoadsOrdered
    PROVE  Spec => []TypeOK
<1>1. SmpInv => TypeOK
  BY DEF SmpInv
<1> QED
  BY <1>1, SmpInvariance, PTL

\* What a hart jumps to, with which stack and argument, is one call of
\* wake_up_other_core (the fence in smp.c, the loads in vector.S).
THEOREM JobsStayIntact ==
    ASSUME LoadsOrdered
    PROVE  Spec => []JobsIntact
<1>1. SmpInv => JobsIntact
  <2> SUFFICES ASSUME SmpInv, NEW h \in Harts, pc[h] \in {"jump", "run"}
               PROVE  \E j \in given[h] : \A w \in Word : regs[h][w] = j
    BY DEF JobsIntact
  <2>1. CASE pc[h] = "run"
    BY <2>1 DEF SmpInv, RegsInv
  <2>2. CASE pc[h] = "jump"
    <3>1. mbox[h]["fn"] \in given[h]
      BY <2>2 DEF SmpInv, MailInv, Taking
    <3>2. \A w \in Word : regs[h][w] = mbox[h]["fn"]
      BY <2>2 DEF SmpInv, RegsInv, Taking, Word
    <3> QED
      BY <3>1, <3>2
  <2> QED
    BY <2>1, <2>2
<1> QED
  BY <1>1, SmpInvariance, PTL

\* The function is cleared before the hart polls again: no call runs twice.
THEOREM NothingRunsTwice ==
    ASSUME LoadsOrdered
    PROVE  Spec => []RunsOnce
<1>1. SmpInv => RunsOnce
  BY DEF SmpInv
<1> QED
  BY <1>1, SmpInvariance, PTL

\* Both together: what the smp_wake run checks, for any number of harts.
THEOREM JobsRunOnceAlways ==
    ASSUME LoadsOrdered
    PROVE  Spec => []JobsRunOnce
<1>1. JobsIntact /\ RunsOnce => JobsRunOnce
  BY DEF JobsRunOnce
<1> QED
  BY <1>1, JobsStayIntact, NothingRunsTwice, PTL
=============================================================================
