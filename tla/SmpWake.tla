------------------------------- MODULE SmpWake -------------------------------
(***************************************************************************)
(* How the boot hart starts the other harts: wake_up_other_core of         *)
(* arch/riscv/src/smp.c, and the code in vector.S that the others run from *)
(* reset on.  Each hart has a mailbox, smp_context[hart]; the boot hart    *)
(* fills in stack, argument and at last the function, the hart polls for a *)
(* function, runs it and clears it.                                        *)
(*                                                                         *)
(* A job stands for the arguments of one wake_up_other_core call: each of  *)
(* the four words it writes holds the job, Zero, or Junk, what memory held *)
(* at reset.                                                               *)
(***************************************************************************)
EXTENDS Naturals, Sequences, FiniteSets

CONSTANTS
    Harts,          \* the harts other than the boot hart
    Jobs,           \* wake_up_other_core calls
    Zero, Junk,     \* a null word, and what memory holds at reset
    LoadsOrdered,   \* whether a hart's loads take effect in program order
    WakesRunning    \* whether a hart is woken again as soon as its function
                    \* has started, as test/c2clat does, or only once it has
                    \* returned and the hart polls again

ASSUME SmpAssumption ==
    /\ Zero \notin Jobs /\ Junk \notin Jobs /\ Zero # Junk
    /\ LoadsOrdered \in BOOLEAN /\ WakesRunning \in BOOLEAN

\* struct smp_context, in memory order.
Words == <<"sp", "fn", "priv", "stack_size">>
Word == {"sp", "fn", "priv", "stack_size"}
Values == Jobs \cup {Zero, Junk}

VARIABLES
    mbox,           \* smp_context
    regs,           \* what a hart has loaded from its mailbox
    pc,             \* where a hart is
    booted,         \* _boot_status and clear_bss: how far the boot hart is
    boot,           \* the boot hart's call: the hart, the job, words to store
    given,          \* the jobs given to each hart by calls that are complete
    started         \* the functions each hart has jumped to, in order

vars == <<mbox, regs, pc, booted, boot, given, started>>

NoCall == [hart |-> Zero, job |-> Zero, todo |-> {}]

-----------------------------------------------------------------------------
(* The boot hart.                                                          *)

\* Relocation is done: _boot_status is set.
Relocate ==
    /\ booted = "reset"
    /\ booted' = "relocated"
    /\ UNCHANGED <<mbox, regs, pc, boot, given, started>>

\* clear_bss; smp_context is in it.
ClearBss ==
    /\ booted = "relocated"
    /\ booted' = "main"
    /\ mbox' = [h \in Harts |-> [w \in Word |-> Zero]]
    /\ UNCHANGED <<regs, pc, boot, given, started>>

\* A hart that is past clearing its mailbox.  Nothing in the code waits for
\* this: the boot hart has all of its own initialisation in between.
Polls(h) == pc[h] \notin {"park", "clear1", "clear2", "clear3", "clear4"}

\* What the hart has begun.
Started(h) == {started[h][i] : i \in 1 .. Len(started[h])}

\* The hart has begun with everything it was given, and, unless clients are
\* hasty, is done with it.
MayWake(h) ==
    /\ Polls(h)
    /\ given[h] \subseteq Started(h)
    /\ WakesRunning \/ (pc[h] \in {"poll", "pollfn"} /\ mbox[h]["fn"] = Zero)

Wake(h, j) ==
    /\ booted = "main" /\ boot = NoCall
    /\ MayWake(h)
    /\ \A k \in Harts : j \notin given[k]
    /\ boot' = [hart |-> h, job |-> j, todo |-> {"sp", "stack_size", "priv"}]
    /\ UNCHANGED <<mbox, regs, pc, booted, given, started>>

\* The stores before the fence, in any order.
StoreArg(w) ==
    /\ w \in boot.todo
    /\ mbox' = [mbox EXCEPT ![boot.hart][w] = boot.job]
    /\ boot' = [boot EXCEPT !.todo = @ \ {w}]
    /\ UNCHANGED <<regs, pc, booted, given, started>>

\* The fence.
MayStoreFn == boot.todo = {}

\* The function is stored last.
StoreFn ==
    /\ boot # NoCall /\ MayStoreFn
    /\ mbox' = [mbox EXCEPT ![boot.hart]["fn"] = boot.job]
    /\ given' = [given EXCEPT ![boot.hart] = @ \cup {boot.job}]
    /\ boot' = NoCall
    /\ UNCHANGED <<regs, pc, booted, started>>

-----------------------------------------------------------------------------
(* The other harts.                                                        *)

ClearPcs == <<"clear1", "clear2", "clear3", "clear4">>

\* _secondary_park: wait for the boot hart's relocation.
Park(h) ==
    /\ pc[h] = "park" /\ booted # "reset"
    /\ pc' = [pc EXCEPT ![h] = "clear1"]
    /\ UNCHANGED <<mbox, regs, booted, boot, given, started>>

\* How many words clean_smp_context zeroes.
LastWord == 4

\* clean_smp_context, one word per iteration.
ClearWord(h, i) ==
    /\ pc[h] = ClearPcs[i]
    /\ mbox' = IF i <= LastWord THEN [mbox EXCEPT ![h][Words[i]] = Zero] ELSE mbox
    /\ pc' = [pc EXCEPT ![h] = IF i = 4 THEN "poll" ELSE ClearPcs[i + 1]]
    /\ UNCHANGED <<regs, booted, boot, given, started>>

\* secondary_core_poll: the arguments, then the function.
PollArgs(h) ==
    /\ pc[h] = "poll"
    /\ regs' = [regs EXCEPT ![h] = [w \in Word |-> IF w = "fn" THEN regs[h][w] ELSE mbox[h][w]]]
    /\ pc' = [pc EXCEPT ![h] = "pollfn"]
    /\ UNCHANGED <<mbox, booted, boot, given, started>>

\* Mutant: a register that is not loaded in the loop is tested.
PollFnStale(h) ==
    /\ pc[h] = "pollfn"
    /\ pc' = [pc EXCEPT ![h] = IF regs[h]["fn"] = Zero THEN "poll" ELSE "take_priv"]
    /\ UNCHANGED <<mbox, regs, booted, boot, given, started>>

PollFn(h) ==
    /\ pc[h] = "pollfn"
    /\ pc' = [pc EXCEPT ![h] = IF mbox[h]["fn"] = Zero THEN "poll" ELSE "take_priv"]
    /\ UNCHANGED <<mbox, regs, booted, boot, given, started>>

\* A load may return what the previous load of the same word returned, unless
\* loads are ordered: nothing but a branch separates them.
Loads(h, w) == IF LoadsOrdered \/ w = "fn" THEN {mbox[h][w]} ELSE {mbox[h][w], regs[h][w]}

TakePcs == [take_priv |-> "priv", take_sp |-> "sp", take_size |-> "stack_size", take_fn |-> "fn"]
AfterTake == [take_priv |-> "take_sp", take_sp |-> "take_size", take_size |-> "take_fn",
              take_fn |-> "jump"]

\* mul_core_wake_up: everything is loaded again.
Take(h) ==
    /\ pc[h] \in DOMAIN TakePcs
    /\ \E v \in Loads(h, TakePcs[pc[h]]) : regs' = [regs EXCEPT ![h][TakePcs[pc[h]]] = v]
    /\ pc' = [pc EXCEPT ![h] = AfterTake[pc[h]]]
    /\ UNCHANGED <<mbox, booted, boot, given, started>>

\* jalr.
Jump(h) ==
    /\ pc[h] = "jump"
    /\ started' = [started EXCEPT ![h] = Append(@, regs[h]["fn"])]
    /\ pc' = [pc EXCEPT ![h] = "run"]
    /\ UNCHANGED <<mbox, regs, booted, boot, given>>

\* The function returns, if it does.
FnReturns(h) ==
    /\ pc[h] = "run"
    /\ pc' = [pc EXCEPT ![h] = "clearfn"]
    /\ UNCHANGED <<mbox, regs, booted, boot, given, started>>

\* Mutant: the function is left in the mailbox.
EmptiedNot(m) == m

Emptied(m) == [m EXCEPT !["fn"] = Zero]

ClearFn(h) ==
    /\ pc[h] = "clearfn"
    /\ mbox' = [mbox EXCEPT ![h] = Emptied(@)]
    /\ pc' = [pc EXCEPT ![h] = "poll"]
    /\ UNCHANGED <<regs, booted, boot, given, started>>

-----------------------------------------------------------------------------
Init ==
    /\ mbox = [h \in Harts |-> [w \in Word |-> Junk]]
    /\ regs = [h \in Harts |-> [w \in Word |-> Zero]]
    /\ pc = [h \in Harts |-> "park"]
    /\ booted = "reset"
    /\ boot = NoCall
    /\ given = [h \in Harts |-> {}]
    /\ started = [h \in Harts |-> <<>>]

Hart(h) ==
    \/ Park(h) \/ (\E i \in 1 .. 4 : ClearWord(h, i))
    \/ PollArgs(h) \/ PollFn(h) \/ Take(h) \/ Jump(h) \/ ClearFn(h)

BootHart == Relocate \/ ClearBss \/ (\E w \in Word : StoreArg(w)) \/ StoreFn

Next ==
    \/ BootHart
    \/ \E h \in Harts, j \in Jobs : Wake(h, j)
    \/ \E h \in Harts : Hart(h) \/ FnReturns(h)

Spec == Init /\ [][Next]_vars

\* Every hart keeps executing; a function may run for ever.
FairSpec == Spec /\ WF_vars(BootHart) /\ \A h \in Harts : WF_vars(Hart(h))

-----------------------------------------------------------------------------
Pcs == {"park", "clear1", "clear2", "clear3", "clear4", "poll", "pollfn", "take_priv",
        "take_sp", "take_size", "take_fn", "jump", "run", "clearfn"}

\* Every variable has its type, and the mailbox of a hart that polls holds
\* nothing from before reset.
TypeOK ==
    /\ mbox \in [Harts -> [Word -> Values]]
    /\ \A h \in Harts : Polls(h) => Junk \notin {mbox[h][w] : w \in Word}
    /\ regs \in [Harts -> [Word -> Values]]
    /\ pc \in [Harts -> Pcs]
    /\ booted \in {"reset", "relocated", "main"}
    /\ boot = NoCall \/ boot \in [hart : Harts, job : Jobs, todo : SUBSET {"sp", "stack_size", "priv"}]
    /\ given \in [Harts -> SUBSET Jobs]
    /\ started \in [Harts -> Seq(Values)]

\* A hart jumps only to a function it was given, with the stack and argument
\* given with it: never to what memory held at reset, never with the words of
\* two calls mixed.
JobsIntact ==
    \A h \in Harts :
       pc[h] \in {"jump", "run"} => \E j \in given[h] : \A w \in Word : regs[h][w] = j

\* No call's function runs twice.
RunsOnce ==
    \A h \in Harts : \A i, k \in 1 .. Len(started[h]) :
       started[h][i] = started[h][k] => i = k

\* A hart runs exactly what one call of wake_up_other_core gave it, and runs
\* nothing twice.
JobsRunOnce == JobsIntact /\ RunsOnce

\* Every hart that is woken runs the function it was given.
WokenRuns == \A h \in Harts, j \in Jobs : j \in given[h] ~> j \in Started(h)

-----------------------------------------------------------------------------
(* The inductive invariant behind JobsIntact and RunsOnce, for harts whose *)
(* loads are ordered.                                                      *)

Early == {"park", "clear1", "clear2", "clear3", "clear4"}
Polling == {"poll", "pollfn"}
Taking == {"take_priv", "take_sp", "take_size", "take_fn", "jump"}

\* A mailbox that is being cleared, or that a hart reads: then it is empty or
\* holds one complete job that has not begun.
MailInv(h) ==
    /\ pc[h] \in {"clear2", "clear3", "clear4"} => mbox[h]["sp"] # Junk
    /\ pc[h] \in {"clear3", "clear4"} => mbox[h]["fn"] = Zero
    /\ pc[h] = "clear4" => mbox[h]["priv"] # Junk
    /\ pc[h] \in Taking => mbox[h]["fn"] # Zero
    /\ pc[h] \in Polling \cup Taking /\ mbox[h]["fn"] # Zero =>
          /\ mbox[h]["fn"] \in given[h] \ Started(h)
          /\ \A w \in Word : mbox[h][w] = mbox[h]["fn"]

\* What a hart has loaded of it.
RegsInv(h) ==
    /\ pc[h] \in Taking \ {"take_priv"} => regs[h]["priv"] = mbox[h]["fn"]
    /\ pc[h] \in Taking \ {"take_priv", "take_sp"} => regs[h]["sp"] = mbox[h]["fn"]
    /\ pc[h] \in {"take_fn", "jump"} => regs[h]["stack_size"] = mbox[h]["fn"]
    /\ pc[h] = "jump" => regs[h]["fn"] = mbox[h]["fn"]
    /\ pc[h] = "run" => \E j \in given[h] : \A w \in Word : regs[h][w] = j

HistoryInv(h) ==
    /\ Started(h) \subseteq given[h]
    /\ pc[h] \in Early => given[h] = {}
    /\ booted # "main" => pc[h] \in Early \cup Polling /\ given[h] = {}

\* While the boot hart stores, the hart does not take.
BootInv ==
    boot # NoCall =>
       /\ booted = "main"
       /\ \A k \in Harts : boot.job \notin given[k]
       /\ pc[boot.hart] \in Polling \cup {"run", "clearfn"}
       /\ pc[boot.hart] \in Polling => mbox[boot.hart]["fn"] = Zero
       /\ \A w \in {"sp", "stack_size", "priv"} \ boot.todo : mbox[boot.hart][w] = boot.job

SmpInv ==
    /\ TypeOK
    /\ RunsOnce
    /\ \A h \in Harts : MailInv(h) /\ RegsInv(h) /\ HistoryInv(h)
    /\ BootInv
=============================================================================
