# Verification of zsbl

zsbl is the zero-stage boot loader of Sophgo's RISC-V chips: the first code a
chip runs after its ROM. It brings up one hart, finds a boot device, loads and
(on secure chips) verifies the next images, edits the device tree, starts the
other harts and jumps. It also carries a small kernel of its own (preemptive
threads with semaphores and spinlocks, a virtual file system, drivers, a command
line) and, for its build, kconfig.

This directory holds TLA+ models of its parts, the TLC configurations that
check them on small instances, and TLAPS proofs for all sizes. `PROJECT.json`
maps the definitions to the lines they model, the state, the actions and the
larger operators before the helpers whose lines lie inside theirs, and lists the
hazards of the code, each with the properties that watch it.

## The system and its models

| Part | State | Operations | Modules |
|---|---|---|---|
| threads (`common/thread.c`, `arch/riscv`) | `thread_list`, `current`; of each thread state, priority, sleep time, saved context; the global `preempt_count`, interrupt enable | create, destroy, exit, yield, msleep, set_priority, start; tick | `SchedCore` |
| spinlocks, semaphores | lock words; counts and wait lists | lock, unlock; init, wait, post | `SchedCore`, `Semaphore` |
| the same as clients see it | lives, calls in progress, lock owners, tokens | one atomic step per call | `Threading` |
| VFS and filesystems (`common/vfs.c`, `fs/`) | node tree, mounts, open files, next descriptor | mkdir, mkdir_p, mknod, unlink, lookup, ls, mount, umount, open, read, lseek, close | `Vfs` |
| secondary harts (`smp.c`, `vector.S`) | one mailbox per hart | `wake_up_other_core`; poll, run, clear | `SmpWake` |
| devices, interrupts (`drivers/platform`, `irqchip`, `serial`) | device states, chips, handler lists, lines in service | probe, request, claim, handle, end of interrupt | `Devices` |
| boot devices, volumes, mounts (`drivers/boot`, `diskio.c`, `sgfat.c`, `sgmtd.c`, `automount.c`, `flashmount.c`) | sorted device list, volume table | wrap, register, set priority, load with fallback | `BootDev` |
| boot flow (`plat/sg2042`, `plat/sg2044`) | configuration, what lies in memory, which harts left | configure, load, verify, edit the tree, wake, jump | `Boot` |
| cores of the bm1690 (`tp_dtb.c`) | one tree per core | modify_tpu_dtb | `TpDtb` |
| fuses (`nvmem.c`, `sophgo-efuse.c`) | write-once cells | read, write | `Efuse` |
| console (`lib/cli`, `loads`) | line, escape buffer, snooped character | pump, parse, run | `Console` |
| XMODEM (`lib/xmodem`) | packets saved | receive, against a sender | `XModem` |
| SD, eMMC (`sdhci-dwc`) | interrupt status, transfer, card | command, data, write, erase, timeouts | `SdMmc` |
| flash (`spifmc-sophgo`, `cfi-flash`) | FIFO, chip | read, erase, program, verify | `Flash` |
| virtio disk | descriptors, rings, indices | probe, read | `Virtio` |
| FatFs (`ff.c`, `ffunicode.c`, `fatfs.c`) | window, object, FAT, directories | mount, find, list, open, seek, read | `FatFs` |
| libfdt (`lib/fdt`) | the blob, byte by token-sized byte | searches; edits; sequential writer; overlays | `Fdt`, `FdtRw`, `FdtSw`, `FdtOverlay` |
| hashes and PKA (`lib/hash`, `drivers/alg`, `akcipher`) | digest buffers; engine, semaphore, operand banks | update, final; load, call, wait, verify | `Engines` |
| C library (`lib/libc`, `list.h`, `stdio.c`), `lib/ini` | heap; lists; the shared print buffer | malloc, free, realloc, memalign; list calls; getopt; strings; printf; ini_parse | `Malloc`, `LinkedList`, `Libc` |
| kconfig (`scripts/`) | expressions, menus, symbol values, configuration files, dialogs | parse, simplify, evaluate, save, sync; keys | `KExpr`, `KMenu`, `KSymbol`, `KPre`, `KBuild`, `Lxdialog` |

`MCSemaphore`, `MCVfs`, `MCIo`, `MCBoot`, `MCLibs`, `MCFat`, `MCFdt` and
`MCKconfig` instantiate them for TLC; `SchedProofs`, `WaitProofs`,
`ThreadingProofs`, `VfsProofs`, `SmpProofs`, `BootProofs`, `BoardProofs` and
`DriverProofs` hold the proofs. `Semaphore` extends `SchedCore` and implements `Threading`; `FdtRw`
and `FdtSw` extend `Fdt`; `KMenu` extends `KExpr`, `KSymbol` extends `KMenu`.
Parts that share no state are checked in one run: a variable (`part`, `lib`,
`kpart`) says which of them a behaviour is about.

What is hard here: threads are preempted by a timer at every instruction with
interrupts on; a thread that blocks does so in several steps with interrupts on
in between; the preemption count is global; allocations fail in the middle of
operations; nodes of the file system are freed while other objects may point to
them; harts, cards, DMA engines and the serial line run on their own; timeouts
give up what the hardware still does; a build may be killed between two renames.

Definitions whose comment begins with "Mutant", and the few short ones named
after what they get wrong directly in front of the definition they vary
(`SwapAnywhere`, `SameJunction`, ...), are not part of a model. Each is a
plausible mistake, and the property it is listed with in `PROJECT.json` fails
when it takes that definition's place.

### Threads, spinlocks, semaphores

`lock` are the lock words, `count` and `wait_list` the semaphores. A context
(`cpu` for the one on the hart, `ctx` for saved ones) stands for the registers:
the operation the thread is inside of, the step it has reached, its argument,
the client locks it holds and MIE.

An action is the code between two points where an interrupt can come in. With
MIE set that is almost every instruction, so `sem_wait` is: check and take the
lock (`SpinCheck`, `SpinTry`), the critical section (`SemWaitBody`), unlock
(`SpinUnlock`), ecall (`Yield`), and again. `sched_msleep` marks the thread with
interrupts off, enables them, and only then yields (`MsleepBlock`,
`MsleepEnable`, `Yield`). `Tick` is the timer interrupt with `sched_tick` and
the switch; `Interrupt` any other one, after which `trap_handler` switches as
well. `SwitchFrom` is `sched_thread`: save (only a RUNNING or BLOCK `current` is
saved), scan from `current` for the highest priority, unlink a DEAD thread.
`SchedStart` includes the failure of the idle thread's allocation, after which
the hart halts.

`Calls`, `SleepTimes`, `Priorities` and `MayYieldHolding` say what clients do.
`MayYieldHolding = FALSE` is the rule that nobody sleeps inside a spinlock; the
code does not state it, and `test_multi_thread_stress.c` breaks it.

### Virtual file system

`alive`, `name`, `type`, `parent`, `child` are the tree, `mnt` and `mroot` the
mounts, and `call` the one VFS call in progress: the VFS has no locks and is
called from one thread. A walk takes one segment per step; a filesystem's
`lookup`, `iterate` and `mount` create their nodes one by one, and every
allocation may fail. `Busy`, `Unlinkable`, `Mountable` and `MayCreate` are the
code's tests. `vfs_next_fd++` is a signed overflow at INT_MAX (`FdMax`):
`NextFds` lets it wrap to a negative value, which the test behind it resets, or
lets the compiler have dropped the test.

### The other harts

`mbox` is `smp_context`, `regs` what a hart has loaded, `pc` where it is in
`vector.S`. Memory holds `Junk` at reset. The stores of the boot hart before its
fence become visible in any order, the function after them; each `ld` and `sd`
that matters is a step. `given` and `started` are history. `Polls(h)` in
`MayWake` is an assumption about timing: the boot hart wakes a hart only once
that hart is past `clean_smp_context`. No code waits for it.

### Boot

`Devices` walks a tree node by node, with interrupts coming in between;
`BootDev` registers what a board has, wraps volumes and partitions, and loads
files by the sorted list; `Boot` is `plat_main` of the sg2042 and the sg2044.
Its state is where `plat_main` is (`pc`), the configuration (`cfg`), which
conf.ini is applied (`fresh`: what was loaded, or what the boot before left at
its address) and how many of its lines `handler_img` has had (`applied`, one line
per step), what lies in every cell of memory, which signatures were verified, the
tree, and which harts were woken and with what they left. A load, a signature or
a tree edit may fail at every step. `modify_dtb` does not look at what its edits
return: one that finds no room leaves its part out and the boot goes on. The
tree's `room` records it, and `HandOverSound` then still promises the base, the
overlay and memory nodes that are there, but not the ramfs, the command line, the
operating point and every memory node. `TpDtb` edits the trees of the bm1690's
cores, each in its own memory. A core whose bootargs have no `initrd=`, or whose
heap is used up (`tp_dtb.c:246`, `:255`), works on address 0 or next to it; that
is step `lost`, from which it need not come back, and what it overwrites is out
of scope. `BoardAssumption` says what a board is: files of
any size, any lines of conf.ini (a section, a field and a value, a number where
the code calls `strtoul`), any fuses and flags, and DDR registers with the codes
that stand for 1 to 128 GB or none.

### Drivers

Each driver is modelled with its peer. `XModem`'s line loses or damages a byte,
a packet or a reply; its sender is the protocol's usual one. `SdMmc`'s card
answers late or with errors, and goes on with commands the driver gave up.
`Flash` has a FIFO of limited depth that the controller fills, sends addresses in
three bytes that wrap, and may program only the start of a page: when the FIFO
does not empty within 300 ms, `spi_page_program` drops the error. A program is
refused for an unknown flash or a base inside a sector, and its last page may be
a part of one. A comparison after a read that was given up is made with what
`cmp_buf` happens to hold; `FlashExact` promises nothing of such a program
(`blind`). `SdMmc` is the protocol of an SD card; the branches of `mmc.c` for an
eMMC are left out. `Virtio`'s device
works while the driver runs; the used index wraps. `Console` receives characters
in pieces cut anywhere.

### Libraries and tools

`FatFs` reads a volume that is data: boot sectors, FAT, directories and names as
small alphabets, with cluster chains and entries encoded as on disk. `Fdt` keeps
the blob as a sequence of tokens of two bytes with the header's offsets, so that
moves, overlaps and running out of room are what they are in C. The helpers of
`fdtput.c` are modelled with all that can go wrong in them: `xrealloc` and `malloc`
return NULL (libfdt refuses the tree at address 0; a firmware that traps there
stops inside the call), the copy `of_modify_prop` works on is as long as its
caller says, its type may be unknown, and it is written back over the caller's
buffer whatever the size of that. `Malloc` has
dlmalloc's chunks with sizes, feet and bins over a small arena. `Engines` keeps the
buffering and padding and leaves the compression uninterpreted; the firmware is
parsed stage by stage, each with an allocation that may fail. A probe that fails
frees `dev->regs`, which no malloc returned (`pkadev.c:135`), and ends as failed
or trapped; a call whose second allocation fails loses the first (`leaked`). `KSymbol`
computes values on demand and caches them, `KBuild` is the sequence of file
operations of `conf`, `syncconfig`, the compiler and `fixdep` with kills between
any two of them.

## Runs

| Run | Instance | States | Shows |
|---|---|---|---|
| `thread_safety` | 2 threads and idle, every call, 2 client locks, priorities 1 and 2, sleeps of none or a whole tick, failing start, counts to 2 | 403,925 | types; lock words, `preempt_count` and MIE agree and nobody spins; lists are sound; highest priority runs; no wake-up is lost; no context is lost; refinement of `Threading` |
| `thread_liveness` | 2 threads of equal priority, fair | 27,527 | runnable threads run, sleepers wake, locks and tokens are obtained |
| `vfs` | 4 nodes, 2 mounts of 2 types, paths of 2 segments, INT_MAX = 1, 3 opens | 976,244 | no pointer to freed memory, descriptors unique over the overflow, reads inside the file; open files reachable, nothing leaks when mounts do not nest |
| `smp_wake` | 2 harts, 3 calls, fair; clients wait for a hart to be done | 112,311 | complete jobs only, each once; whoever is woken runs |
| `io` | one port and 2 commands; 4 packets and 2 line faults; 2 blocks and 1 card fault; 64 bytes of flash, 48 of them within three address bytes; 5 requests on a ring whose index wraps at 4 | 236,865 | lines run as typed whatever the cuts; downloads, card and flash deliver what is stored; the ring is sound; nothing else on a medium changes; calls end |
| `boot` | 4 trees, small boards with one fault, 3 harts, 3 cores, 2 fuse cells | 75,939 | probing and routing; volumes and best device; only verified, intact, complete images are handed over; fuses exact; the boot ends |
| `libs` | messages to 13 bytes over blocks of 4; keys and banks of words; an arena of 3000 bytes, 5 calls; 3 list entries; every string over 4 bytes; 2 printers over a buffer of 7; INI documents of 3 lines | 102,776 | each function returns what a reference definition says; the heap's tags and bins agree; shared printing; verification ends |
| `fat` | volumes of each FAT kind, fragmented, damaged or none; 2 lookups, 2 reads, 1 disk fault | 313,345 | what is found, listed and read is what the volume holds |
| `fdt` | 4 blobs with 3 buffer sizes and 2 edits; 9 writer calls in 3 buffers; 3 bases with 2 overlays | 36,509 | edits and overlays do what they do on abstract trees or change nothing |
| `kconfig` | expressions of 3 leaves, 4 statements, 2 edits of 2 configurations, 2 changes and 1 kill, windows of 1 to 6 rows | 281,296 | values kept, menus as written, caches current, no answer lost, no stale object, dialogs keep their place |
| `short_sleep`, `vfs_nested_umount` | expect a violation | | see findings |

Why the bounds are enough: a lost wake-up takes a thread that waits and one that
posts, with counts that allow a token for a thread already on its way; a lock
order problem takes two threads and two locks; `sched_thread`'s scan tells apart
only current, a better and a worse thread, and idle is the third. In the VFS the
shortest bad nesting is a mount inside a mount. Three descriptors over an
INT_MAX of 1 meet used ones on both sides of the wrap. The harts do not interact
with each other; three calls let one be woken, run and be woken again while the
other starts. Drivers' quantities are chosen to be below, at and above each unit
(word, FIFO, frame, sector, block, page, cluster, ring, buffer). Heap requests
are small, in a small bin and in a large one, with an arena that grows, trims
and ends. For the threads, the VFS, the harts, the boot flow, the flash, the virtio
disk and the download the proofs below close what the bounds leave open for
safety.

Deadlock is not checked where behaviours end: the boot is over, the calls that
a run makes are made, or the hart has halted.

### Fairness

Threads: the hart keeps executing (`WF_vars(Run)`). A thread that is scheduled
again and again gets instructions in, as ticks are 10 ms apart
(`SF_vars(current = t /\ Run)`). A timer interrupt that comes due with MIE clear
stays pending until `mtimer_isr` moves `mtimecmp` (`SF_vars(Tick ...)`). That
locks are obtained also needs clients that leave the locks they entered
(`HoldersRelease`). Harts: each keeps executing; a function that was started may
run for ever. Drivers: the code polls, so it keeps stepping; so does hardware
that works at all. A card, a flash or an engine that is stuck is the exception
each liveness property names where the code waits without a bound. XMODEM ends
because the line's faults are bounded, not because the receiver counts them.

## Findings

Checked by a run that expects the violation:

- `short_sleep`: `sched_msleep` of less than one tick can be woken by a tick
  between its interrupt-enable and its ecall. It is then RUNNABLE when
  `sched_thread` looks whether to save it, is not saved, and resumes from an
  older context; such a thread may even append itself to a list twice.
- `vfs_nested_umount`: the busy check of `vfs_umount` does not see files in
  filesystems mounted further inside, contrary to the header.

Stated in the modules, and violated when they are checked:

- `CancelAborts` (`XModem`): `xmodem.c:16` describes CAN; a single one is data.
- `IterateComplete` (`FatFs`): the listing of `fatfs.c` leaves out paths of
  `FATFS_PATH_MAX` characters or more without an error.
- `TreeKept` (`Boot`): `of_modify_prop` on the sg2042 copies only as many bytes
  as the file had, after the tree has grown.
- `FullIsRefused` (`BootDev`): `fatio_register`'s search does not stop at the
  end of the table (`diskio.c:72`).
- `NullMeansFull`, `TrimTouchesNothing` (`Malloc`): `crt.c:150` refuses some
  requests that fit, and malloc does not see memory given back by trimming.
- `RoomKept` (`Libc`): a message's 256th character is lost.
- `CachedIsCurrent` with `LimitedKconfigs`: `sym_set_string_value` returns
  without `sym_clear_all_valid` when the value did not change but its range did.

Behaviour that the models show and no document contradicts:

- Threads that sleep inside a spinlock hand their `preempt_count` to the next
  thread, which then spins with interrupts off (`MayYieldHolding = TRUE`).
- A hart woken again while its function still runs erases the new function when
  the old one returns (`WakesRunning = TRUE`), as `c2clat` can meet.
- `sysfs_mount` leaks its root node when its second allocation fails.
- XMODEM saves a packet twice if its ACK is damaged, or if the sender takes a C
  for a NAK after a damaged first packet; after that a damaged packet can be
  skipped. Blocks 1, 2 and 4 look like SOH, STX and EOT: a block 4 whose header
  is lost ends the transfer as a success.
- A failed mount in `fatfs_mount` leaves a volume pointing to freed memory; a
  disk error in `dir_next` leaves the directory position advanced.
- `fdt_open_into` that reorders in place reads `boot_cpuid` from an overwritten
  header; an overlay's phandle replaces that of a base node; `create_paths` with a
  trailing slash makes a node without a name.
- `realloc_fdt` ignores the results of `xrealloc` and `fdt_open_into`: when the
  heap is used up `create_paths` gives its caller NULL for the tree.
  `of_modify_prop` then fails and leaves the tree alone; when it succeeds it
  writes behind the caller's buffer exactly as far as the packed tree does not
  fit, and of a tree that was copied short nothing is promised (`EditsExact`).
- A `.config` edited while syncconfig runs is missed; a kill between
  `conf_write`'s renames leaves only `.config.old`; `do_shell` cuts output at
  255 bytes; `sym_calc_choice` drops a choice's answer while a visible value has
  none.
- A dialog that is enlarged while scrolled prints past its last item;
  `print_position` divides by the size of an empty text.
- RSA keys below 256 bytes never verify; `sm2_verify` hashes an uninitialised
  local; `akcipher_invoke_key` ignores the result of `extract_keys`.

What the properties leave out, because the code does it wrong or nothing in the
tree decides it:

- `DownloadExact` allows repeated blocks where a reply was lost or damaged;
  `IoCompletes` counts on a line that works again, and takes data lines that stay
  busy after a transfer was given up for its exception (`sd.c:209`).
- `MediaKept` leaves out the erase of byte-addressed cards (`mmc.c:662`).
- `DevicesSound` lets a line stay in service after a handler reported
  `IRQ_HANDLED`, and on no other path of `irq_handler`.
- `BootDevicesSound` lets the volume table keep freed owners that no mount and no
  boot device reads through.
- `HandOverSound` is relative to the conf.ini that was parsed: nothing in the code
  tells a file that could not be read from what lay at its address.
- `EnginesExact` and `LibCallsEnd` leave out a firmware that lacks a function,
  whose call keeps the semaphore (`pkadev.c:206`).
- `LibcExact` expects a long message without the character that the shared buffer
  loses, and `strcpy` and `strcat` as they are written.
- `NothingLeaks` leaves out the root that `sysfs_mount` loses, `DialogsExact`
  windows that were enlarged while scrolled.

## Proofs

All for every value of the constants that satisfies the named assumptions
(disjoint sorts, finite sets of threads, positive bounds). `SchedProofs` and
`WaitProofs` also assume `~MayYieldHolding`, the rule that nobody gives up the
hart inside a spinlock: without it the lock discipline is false, as said above.
`WaitProofs` assumes `LongSleeps`, that a sleep is for 0 ms or at least one
tick: without it `ContextPreserved` is false (run `short_sleep`), and a context
that comes back twice breaks the lists as well.

**Locks** (`SchedProofs`): `TypeCorrect`, `LocksStaySafe`, `IdleThere`.
`LockDiscipline` alone is not inductive: a switch installs the context of
another thread, so `SchedInv` adds what every saved context looks like (outside
all locks, MIE set, at a step where it can be switched out). With that, the lock
words after a switch are all 0 and so is `preempt_count`. `IdleThere` needs in
addition that the idle thread never blocks, exits or changes priority and that
the scan returns a listed thread when one can run (`NextThreadExists`, by the
minimum of a set of naturals).

**Waiting and switching** (`WaitProofs`): `WakeInvariance`, and from it
`ListsStaySound`, `HighestAlwaysRuns`, `WakeupsNeverLost` and
`ContextsNeverLost`. `WakeInv` is a conjunction: `ListInv` (the thread list has
no repetition, and what it holds is live or the dying current thread), `WaitInv`
(an entry of a wait list is a BLOCK thread inside `sem_wait` of that semaphore
that does not sleep, and a BLOCK thread that does not sleep has an entry),
`OwnerInv` (a thread object whose creation or destruction is in progress is in no
list, and one context has it), `CurrentInv` (what the running thread's state
says of the step it is at), `PriorityInv`
(nobody better can run, or the switch that sees to it is due) and `NoLostWakeup`.
`NextWake` has one lemma per action; those that switch share `SwitchWake`.
The count of threads on their way to a token is over a finite set, and each
action's lemma says which element enters or leaves it.

**Refinement** (`ThreadingProofs`, under the same assumptions):
`ThreadsImplemented`, that `Semaphore` implements `Threading`. The mapping reads
each thread's call off its context, running or saved, and the owner of a client
lock off the contexts that are inside it. Each action is shown to be one
abstract step of one thread or none: `spin_trylock` that succeeds is the
client's `SpinLock`, the critical sections of `sem_wait`, `sem_post`, exit and
destroy are the abstract calls' effects, the ends of the ecall and of
`spin_unlock` their returns, and ticks, interrupts, kernel locks and going to
sleep are no step (`SwitchAbs`, `InsideCall`). It rests on `SchedInv`, `WakeInv`
and one invariant more, `DyingInv` (`DyingStayDead`): a thread behind the
critical section of `thread_end_point` is not live, without which its last
`sched_yield` would be a return of exit.

**VFS** (`VfsProofs`): `NamespaceStaysSound` from one invariant `VfsInv`. The
invariant ties `call` to the tree: the node a walk has reached and the mount
under construction are alive, and no node carries a mount under construction.
`vfs_free_subtree` frees what is below a root; that no node outside points into
it follows from parent and child lists agreeing.

**Harts** (`SmpProofs`, under `LoadsOrdered`): `JobsRunOnceAlways` from
`SmpInv`: a mailbox that a hart reads is empty or holds one complete job that
was given and has not begun, and while the boot hart stores, its target is not
between seeing a function and jumping to it. It holds for clients that do not
wait for a hart as well.

**Boot flow** (`BootProofs`, under `BootAssumption` and `BoardAssumption`):
`HandOver`, for the property of the run `boot`, from `BootTypes`,
`NothingUnverified`, `LoadedStaysIntact`, `TreeAsAsked`, `MemoryToldIsThere` and
`AllLeaveTogether`. What holds when the harts leave says nothing of the steps
before, so each rests on an invariant of the whole flow. `FlowInv` says at which
steps a hart may have been woken and `dynamic_info` is filled. `SecureInv` gives
every image a place in the order of `load_images`: those whose turn is over are
skipped or verified. `KeptInv` says that the cells of an image that was read
still hold it, except where an image or the tree that the configuration puts over
it was written since; sizes are 0 until an image is read, so an extent computed
earlier only grows, and a configuration that keeps the extents apart at the end
kept them apart at every write (`ExtentsGrow`, `PutKeeps`). `AskInv` compares the
configuration with what the lines so far ask for, the last line for a field
winning (`LastLineOf`, `AskedNext`), and after `load_images` with what its rules
make of it; this is why the lines are steps and not a recursive function.
`TreeInv` follows the tree through load, overlay and edits. `NodesInv` keeps the
memory nodes, and `NodesHonest` adds up the channels: 4 channels of at most 128
GB never reach the next chip's 512.

**Cores and fuses** (`BoardProofs`, under `TpAssumption` and
`EfuseAssumption`): `CoresHaveTheirOwn` from `CoresInv`: each core's tree is the
untouched one moved by its own number as far as its `step` has come, and one
whose console is the vtty has come to the end, so an error on the way cannot
leave a tree that looks complete. `FusesExact` from `EfInv`. Between choosing the
bits of a cell and burning the last of them the fuses are neither what they were
nor what they will be; `EfWriting` says that the fuses together with the bits
still pending, one of which may be at the controller, are what they were and the
part of the buffer up to the end of this cell. `EfFlow` ties the controller's mode
to the step of the driver: a result is taken only when the controller has
answered this request.

**Boot devices** (`BoardProofs`, under `BootDevAssumption`, the types of a
board): `BootDevicesStaySound` and `FilesFromBest` from `BdInv`: the list is
sorted by priority at every step, a flash is wrapped once, whoever needs it first,
and a slot of the volume table that a device or a mount uses is the one it
registered. `bdm_load` takes the first device that has the file, which is the
best one only because the list is in order, and that is the theorem `SortSorts`,
for every list: `sort_device` is a recursive function, and the induction over its
rounds goes by the least round at which the prefix would not be sorted
(`SetInduction`, from `LeastNatural`).

**Devices and interrupts** (`BoardProofs`, under `DevicesAssumption`, the types
of a tree): `ProbingStaysSound` from `DevInv`. `Done` says which nodes the walk is
past: only these have chips, ports and handlers (`OnlyDone`), so a probe adds what
was not there, and a controller that a handler was routed through stands earlier
in the tree. The numbers of a chip begin where those of the chips before it end
(`NumbersApart`), so the number of a handler leads back to the line of its node
and to no other (`Routed`, `Finds`, `FindsBack`): who is called for a claimed line
is wired to it. What is pending was raised by a node on that line (`PendRaised`),
and a handler appended behind one that takes the interrupt has not been called.

**The board** (`BoardProofs`): `DevicesStaySound` and `BoardsStaySound` say the
same of `MCBoot`'s composition, the specification the run `boot` checks: every
behaviour of it is one of each part (`PartsBehave`).

**Flash and virtio disk** (`DriverProofs`): `FlashDriverIsExact` and
`FlashProgramStays` from `FlInv`, under `ProgramsFit`: the data of a program is
not longer than what three address bytes reach, 16 MB. Without it the theorem is
false, as `spi_data_out_tran`'s addresses wrap and a program overwrites pages it
has already compared. `FlInv` says where a transfer is (`InTransfer`: the load the
driver waits for is the next of its frame), that what a read has delivered is
where it belongs (`InRead`; only the last load may be no whole number of words,
for the frames are whole FIFOs), and for a program that the pages before `off` are
in the flash, or a comparison ran without data (`InProgram`, `Compared`). A page
that compares equal is there because a busy flash sends what no data can be equal
to. That a page or a sector does not wrap in the middle is arithmetic of multiples
(`NoWrap`, `PagesApart`). `RingIsSound` from `RingInv`: while the driver polls, a
request is with it, with the device or answered (`Offered`, `WithDevice`, `Answered`),
and otherwise all four indices agree; with one request at a time two indices that
differ by one differ modulo any width of at least 2, which is why the wrap of the
used index does no harm.

**Download** (`DriverProofs`): `DownloadIsExact` from `XmInv`, for every length
of the file and any number of faults. It is layered as the property is. Whatever
the line does, blocks are on the line and saved in order, none ahead of the block
the sender is at (`InOrder`). If nothing is lost, the line is a sequence of whole
packets and the receiver's place is where the next piece belongs (`Framed`): this
is what a lost byte breaks for good, as `recv_pack` never drains the line. If
nothing is damaged either, each block that was sent is saved or on the line, and
the end of the file is behind all of them (`NoGaps`), however often a packet is
repeated. If the replies are left alone instead, and the sender does not take
C for NAK, one packet or one answer to it is on its way (`StopAndWait`): a
reply too many is only ever a C.

**SD card** (`DriverProofs`): `CardStaysExact` from `SdInv`, for every number of
blocks, calls, faults and retries, and both kinds of card. Driver, controller and
card run at once and the driver does not wait for data it is owed, so `SdInv`
says for every step of a call what may still be on its way. Until the card has an
address one command is out at a time (`SdEarly`), which is why the driver knows
its addressing (`SdKnown`). CMD23 announces the blocks, or an error is pending
(`SdAnnounced`). A transfer is pending, reading, writing, refused or done
(`SdTransfers`): a read has in its buffer what came and is not next to it, or an
error is pending, and then its size is not returned; a write is ahead of the card
by the block in the controller's buffer, or it has lost a block, and then the
controller never has the blocks that end the transfer. An erase sends its end
after its start was obeyed, or ends at the error (`SdErasing`), so that a card
that counts blocks erases what it was asked to. An error pending at the start of
a call ends it (`SdErrors`), as no handler clears it. A write's first
block goes to the controller without waiting for it to ask (`bm_sd_write`), which
is why `SdWriting` has two cases.

**The drivers together** (`DriverProofs`): a step of one leaves the others alone
(`PartSteps`), so `DriversStayExact` and `MediaStaysKept` say of `MCIo`'s
composition, the specification the run `io` checks, what the theorems above say
of the parts; `MediaStaysKept` is the property `MediaKept` itself.

Only model-checked: every liveness property (out of the prover's reach); of the
VFS `OpenFilesReachable` and `NothingLeaks`, which are about paths of any length
in the tree; of the run `io` the console (its loops are recursive functions over
the input); and the modules of the runs `libs`, `fat`, `fdt` and
`kconfig`. `Fdt*`, `KExpr`, `KMenu`, `KPre` and `KSymbol` use recursive
operators, which the prover does not take (a recursive function it does, as
`SortSorts` shows); TLC compares them with reference definitions over every
bounded input.

## Not modelled

`mconf.c` and the yes/no box; `efi.c`, `mac.c`, `mmio.c`, cache maintenance and
`atomic.c` (no state of their own); `intc` and `ictl`, which no configuration
builds; FatFs' write side (`FF_FS_READONLY` is 1) and exFAT; arithmetic of the
hashes, RSA and SM2; string and hexadecimal symbols, random and listing modes of
kconfig; register set-up without a protocol. The memory model of the harts:
stores of the boot hart before its fence are unordered, stores after it
ordered; `LoadsOrdered = FALSE` shows what a hart that reorders loads could do,
and then `JobsRunOnce` does not hold. Children of a node are a set, as their order
shows only in listings. Interrupts do not nest: handlers run with MIE clear.

## Plan

1. `OpenFilesReachable` and `NothingLeaks`, for mounts that do not nest.
