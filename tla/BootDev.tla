------------------------------ MODULE BootDev -------------------------------
(***************************************************************************)
(* The devices files are loaded from.  The late_inits run in link order:   *)
(* flashmount and automount (fs/), mtdblock, then sgfat, sgcfg and sgmtd   *)
(* (lib/).  They share the table of volumes of lib/fat32/source/diskio.c   *)
(* and the list of boot devices of drivers/boot/bootdev.c, which the boot  *)
(* code then orders by priority and loads from.                            *)
(*                                                                         *)
(* A disk is [alias, fat, files], an MTD [alias, boot, cfg, files]; files  *)
(* gives the size of every file, 0 if it is not there.                     *)
(***************************************************************************)
EXTENDS Integers, Sequences, FiniteSets, SequencesExt

CONSTANTS
    Boards,         \* the boards: [disks, mtds], two sequences
    Files,          \* the files that are asked for
    Config,         \* "conf.ini"
    Volumes,        \* FF_VOLUMES
    Priorities,     \* the priorities given to devices
    MaxPrio,        \* bound: calls of bdm_set_priority and bdm_set_disabled
    MaxFaults       \* bound: allocations and reads that fail

ASSUME BootDevAssumption ==
    /\ Config \in Files /\ "none" \notin Files /\ Volumes \in Nat \ {0}
    /\ Priorities \subseteq Nat /\ MaxPrio \in Nat /\ MaxFaults \in Nat
    /\ \A b \in Boards :
         /\ b.disks \in Seq([alias : STRING, fat : BOOLEAN, files : [Files -> Nat]])
         /\ b.mtds \in Seq([alias : STRING, boot : BOOLEAN, cfg : Int, files : [Files -> Nat]])

VARIABLES
    board,          \* the disks and MTDs there are
    stage,          \* the late_init that runs, and where it is
    blks,           \* the block devices: [mtd, i], wrapped MTDs and disks
    fatio_list,     \* the volumes: who registered them and for which block device
    past,           \* a volume was registered behind the end of the table
    mounts,         \* the mounts: [target, blk, type, vol]
    anon,           \* the next number of an anonymous mount
    list,           \* the boot devices, in list order
    sizes,          \* what bdm_get_file_size said last, and whether a device failed meanwhile
    got,            \* what bdm_load did last
    prios,          \* calls of the boot code so far
    faults          \* faults so far

bdVars == <<board, stage, blks, fatio_list, past, mounts, anon, list, sizes, got, prios, faults>>

Stages == <<"flashmount", "automount", "mtdblock", "sgfat", "sgcfg", "sgmtd", "main">>
Free == [by |-> "nobody", blk |-> 0]
NoVolume == -1
Slots == 0 .. Volumes - 1
Outside == Volumes   \* a slot behind the table
Nothing == [file |-> Config, dev |-> 0, n |-> -5, size |-> -2]
FlashPoint == <<"flash", 0>>

Disks == board.disks
Mtds == board.mtds
AliasOf(b) == IF b.mtd THEN Mtds[b.i].alias ELSE Disks[b.i].alias
IsFat(b) == ~b.mtd /\ Disks[b.i].fat
Ok == faults' = faults
Fails == faults < MaxFaults /\ faults' = faults + 1

-----------------------------------------------------------------------------
(* diskio.c                                                                *)

\* Mutant: the slot before the one that was looked at is taken.
SlotBefore(s) == fatio_list[s] = Free \/ (s + 1 \in Slots /\ fatio_list[s + 1] = Free)

SlotFree(s) == fatio_list[s] = Free

\* fatio_register: the first free slot.  Its loop does not stop at the end: in
\* a full table it goes on to whatever lies behind, and refuses the device
\* only if the next word happens to be 0.
Registered(by, k, s) ==
    LET free == {v \in Slots : SlotFree(v)}
    IN  IF free # {}
          THEN /\ s = CHOOSE v \in free : \A w \in free : v <= w
               /\ fatio_list' = [fatio_list EXCEPT ![s] = [by |-> by, blk |-> k]]
               /\ past' = past
          ELSE /\ s \in {NoVolume, Outside}
               /\ fatio_list' = fatio_list
               /\ past' = (past \/ s = Outside)

-----------------------------------------------------------------------------
(* The late_inits.                                                         *)

In(name) == Stages[stage.at] = name
NextItem == stage' = [stage EXCEPT !.i = @ + 1]

\* The list that a late_init walks is at its end.
StageEnds ==
    /\ stage.at < Len(Stages)
    /\ stage.i > (IF Stages[stage.at] \in {"automount", "sgfat"} THEN Len(blks) ELSE Len(Mtds))
    /\ stage' = [at |-> stage.at + 1, i |-> 1]
    /\ UNCHANGED <<board, blks, fatio_list, past, mounts, anon, list, sizes, got, prios, faults>>

Mounted(target) == \E m \in mounts : m.target = target

\* mtdblock_create: the block device of MTD i, the one that is there already.
mtdblock_create(i) ==
    IF \E k \in 1 .. Len(blks) : blks[k] = [mtd |-> TRUE, i |-> i] THEN blks
    ELSE Append(blks, [mtd |-> TRUE, i |-> i])

\* flash_mount_one: sgpart of an MTD with a partition table, at /mnt/flash.
flash_mount_one ==
    /\ In("flashmount") /\ stage.i <= Len(Mtds)
    /\ \/ /\ ~Mtds[stage.i].boot
          /\ Ok /\ UNCHANGED <<blks, mounts>>
       \/ /\ Mtds[stage.i].boot
          /\ Fails /\ UNCHANGED <<blks, mounts>>
       \/ /\ Mtds[stage.i].boot
          /\ Ok
          /\ blks' = mtdblock_create(stage.i)
          /\ mounts' = IF Mounted(FlashPoint) THEN mounts
                       ELSE mounts \cup {[target |-> FlashPoint, blk |-> stage.i, type |-> "sgpart", vol |-> NoVolume]}
    /\ NextItem
    /\ UNCHANGED <<board, fatio_list, past, anon, list, sizes, got, prios>>

\* mtdblock_setup wraps the other MTDs.
mtdblock_setup ==
    /\ In("mtdblock") /\ stage.i <= Len(Mtds)
    /\ (Ok /\ blks' = mtdblock_create(stage.i)) \/ (Fails /\ UNCHANGED blks)
    /\ NextItem
    /\ UNCHANGED <<board, fatio_list, past, mounts, anon, list, sizes, got, prios>>

\* /mnt/<alias>, or /blkN for a device without alias.
mount_anon == <<"", anon>>
mount_named(k) == <<AliasOf(blks[k]), 0>>
Target(k) == IF AliasOf(blks[k]) = "" THEN mount_anon ELSE mount_named(k)

NextAnon(k, good) == IF good /\ AliasOf(blks[k]) = "" THEN anon + 1 ELSE anon

\* mount_named and mount_anon, through vfs_mount and fatfs_mount.  A mount
\* point in use is refused before the filesystem is asked.  A device that turns
\* out to be no FAT volume, or cannot be read, has been registered by then and
\* is freed where it is: FatFs and the table keep their pointers to it.
automount ==
    /\ In("automount") /\ stage.i <= Len(blks)
    /\ LET k == stage.i
       IN  \/ /\ IF Mounted(Target(k)) THEN Ok ELSE Fails
              /\ UNCHANGED <<fatio_list, past, mounts>>
              /\ anon' = NextAnon(k, FALSE)
           \/ /\ ~Mounted(Target(k))
              /\ \E s \in -1 .. Volumes, good \in BOOLEAN :
                   /\ good => s \in Slots /\ IsFat(blks[k])
                   /\ IF good \/ ~IsFat(blks[k]) \/ s \notin Slots THEN Ok ELSE Fails
                   /\ Registered(IF good THEN "vfs" ELSE "freed", k, s)
                   /\ mounts' = IF good THEN mounts \cup {[target |-> Target(k), blk |-> k, type |-> "fatfs", vol |-> s]}
                                ELSE mounts
                   /\ anon' = NextAnon(k, good)
    /\ NextItem
    /\ UNCHANGED <<board, blks, list, sizes, got, prios>>

BootDevice(type, alias, i, vol) ==
    [type |-> type, alias |-> alias, i |-> i, vol |-> vol, prio |-> 0, disabled |-> FALSE]

bootdev_add(d) == list' = Append(list, d)

\* create_fat_dev: every block device becomes a boot device, FAT or not.
create_fat_dev ==
    /\ In("sgfat") /\ stage.i <= Len(blks)
    /\ \/ Fails /\ UNCHANGED <<fatio_list, past, list>>
       \/ /\ Ok
          /\ \E s \in -1 .. Volumes :
               /\ Registered("sgfat", stage.i, s)
               /\ IF s = NoVolume THEN UNCHANGED list
                  ELSE bootdev_add(BootDevice("fat", AliasOf(blks[stage.i]), stage.i, s))
    /\ NextItem
    /\ UNCHANGED <<board, blks, mounts, anon, sizes, got, prios>>

\* create_bootdev of sgcfg: the configuration is read and kept; one without
\* header or tail has size 0 and is registered all the same.
sgcfg_init ==
    /\ In("sgcfg") /\ stage.i <= Len(Mtds)
    /\ \/ Mtds[stage.i].cfg < 0 /\ Ok /\ UNCHANGED list
       \/ Mtds[stage.i].cfg >= 0 /\ Fails /\ UNCHANGED list
       \/ Mtds[stage.i].cfg >= 0 /\ Ok /\ bootdev_add(BootDevice("cfg", Mtds[stage.i].alias, stage.i, NoVolume))
    /\ NextItem
    /\ UNCHANGED <<board, blks, fatio_list, past, mounts, anon, sizes, got, prios>>

\* create_bootdev of sgmtd.
sgmtd_init ==
    /\ In("sgmtd") /\ stage.i <= Len(Mtds)
    /\ \/ ~Mtds[stage.i].boot /\ Ok /\ UNCHANGED list
       \/ Mtds[stage.i].boot /\ Fails /\ UNCHANGED list
       \/ Mtds[stage.i].boot /\ Ok /\ bootdev_add(BootDevice("mtd", Mtds[stage.i].alias, stage.i, NoVolume))
    /\ NextItem
    /\ UNCHANGED <<board, blks, fatio_list, past, mounts, anon, sizes, got, prios>>

-----------------------------------------------------------------------------
(* bootdev.c                                                               *)

\* sort_device: a selection sort; list_swap exchanges two entries.
sort_device(l) ==
    LET Swap(m, i, j) == [m EXCEPT ![i] = m[j], ![j] = m[i]]
        Smallest(m, i) == CHOOSE j \in i .. Len(m) :
                              \A k \in i .. Len(m) : m[j].prio < m[k].prio \/ (m[j].prio = m[k].prio /\ j <= k)
        S[i \in 0 .. Len(l)] == IF i = 0 THEN l ELSE Swap(S[i - 1], i, Smallest(S[i - 1], i))
    IN  S[Len(l)]

\* bootdev_find_by_name: the first device with this alias.
Named(alias) == {k \in 1 .. Len(list) : list[k].alias = alias /\ \A j \in 1 .. k - 1 : list[j].alias # alias}

bdm_set_priority(alias, p) ==
    /\ In("main") /\ prios < MaxPrio
    /\ \E k \in Named(alias) : list' = sort_device([list EXCEPT ![k].prio = p])
    /\ prios' = prios + 1
    /\ UNCHANGED <<board, stage, blks, fatio_list, past, mounts, anon, sizes, got, faults>>

bdm_set_disabled(alias) ==
    /\ In("main") /\ prios < MaxPrio
    /\ \E k \in Named(alias) : list' = [list EXCEPT ![k].disabled = ~@]
    /\ prios' = prios + 1
    /\ UNCHANGED <<board, stage, blks, fatio_list, past, mounts, anon, sizes, got, faults>>

\* The load and get_file_size operations of the three kinds of boot devices:
\* what is there; a device outside the table of volumes has no disk.
fat_size(d, f) ==
    LET n == IF d.vol = Outside \/ ~IsFat(blks[d.i]) THEN 0 ELSE Disks[blks[d.i].i].files[f]
    IN  IF n = 0 THEN -5 ELSE n
mtd_size(d, f) == LET n == Mtds[d.i].files[f] IN IF n = 0 THEN -2 ELSE n
cfg_size(d, f) == IF f = Config THEN Mtds[d.i].cfg ELSE -2

Size(d, f) ==
    CASE d.type = "fat" -> fat_size(d, f)
      [] d.type = "mtd" -> mtd_size(d, f)
      [] d.type = "cfg" -> cfg_size(d, f)

Devs == 1 .. Len(list)

\* The sizes bdm_get_file_size looks at: of all devices, also disabled ones.
SizesOf(f, bad) == {Size(list[k], f) : k \in Devs \ bad}

\* bdm_get_file_size: the largest, or -ENOENT; bad are devices that fail.
bdm_get_file_size(f) ==
    /\ In("main")
    /\ \E bad \in {{}} \cup {{k} : k \in Devs} :
         /\ IF bad = {} THEN Ok ELSE Fails
         /\ LET all == SizesOf(f, bad) \cup {-2}
            IN  sizes' = [file |-> f, size |-> CHOOSE n \in all : \A m \in all : m <= n, bad |-> bad # {}]
    /\ got' = Nothing
    /\ UNCHANGED <<board, stage, blks, fatio_list, past, mounts, anon, list, prios>>

Delivers(d, f) == ~d.disabled /\ Size(d, f) > 0

\* bdm_load: the first enabled device that delivers something.
bdm_load(f) ==
    /\ In("main") /\ sizes.file = f /\ got = Nothing
    /\ \E bad \in {{}} \cup {{k} : k \in Devs} :
         /\ IF bad = {} THEN Ok ELSE Fails
         /\ LET able == {k \in Devs \ bad : Delivers(list[k], f)}
                k == CHOOSE k \in able : \A j \in able : k <= j
            IN  got' = IF able = {} THEN [file |-> f, dev |-> 0, n |-> -5, size |-> sizes.size]
                       ELSE [file |-> f, dev |-> k, n |-> Size(list[k], f), size |-> sizes.size]
    /\ UNCHANGED <<board, stage, blks, fatio_list, past, mounts, anon, list, sizes, prios>>

-----------------------------------------------------------------------------
BdInit ==
    /\ board \in Boards
    /\ stage = [at |-> 1, i |-> 1]
    /\ blks = [i \in 1 .. Len(Disks) |-> [mtd |-> FALSE, i |-> i]]
    /\ fatio_list = [v \in Slots |-> Free]
    /\ past = FALSE
    /\ mounts = {} /\ anon = 0 /\ list = <<>>
    /\ sizes = [file |-> "none", size |-> -2, bad |-> FALSE] /\ got = Nothing
    /\ prios = 0 /\ faults = 0

LateInit == flash_mount_one \/ automount \/ mtdblock_setup \/ create_fat_dev \/ sgcfg_init \/ sgmtd_init \/ StageEnds

Aliases == {AliasOf(blks[k]) : k \in 1 .. Len(blks)} \cup {Mtds[i].alias : i \in 1 .. Len(Mtds)}

BdNext ==
    \/ LateInit
    \/ \E a \in Aliases : bdm_set_disabled(a) \/ \E p \in Priorities : bdm_set_priority(a, p)
    \/ \E f \in Files : bdm_get_file_size(f) \/ bdm_load(f)

BdSpec == BdInit /\ [][BdNext]_bdVars

-----------------------------------------------------------------------------
\* The state's types; what bdm_load reports is a number of bytes or -EIO, never
\* an empty file, although an empty configuration is a boot device.
BdTypeOK ==
    /\ stage.at \in 1 .. Len(Stages) /\ stage.i \in Nat
    /\ \A v \in Slots : fatio_list[v].by \in {"nobody", "vfs", "sgfat", "freed"}
    /\ \A k \in Devs : list[k].prio \in Nat /\ list[k].vol \in -1 .. Volumes
    /\ got.n = -5 \/ got.n \in Nat \ {0}
    /\ faults \in 0 .. MaxFaults

\* Whoever reads through a volume finds the device it registered for it, for
\* its own block device, and one that has not been freed: the mounts of the VFS
\* and the boot devices share the table, and slots of refused devices keep
\* pointers to freed memory.
VolumesOwned ==
    /\ \A m \in mounts : m.vol >= 0 => fatio_list[m.vol] = [by |-> "vfs", blk |-> m.blk]
    /\ \A k \in Devs : list[k].type = "fat" /\ list[k].vol < Volumes
         => fatio_list[list[k].vol] = [by |-> "sgfat", blk |-> list[k].i]

\* An MTD is wrapped once, whoever needs it first.
WrappedOnce == IsInjective(blks)

\* A file comes from a device of smallest priority among the enabled ones that
\* have it, whatever order the priorities were given in, unless a device fails.
BestDevice ==
    [][got' # got /\ got'.dev > 0 /\ faults' = faults
         => \A k \in Devs : ~list[k].disabled /\ Size(list[k], got'.file) > 0
                              => list[got'.dev].prio <= list[k].prio]_bdVars

\* The buffer a caller has allocated for the size it was told is large enough
\* for what is loaded into it, from whichever device; except when a device
\* failed to say its size and then delivered.
LoadFits == got.n <= got.size \/ sizes.bad \/ got.n <= 0

\* Anonymous mounts are numbered without gaps, and a mount point carries one
\* filesystem.
MountPoints ==
    /\ \A m, n \in mounts : m.target = n.target => m = n
    /\ {m.target[2] : m \in {x \in mounts : x.target[1] = ""}} = 0 .. anon - 1

\* A table that is full refuses the next device.
FullIsRefused == ~past

\* Boot devices own their volumes, are wrapped once and load what fits.
BootDevicesSound == BdTypeOK /\ VolumesOwned /\ WrappedOnce /\ LoadFits /\ MountPoints
=============================================================================
