------------------------------- MODULE FatFs --------------------------------
(***************************************************************************)
(* The FAT file system of lib/fat32/source/ff.c as it is built here (read  *)
(* only, long names, FAT12, FAT16 and FAT32) and as fs/fatfs.c uses it.    *)
(*                                                                         *)
(* A disk is a record of what its sectors hold: boot sectors, bytes of the *)
(* allocation table and directory entries; other sectors are zeros as      *)
(* metadata, and byte o of sector s of a file is <<s, o>>.  Sector, name   *)
(* and byte sizes are scaled down: a byte is two digits of base Nib.       *)
(*                                                                         *)
(* One call runs at a time.  A step is a turn of one of its loops: a boot  *)
(* sector, a directory entry, a cluster or a run of sectors.  It works on  *)
(* a record m: the FATFS object, which sector the window really holds, the *)
(* name buffer, and fuse, the disk_read of the step that fails (0 none).   *)
(***************************************************************************)
EXTENDS Integers, Sequences, FiniteSets, TLC

CONSTANTS
    SS,             \* bytes of a sector
    SZDIRE,         \* bytes of a directory entry
    Nib,            \* values of half a byte
    MaxFat12,       \* MAX_FAT12, clusters
    MaxFat16,       \* MAX_FAT16
    MaxDir,         \* MAX_DIR, bytes
    MinTot16,       \* 128, smallest volume with a 16-bit size
    MinTot32,       \* 0x10000, with a 32-bit size
    BodyLen,        \* 8, characters of a short name's body
    ExtLen,         \* 3, and of its extension
    LfnPer,         \* 13, characters of a long-name entry
    MaxLfn,         \* FF_MAX_LFN
    Disks,          \* images, by name
    Paths,          \* paths that are asked for: sequences of names
    Seeks,          \* positions to read from
    ReadSizes,      \* lengths to read
    Fils,           \* file objects
    PathMax,        \* FATFS_PATH_MAX
    MaxLookups,     \* bound: calls with a path, before a fault
    MaxReads,       \* bound: reads
    MaxDiskFaults   \* bound: disk reads that fail

ASSUME FatAssumption ==
    /\ {SS, SZDIRE, Nib, MaxFat12, MaxFat16, MaxDir, BodyLen, ExtLen, LfnPer, MaxLfn, PathMax, MaxLookups, MaxReads, MaxDiskFaults} \subseteq Nat
    /\ SS % SZDIRE = 0 /\ MaxDir % SS = 0 /\ SS % 4 = 0

VARIABLES
    disk,           \* the image of the disk
    fat,            \* the FATFS object, the window and the name buffer
    fil,            \* file objects
    call,           \* the call that runs or was the last
    fatOps          \* lookups, reads and faults so far

fatVars == <<disk, fat, fil, call, fatOps>>

Byte == Nib * Nib
PerSec == SS \div SZDIRE
None == -1

-----------------------------------------------------------------------------
(* What the sectors hold.                                                  *)

NoBoot == [jmp |-> FALSE, sign |-> FALSE, sig32 |-> FALSE, bps |-> 0, spc |-> 0, rsv |-> 0, nfats |-> 0, root |-> 0,
           tot16 |-> 0, tot32 |-> 0, fsz16 |-> 0, fsz32 |-> 0, ver |-> 0, rootclus |-> 0, part |-> <<0, 0, 0, 0>>]
EndEntry == [b |-> "end", attr |-> "file", name |-> <<>>, nt |-> {}, clust |-> 0, size |-> 0, ord |-> 0, last |-> FALSE, sum |-> 0]

BootOf(s) == IF s \in DOMAIN disk.boot THEN disk.boot[s] ELSE NoBoot
FatByte(s, k) == IF s \in DOMAIN disk.fat THEN disk.fat[s][k + 1] ELSE 0
EntryOf(s, k) == IF s \in DOMAIN disk.dirs THEN disk.dirs[s][k + 1] ELSE EndEntry

-----------------------------------------------------------------------------
(* Access to the disk.                                                     *)

R(m, res) == [m |-> m, res |-> res]

\* disk_read of diskio.c; while a volume is mounted what lies outside it is noted.
disk_read(m, sect, n) ==
    LET inside == m.type = 0 \/ (sect >= m.volbase /\ sect + n <= m.volbase + m.tsect)
    IN  R([m EXCEPT !.fuse = IF @ = 0 THEN 0 ELSE @ - 1, !.fired = @ \/ m.fuse = 1, !.out = @ \/ ~inside],
          IF m.fuse = 1 THEN "DISK_ERR" ELSE "OK")

\* Mutant: the window is taken for good although the read has failed.
WindowAfterOptimist(m, sect, r) == [r.m EXCEPT !.winsect = sect, !.win = IF r.res = "OK" THEN sect ELSE None]

WindowAfter(m, sect, r) ==
    IF r.res = "OK" THEN [r.m EXCEPT !.winsect = sect, !.win = sect] ELSE [r.m EXCEPT !.winsect = None, !.win = None]

move_window(m, sect) ==
    IF sect = m.winsect THEN R(m, "OK") ELSE LET r == disk_read(m, sect, 1) IN R(WindowAfter(m, sect, r), r.res)

InRange(m, clst) == clst - 2 >= 0 /\ clst - 2 < m.n_fatent - 2

clst2sect(m, clst) == IF InRange(m, clst) THEN m.database + m.csize * (clst - 2) ELSE 0

\* The window on the second byte of a FAT12 entry.
Second(m, bc) == move_window(m, m.fatbase + (bc + 1) \div SS)

\* The entry of the allocation table: val None is a disk error, 1 an internal one.
get_fat(m, clst) ==
    LET V(w, val) == [m |-> w.m, val |-> IF w.res = "OK" THEN val ELSE None]
        bc == clst + clst \div 2
        w1 == move_window(m, m.fatbase + bc \div SS)
        w2 == Second(w1.m, bc)
        wc == FatByte(w1.m.win, bc % SS) + Byte * FatByte(w2.m.win, (bc + 1) % SS)
        w16 == move_window(m, m.fatbase + clst \div (SS \div 2))
        w32 == move_window(m, m.fatbase + clst \div (SS \div 4))
        Digits(w, k, n) == LET S[i \in 0 .. n] == IF i = n THEN 0 ELSE FatByte(w.m.win, k + i) + Byte * S[i + 1] IN S[0]
    IN  CASE clst < 2 \/ clst >= m.n_fatent -> [m |-> m, val |-> 1]
          [] clst \in 2 .. m.n_fatent - 1 /\ m.type = 12 ->
               IF w1.res # "OK" THEN V(w1, 0) ELSE V(w2, IF clst % 2 = 1 THEN wc \div Nib ELSE wc % (Nib * Nib * Nib))
          [] clst \in 2 .. m.n_fatent - 1 /\ m.type = 16 -> V(w16, Digits(w16, (clst * 2) % SS, 2))
          [] OTHER -> V(w32, Digits(w32, (clst * 4) % SS, 4) % (Byte * Byte * Byte * Nib))

-----------------------------------------------------------------------------
(* Names.  Characters are strings of length one; "" ends a long name.      *)

Lower == <<"a", "b", "c", "x">>
Upper == <<"A", "B", "C", "X">>
ff_wtoupper(c) == IF \E i \in 1 .. Len(Lower) : Lower[i] = c THEN Upper[CHOOSE i \in 1 .. Len(Lower) : Lower[i] = c] ELSE c
ToLower(c) == IF \E i \in 1 .. Len(Upper) : Upper[i] = c THEN Lower[CHOOSE i \in 1 .. Len(Upper) : Upper[i] = c] ELSE c
Uppercase(s) == [i \in 1 .. Len(s) |-> ff_wtoupper(s[i])]

Illegal == {"*", ":", "<", ">", "|", "?"}
NotInShort == {"+", ",", ";", "=", "[", "]"}

\* Trailing spaces and dots do not count.
Snip(s) ==
    LET keep == {i \in 1 .. Len(s) : s[i] \notin {" ", "."}}
    IN  IF keep = {} THEN <<>> ELSE SubSeq(s, 1, CHOOSE i \in keep : \A j \in keep : j <= i)

Pad(s, n) == [i \in 1 .. n |-> IF i <= Len(s) THEN s[i] ELSE " "]

\* Whether a part of a name does not fit into the short form.
Lossy(src, n) ==
    LET kept == SelectSeq(src, LAMBDA c : c \notin {" ", "."})
    IN  kept # src \/ Len(kept) > n \/ \E i \in 1 .. Len(src) : src[i] \in NotInShort

ShortPart(src, n) ==
    LET kept == SelectSeq(src, LAMBDA c : c \notin {" ", "."})
        c == SubSeq(kept, 1, IF Len(kept) < n THEN Len(kept) ELSE n)
    IN  Pad([i \in 1 .. Len(c) |-> IF c[i] \in NotInShort THEN "_" ELSE ff_wtoupper(c[i])], n)

\* create_name: the long name goes to the buffer, the short one to fn.  The
\* extension is what follows the last dot.
create_name(m, seg) ==
    LET lfn == Snip(seg)
        n == Len(lfn)
        lead == CHOOSE k \in 0 .. n : (k = n \/ lfn[k + 1] # " ") /\ \A j \in 1 .. k : lfn[j] = " "
        dots == {i \in 1 .. n : lfn[i] = "."}
        di == IF dots = {} THEN 0 ELSE CHOOSE i \in dots : \A j \in dots : j <= i
        body == SubSeq(lfn, lead + 1, IF di > lead THEN di - 1 ELSE n)
        ext == IF di > lead THEN SubSeq(lfn, di + 1, n) ELSE <<>>
    IN  IF (\E i \in 1 .. Len(seg) : seg[i] \in Illegal) \/ Len(seg) > MaxLfn \/ n = 0
          THEN [m |-> m, res |-> "INVALID_NAME", fn |-> <<>>, loss |-> FALSE]
          ELSE [m |-> [m EXCEPT !.lfn = [i \in 0 .. MaxLfn |-> IF i < n THEN lfn[i + 1] ELSE IF i = n THEN "" ELSE @[i]]],
                res |-> "OK", fn |-> ShortPart(body, BodyLen) \o ShortPart(ext, ExtLen),
                loss |-> lead > 0 \/ lfn[lead + 1] = "." \/ Lossy(body, BodyLen) \/ Lossy(ext, ExtLen)]

Ascii == [c \in {"A", "B", "C", "X", "_", " ", "~", "1"} |->
            CASE c = "A" -> 65 [] c = "B" -> 66 [] c = "C" -> 67 [] c = "X" -> 88 [] c = "_" -> 95 [] c = " " -> 32 [] c = "~" -> 126 [] OTHER -> 49]
sum_sfn(fn) ==
    LET S[i \in 0 .. Len(fn)] == IF i = 0 THEN 0 ELSE LET s == S[i - 1] IN ((s \div 2) + ((s % 2) * 128) + Ascii[fn[i]]) % 256
    IN  S[Len(fn)]

\* The characters of a part of a long name before its end; what follows is filler.
Chars(e) == LET ends == {i \in 1 .. Len(e.name) : e.name[i] = ""} IN IF ends = {} THEN Len(e.name) ELSE CHOOSE i \in ends : \A j \in ends : i <= j

\* Whether a name that has matched so far ends with its last part.
EndsHere(m, e, i) == e.last /\ Chars(e) = LfnPer /\ e.name[LfnPer] # "" => m.lfn[i + LfnPer] = ""

\* cmp_lfn: a part of a long name against the buffer.
cmp_lfn(m, e) ==
    LET i == (e.ord - 1) * LfnPer
        n == Chars(e)
    IN  /\ i + n <= MaxLfn + 1
        /\ \A k \in 1 .. n : ff_wtoupper(e.name[k]) = ff_wtoupper(m.lfn[i + k - 1])
        /\ EndsHere(m, e, i)

\* pick_lfn: a part of a long name into the buffer.
pick_lfn(m, e) ==
    LET i == (e.ord - 1) * LfnPer
        n == Chars(e)
        full == e.name[n] # ""
    IN  [ok |-> i + n <= MaxLfn + 1 /\ (e.last /\ full => i + n <= MaxLfn),
         m |-> [m EXCEPT !.lfn = [k \in 0 .. MaxLfn |-> IF k >= i /\ k < i + n THEN e.name[k - i + 1]
                                                       ELSE IF k = i + n /\ e.last /\ full THEN "" ELSE @[k]]]]

-----------------------------------------------------------------------------
(* Directories.                                                            *)

\* dir_sdi to the first entry.
dir_sdi(m, dp) ==
    LET clst == IF dp.sclust = 0 /\ m.type = 32 THEN m.dirbase ELSE dp.sclust
        sect == IF clst = 0 THEN m.dirbase ELSE clst2sect(m, clst)
    IN  IF (clst = 0 /\ m.n_rootdir = 0) \/ sect = 0
          THEN [m |-> m, dp |-> [dp EXCEPT !.dptr = 0], res |-> "INT_ERR"]
          ELSE [m |-> m, dp |-> [dp EXCEPT !.dptr = 0, !.clust = clst, !.sect = sect], res |-> "OK"]

ClusterEnds(m, ofs) == (ofs \div SS) % m.csize = 0

dir_next(m, dp) ==
    LET ofs == dp.dptr + SZDIRE
        g == get_fat(m, dp.clust)
        D(x, d, res) == [m |-> x, dp |-> d, res |-> res]
        at == [dp EXCEPT !.dptr = ofs]
        shut == [dp EXCEPT !.sect = 0]
        on == [at EXCEPT !.sect = @ + 1]
    IN  IF ofs >= MaxDir \/ dp.sect = 0 THEN D(m, shut, "NO_FILE")
        ELSE IF ofs % SS # 0 THEN D(m, at, "OK")
        ELSE IF dp.clust = 0 THEN IF ofs \div SZDIRE >= m.n_rootdir THEN D(m, shut, "NO_FILE") ELSE D(m, on, "OK")
        ELSE IF ~ClusterEnds(m, ofs) THEN D(m, on, "OK")
        ELSE IF g.val \in {0, 1} THEN D(g.m, [dp EXCEPT !.sect = @ + 1], "INT_ERR")
        ELSE IF g.val = None THEN D(g.m, [dp EXCEPT !.sect = @ + 1], "DISK_ERR")
        ELSE IF g.val >= m.n_fatent THEN D(g.m, shut, "NO_FILE")
        ELSE D(g.m, [at EXCEPT !.clust = g.val, !.sect = clst2sect(m, g.val)], "OK")

Here(m, dp) == EntryOf(m.win, (dp.dptr % SS) \div SZDIRE)

\* The long-name parts that are still to come: ord, for the short name of which
\* sum is the checksum.  A part out of order ends the sequence (None).
Sequence(s, e, fits) ==
    LET begin == [s EXCEPT !.ord = IF e.last THEN e.ord ELSE @, !.sum = IF e.last THEN e.sum ELSE @,
                           !.dp.blk = IF e.last THEN s.dp.dptr ELSE @]
    IN  [begin EXCEPT !.ord = IF e.ord = begin.ord /\ begin.sum = e.sum /\ fits THEN e.ord - 1 ELSE None]

\* Whether the parts before a short name are its long name.
LongFits(s, e) == s.ord = 0 /\ s.sum = sum_sfn(e.name)

CaseOf(e, part) == part \in e.nt

\* get_fileinfo: the long name if there is one, else the short one with the
\* case its flags say.
get_fileinfo(m, dp) ==
    LET e == Here(m, dp)
        Cased(s, part) == [i \in 1 .. Len(s) |-> IF CaseOf(e, part) THEN ToLower(s[i]) ELSE s[i]]
        body == SelectSeq(SubSeq(e.name, 1, BodyLen), LAMBDA c : c # " ")
        ext == SelectSeq(SubSeq(e.name, BodyLen + 1, BodyLen + ExtLen), LAMBDA c : c # " ")
        end == CHOOSE i \in 0 .. MaxLfn : m.lfn[i] = "" /\ \A j \in 0 .. i - 1 : m.lfn[j] # ""
        long == [i \in 1 .. end |-> m.lfn[i - 1]]
        short == Cased(body, "body") \o IF ext = <<>> THEN <<>> ELSE <<".">> \o Cased(ext, "ext")
    IN  IF dp.blk # None /\ long # <<>> THEN long ELSE short

-----------------------------------------------------------------------------
(* Calls and their steps.                                                  *)

NoFil == [open |-> FALSE, sclust |-> 0, size |-> 0, fptr |-> 0, clust |-> 0, sect |-> 0, buf |-> None, err |-> "OK"]
NoDp == [sclust |-> 0, clust |-> 0, sect |-> 0, dptr |-> 0, attr |-> "dir", blk |-> None]
NoCall == [pc |-> "idle", op |-> "none", path |-> <<>>, who |-> 0, pos |-> 0, n |-> 0,
           k |-> 0, segs |-> <<>>, dp |-> NoDp, ord |-> None, sum |-> None, fn |-> <<>>, loss |-> FALSE, left |-> 0,
           res |-> "OK", got |-> <<>>, names |-> <<>>, fault |-> FALSE]
NoFat == [type |-> 0, winsect |-> None, win |-> None, csize |-> 1, n_fatent |-> 0, n_rootdir |-> 0, volbase |-> 0,
          fatbase |-> 0, database |-> 0, dirbase |-> 0, tsect |-> 0, lfn |-> [i \in 0 .. MaxLfn |-> ""],
          fuse |-> 0, fired |-> FALSE, out |-> FALSE]

Lookups == {"open", "stat", "iterate"}
Fuses == 0 .. (IF fatOps.fault < MaxDiskFaults THEN 2 ELSE 0)
Lit(k) == [fat EXCEPT !.fuse = k]

Begin(op, c) ==
    /\ call.pc = "idle" /\ call' = [c EXCEPT !.op = op]
    /\ fatOps' = [fatOps EXCEPT !.look = IF op \in Lookups THEN @ + 1 ELSE @, !.reads = IF op = "read" THEN @ + 1 ELSE @]
    /\ UNCHANGED disk

\* A step has run on m and goes on with c.
Goes(m, c) ==
    /\ fat' = [m EXCEPT !.fuse = 0, !.fired = FALSE]
    /\ call' = [c EXCEPT !.fault = @ \/ m.fired]
    /\ fatOps' = [fatOps EXCEPT !.fault = IF m.fired THEN @ + 1 ELSE @]
    /\ UNCHANGED disk

\* The call ends: what it worked with is gone.
Over(c, res) == [NoCall EXCEPT !.op = c.op, !.path = c.path, !.who = c.who, !.pos = c.pos, !.n = c.n, !.res = res,
                               !.got = c.got, !.names = c.names, !.fault = c.fault]

-----------------------------------------------------------------------------
(* Mounting.                                                               *)

PowerOf2(n) == \E k \in 0 .. 7 : n = 2 ^ k

\* check_fs: 0 a FAT volume, 2 a boot sector, 3 none, 4 a disk error.
check_fs(m, sect) ==
    LET w == move_window([m EXCEPT !.winsect = None, !.win = None], sect)
        b == BootOf(sect)
        old == /\ b.bps = SS /\ PowerOf2(b.spc) /\ b.rsv # 0 /\ b.nfats \in {1, 2} /\ b.root # 0
               /\ b.tot16 >= MinTot16 \/ b.tot32 >= MinTot32
               /\ b.fsz16 # 0
    IN  R(w.m, IF w.res # "OK" THEN 4 ELSE IF b.jmp /\ ((b.sign /\ b.sig32) \/ old) THEN 0 ELSE IF b.sign THEN 2 ELSE 3)

Needed12(n) == (n * 3) \div 2 + (n % 2)

\* What mount_volume makes of the boot sector in the window.
Geometry(m) ==
    LET bsect == m.winsect
        b == BootOf(bsect)
        fsize == IF b.fsz16 # 0 THEN b.fsz16 ELSE b.fsz32
        fasize == fsize * b.nfats
        tsect == IF b.tot16 # 0 THEN b.tot16 ELSE b.tot32
        sysect == b.rsv + fasize + b.root \div PerSec
        nclst == (tsect - sysect) \div b.spc
        fmt == IF nclst <= MaxFat12 THEN 12 ELSE IF nclst <= MaxFat16 THEN 16 ELSE 32
        n == nclst + 2
        need == CASE fmt = 32 -> n * 4 [] fmt = 16 -> n * 2 [] OTHER -> Needed12(n)
        shape == b.bps = SS /\ b.nfats \in {1, 2} /\ PowerOf2(b.spc) /\ b.root % PerSec = 0 /\ b.rsv # 0 /\ tsect >= sysect
        sizes == /\ nclst # 0 /\ fsize >= (need + SS - 1) \div SS
                 /\ IF fmt = 32 THEN b.ver = 0 /\ b.root = 0 ELSE b.root # 0
    IN  IF ~shape THEN R(m, "NO_FILESYSTEM")
        ELSE IF ~sizes THEN R(m, "NO_FILESYSTEM")
        ELSE R([m EXCEPT !.type = fmt, !.csize = b.spc, !.n_fatent = n, !.n_rootdir = b.root, !.volbase = bsect,
                         !.fatbase = bsect + b.rsv, !.database = bsect + sysect, !.tsect = tsect,
                         !.dirbase = IF fmt = 32 THEN b.rootclus ELSE bsect + b.rsv + fasize], "OK")

\* f_mount at once, on the FATFS object that fatfs_mount has cleared.
f_mount ==
    /\ fat.type = 0
    /\ Begin("mount", [NoCall EXCEPT !.pc = "check"])
    /\ fat' = NoFat /\ UNCHANGED fil

\* find_volume: sector 0, or the first of the four partitions that is one; a
\* partition that cannot be read is passed over.
find_volume(k) ==
    LET c == call
        sect == IF c.k = 0 THEN 0 ELSE BootOf(0).part[c.k]
        f == IF c.k > 0 /\ sect = 0 THEN R(fat, 3) ELSE check_fs(Lit(k), sect)
        g == Geometry(f.m)
        res == IF f.res = 0 THEN g.res ELSE IF f.res = 4 THEN "DISK_ERR" ELSE "NO_FILESYSTEM"
    IN  /\ c.pc = "check"
        /\ IF (c.k = 0 /\ f.res = 2) \/ (c.k \in 1 .. 3 /\ f.res >= 2)
             THEN Goes(f.m, [c EXCEPT !.k = @ + 1])
             ELSE Goes(IF f.res = 0 THEN g.m ELSE f.m, Over(c, res))
        /\ UNCHANGED fil

-----------------------------------------------------------------------------
(* Paths and directories.                                                  *)

PathLen(path) == LET L[i \in 0 .. Len(path)] == IF i = 0 THEN 2 ELSE L[i - 1] + 1 + Len(path[i]) IN L[Len(path)]

\* fatfs_open, fatfs_lookup and fatfs_iterate call f_open, f_stat and f_opendir,
\* which begin with follow_path.  After a fault the same path may be tried again.
Lookup(op, path, s) ==
    /\ fat.type # 0
    /\ fatOps.look < MaxLookups \/ (call.fault /\ path = call.path /\ fatOps.look < MaxLookups + fatOps.fault)
    /\ op = "open" => ~fil[s].open
    /\ op = "stat" => PathLen(path) < PathMax
    /\ Begin(op, [NoCall EXCEPT !.pc = "seg", !.path = path, !.segs = SelectSeq(path, LAMBDA x : x # <<>>), !.who = s])
    /\ UNCHANGED <<fat, fil>>

\* dir_sdi for the directory a call has come to.
ToList(c, dp) ==
    LET r == dir_sdi(fat, dp)
    IN  IF r.res = "OK" THEN [c EXCEPT !.pc = "list", !.dp = r.dp, !.ord = None, !.sum = None] ELSE Over(c, r.res)

\* follow_path: the next segment, or the root directory itself.
follow_path ==
    LET c == call
        name == create_name(fat, c.segs[1])
        r == dir_sdi(fat, c.dp)
    IN  /\ c.pc = "seg"
        /\ \/ /\ c.segs = <<>>
              /\ Goes(fat, IF c.op = "iterate" THEN ToList(c, c.dp) ELSE Over(c, IF r.res = "OK" THEN "INVALID_NAME" ELSE r.res))
           \/ /\ c.segs # <<>>
              /\ Goes(name.m, IF name.res # "OK" THEN Over(c, name.res)
                              ELSE IF r.res # "OK" THEN Over(c, r.res)
                              ELSE [c EXCEPT !.pc = "find", !.fn = name.fn, !.loss = name.loss, !.ord = None, !.sum = None,
                                             !.dp = [r.dp EXCEPT !.blk = None]])
        /\ UNCHANGED fil

\* A turn of dir_find.
dir_find(k) ==
    LET c == call
        w == move_window(Lit(k), c.dp.sect)
        e == Here(w.m, c.dp)
        seen == [c EXCEPT !.dp.attr = e.attr]
        match == e.b = "used" /\ e.attr \in {"file", "dir"} /\ (LongFits(c, e) \/ (~c.loss /\ e.name = c.fn))
        next == IF e.b = "used" /\ e.attr = "lfn" THEN Sequence(seen, e, cmp_lfn(w.m, e)) ELSE [seen EXCEPT !.ord = None, !.dp.blk = None]
        n == dir_next(w.m, next.dp)
        Fails(res) == Over(c, IF res = "NO_FILE" /\ Len(c.segs) > 1 THEN "NO_PATH" ELSE res)
    IN  /\ c.pc = "find"
        /\ IF w.res # "OK" THEN Goes(w.m, Fails(w.res))
           ELSE IF e.b = "end" THEN Goes(w.m, Fails("NO_FILE"))
           ELSE IF match THEN Goes(w.m, [seen EXCEPT !.pc = "found"])
           ELSE Goes(n.m, IF n.res = "OK" THEN [next EXCEPT !.dp = n.dp] ELSE Fails(n.res))
        /\ UNCHANGED fil

\* The segment is found: into the directory, or the end of f_open, f_stat or
\* the beginning of f_opendir.
Found ==
    LET c == call
        e == Here(fat, c.dp)
        down == [c.dp EXCEPT !.sclust = e.clust]
        last == Len(c.segs) = 1
        isdir == c.dp.attr = "dir"
        ok == c.op = "stat" \/ (c.op = "open" /\ ~isdir)
    IN  /\ c.pc = "found"
        /\ Goes(fat, IF ~last THEN IF isdir THEN [c EXCEPT !.pc = "seg", !.segs = Tail(@), !.dp = down] ELSE Over(c, "NO_PATH")
                     ELSE IF c.op = "iterate" THEN IF isdir THEN ToList(c, down) ELSE Over(c, "NO_PATH")
                     ELSE Over(c, IF ok THEN "OK" ELSE "NO_FILE"))
        /\ fil' = IF last /\ c.op = "open" /\ ok THEN [fil EXCEPT ![c.who] = [NoFil EXCEPT !.open = TRUE, !.sclust = e.clust, !.size = e.size]]
                  ELSE fil

\* f_readdir has found an item: a name that makes too long a path is passed over.
f_readdir(c, name) ==
    [c EXCEPT !.names = IF PathLen(Append(c.path, name)) < PathMax THEN Append(@, name) ELSE @, !.ord = None, !.sum = None]

\* A turn of dir_read, and of fatfs_iterate when an item is found.  An error
\* ends fatfs_iterate as the last item does: it returns 0.
fatfs_iterate(k) ==
    LET c == call
        w == move_window(Lit(k), c.dp.sect)
        e == Here(w.m, c.dp)
        seen == [c EXCEPT !.dp.attr = e.attr]
        p == pick_lfn(w.m, e)
        part == e.b = "used" /\ e.attr = "lfn"
        picks == part /\ (e.last \/ (e.ord = c.ord /\ c.sum = e.sum))
        item == e.b = "used" /\ e.attr \in {"file", "dir"}
        cur == IF part THEN Sequence(seen, e, p.ok)
               ELSE IF item THEN [seen EXCEPT !.dp.blk = IF LongFits(c, e) THEN @ ELSE None] ELSE [seen EXCEPT !.ord = None]
        name == get_fileinfo(w.m, cur.dp)
        n == dir_next(IF picks THEN p.m ELSE w.m, cur.dp)
        next == IF item THEN f_readdir(cur, name) ELSE cur
    IN  /\ c.pc = "list"
        /\ IF c.dp.sect = 0 THEN Goes(fat, Over(c, "OK"))
           ELSE IF w.res # "OK" THEN Goes(w.m, Over(c, "OK"))
           ELSE IF e.b = "end" THEN Goes(w.m, Over(c, "OK"))
           ELSE Goes(n.m, IF n.res = "OK" \/ (item /\ n.res = "NO_FILE") THEN [next EXCEPT !.dp = n.dp] ELSE Over(c, "OK"))
        /\ UNCHANGED fil

-----------------------------------------------------------------------------
(* Files.                                                                  *)

Min2(a, b) == IF a < b THEN a ELSE b
Bcs(m) == m.csize * SS

\* Whether a seek can go on from the current cluster.
SeekOn(ofs, ifptr, bcs) == ifptr > 0 /\ (ofs - 1) \div bcs >= (ifptr - 1) \div bcs

\* f_lseek does not go beyond the end of the file.
Clip(f, pos) == Min2(pos, f.size)

\* fatfs_read is f_lseek and then f_read; the file's error is returned by both.
\* A file without clusters stays where it is.
fatfs_read(s, pos, n) ==
    LET f == fil[s]
        c == [NoCall EXCEPT !.who = s, !.pos = pos, !.n = n]
        ofs == Clip(f, pos)
        on == SeekOn(ofs, f.fptr, Bcs(fat))
        base == IF ofs > 0 /\ on THEN ((f.fptr - 1) \div Bcs(fat)) * Bcs(fat) ELSE 0
        f1 == [f EXCEPT !.fptr = base, !.clust = IF ofs = 0 \/ on THEN @ ELSE f.sclust]
    IN  /\ fatOps.reads < MaxReads /\ f.open
        /\ IF f.err # "OK" THEN Begin("read", [c EXCEPT !.res = f.err]) /\ UNCHANGED fil
           ELSE /\ fil' = [fil EXCEPT ![s] = f1]
                /\ Begin("read", IF ofs = 0 \/ f1.clust = 0 THEN [c EXCEPT !.pc = "read", !.left = Min2(n, f.size - base)]
                                 ELSE [c EXCEPT !.pc = "seek", !.left = ofs - base])
        /\ UNCHANGED fat

\* A turn of the loop of f_lseek along the chain; a position at the end of a
\* cluster belongs to that cluster.
Follow(k) ==
    LET c == call
        f == fil[c.who]
        g == get_fat(Lit(k), f.clust)
        res == IF g.val = None THEN "DISK_ERR" ELSE IF ~InRange(fat, g.val) THEN "INT_ERR" ELSE "OK"
        f1 == [f EXCEPT !.fptr = @ + Bcs(fat), !.clust = IF res = "OK" THEN g.val ELSE @, !.err = res]
    IN  /\ c.pc = "seek" /\ c.left > Bcs(fat)
        /\ fil' = [fil EXCEPT ![c.who] = f1]
        /\ Goes(g.m, IF res = "OK" THEN [c EXCEPT !.left = @ - Bcs(fat)] ELSE Over(c, res))

Buffered(f, sect) == [f EXCEPT !.sect = sect, !.buf = sect]

\* The end of f_lseek: the sector of the position goes to the file's buffer.
Settle(k) ==
    LET c == call
        f == fil[c.who]
        f1 == [f EXCEPT !.fptr = @ + c.left]
        base == clst2sect(fat, f.clust)
        sect == base + c.left \div SS
        d == disk_read(Lit(k), sect, 1)
        rd == [c EXCEPT !.pc = "read", !.left = Min2(c.n, f.size - f1.fptr)]
    IN  /\ c.pc = "seek" /\ c.left <= Bcs(fat)
        /\ IF c.left % SS = 0 THEN fil' = [fil EXCEPT ![c.who] = f1] /\ Goes(fat, rd)
           ELSE IF base = 0 THEN fil' = [fil EXCEPT ![c.who] = [f1 EXCEPT !.err = "INT_ERR"]] /\ Goes(fat, Over(c, "INT_ERR"))
           ELSE IF sect = f.sect THEN fil' = [fil EXCEPT ![c.who] = f1] /\ Goes(fat, rd)
           ELSE IF d.res # "OK" THEN fil' = [fil EXCEPT ![c.who] = [f1 EXCEPT !.buf = None, !.err = "DISK_ERR"]] /\ Goes(d.m, Over(c, "DISK_ERR"))
           ELSE fil' = [fil EXCEPT ![c.who] = Buffered(f1, sect)] /\ Goes(d.m, rd)

\* Whether a read has to find its next cluster first.
AtCluster(f) == f.fptr % SS = 0 /\ (f.fptr \div SS) % fat.csize = 0

\* The cluster of a turn of f_read: the first, or the next of the chain.
NextCluster(k) ==
    LET c == call
        f == fil[c.who]
        g == IF f.fptr = 0 THEN [m |-> fat, val |-> f.sclust] ELSE get_fat(Lit(k), f.clust)
        res == IF g.val = None THEN "DISK_ERR" ELSE IF g.val < 2 THEN "INT_ERR" ELSE "OK"
    IN  /\ c.pc = "read" /\ c.left > 0 /\ AtCluster(f)
        /\ fil' = [fil EXCEPT ![c.who] = IF res = "OK" THEN [f EXCEPT !.clust = g.val] ELSE [f EXCEPT !.err = res]]
        /\ Goes(g.m, IF res = "OK" THEN [c EXCEPT !.pc = "run"] ELSE Over(c, res))

\* Sectors that are read at once: not beyond the cluster.
Run(m, csect, cc) == IF csect + cc > m.csize THEN m.csize - csect ELSE cc

\* A turn of the loop of f_read: whole sectors go straight to the caller, a part
\* of one through the buffer of the file.
f_read(k) ==
    LET c == call
        f == fil[c.who]
        o == f.fptr % SS
        csect == (f.fptr \div SS) % fat.csize
        base == clst2sect(fat, f.clust)
        whole == o = 0 /\ c.left >= SS
        cc == Run(fat, csect, c.left \div SS)
        sect == IF o # 0 THEN f.sect ELSE base + csect
        cached == o # 0 \/ (~whole /\ f.sect = sect)
        d == disk_read(Lit(k), sect, IF whole THEN cc ELSE 1)
        n == IF whole THEN SS * cc ELSE Min2(SS - o, c.left)
        from == IF cached THEN f.buf ELSE sect
        got == [i \in 1 .. n |-> <<from + ((o + i - 1) \div SS), (o + i - 1) % SS>>]
        Fails(m, res) == Goes(m, Over(c, res)) /\ fil' = [fil EXCEPT ![c.who].err = res]
    IN  /\ c.pc = "run" \/ (c.pc = "read" /\ (c.left = 0 \/ ~AtCluster(f)))
        /\ IF c.left = 0 THEN Goes(fat, Over(c, "OK")) /\ UNCHANGED fil
           ELSE IF o = 0 /\ base = 0 THEN Fails(fat, "INT_ERR")
           ELSE IF ~cached /\ d.res # "OK" THEN Fails(d.m, "DISK_ERR")
           ELSE /\ fil' = [fil EXCEPT ![c.who].fptr = @ + n, ![c.who].sect = IF whole THEN @ ELSE sect, ![c.who].buf = IF whole THEN @ ELSE from]
                /\ Goes(IF cached THEN fat ELSE d.m, [c EXCEPT !.pc = "read", !.left = @ - n, !.got = @ \o got])

fatfs_close(s) == Begin("close", [NoCall EXCEPT !.who = s]) /\ fil[s].open /\ fil' = [fil EXCEPT ![s] = NoFil] /\ UNCHANGED fat

FatInit ==
    /\ \E d \in DOMAIN Disks : disk = Disks[d]
    /\ fat = NoFat /\ fil = [s \in Fils |-> NoFil] /\ call = NoCall /\ fatOps = [look |-> 0, reads |-> 0, fault |-> 0]

FatNext ==
    \/ f_mount \/ follow_path \/ Found
    \/ \E k \in Fuses : find_volume(k) \/ dir_find(k) \/ fatfs_iterate(k) \/ Follow(k) \/ Settle(k) \/ NextCluster(k) \/ f_read(k)
    \/ \E path \in Paths, s \in Fils : Lookup("open", path, s)
    \/ \E path \in Paths, op \in {"stat", "iterate"} : Lookup(op, path, 0)
    \/ \E s \in Fils : fatfs_close(s) \/ \E pos \in Seeks, n \in ReadSizes : fatfs_read(s, pos, n)

FatSpec == FatInit /\ [][FatNext]_fatVars

-----------------------------------------------------------------------------
(* What an image is meant to hold: disk.ref has the items of directories   *)
(* by their first cluster (0 the root), the chains and the data's place.   *)

Display(sfn) ==
    LET body == SelectSeq(SubSeq(sfn, 1, BodyLen), LAMBDA c : c # " ")
        ext == SelectSeq(SubSeq(sfn, BodyLen + 1, BodyLen + ExtLen), LAMBDA c : c # " ")
    IN  IF ext = <<>> THEN body ELSE body \o <<".">> \o ext

Shown(it) ==
    IF it.long # <<>> /\ it.tag = "ok" THEN it.long
    ELSE LET d == Display(it.sfn)
             dot == {i \in 1 .. Len(d) : d[i] = "."}
         IN  [i \in 1 .. Len(d) |-> IF (IF \E j \in dot : j < i THEN "ext" ELSE "body") \in it.nt THEN ToLower(d[i]) ELSE d[i]]

Named(it, seg) ==
    LET s == Uppercase(Snip(seg))
    IN  it.kind \in {"file", "dir"} /\ (Display(it.sfn) = s \/ (it.long # <<>> /\ it.tag = "ok" /\ Uppercase(it.long) = s))

Items(c) == disk.ref.dirs[c]
BadName(seg) == (\E i \in 1 .. Len(seg) : seg[i] \in Illegal) \/ Len(seg) > MaxLfn \/ Snip(seg) = <<>>

RootItem == [long |-> <<>>, sfn |-> <<>>, kind |-> "root", nt |-> {}, clust |-> 0, size |-> 0, tag |-> "ok"]

\* Where a path leads.
Leads(path) ==
    LET segs == SelectSeq(path, LAMBDA s : s # <<>>)
        W[k \in 0 .. Len(segs)] ==
            IF k = 0 THEN [res |-> "OK", it |-> RootItem]
            ELSE LET w == W[k - 1]
                     hits == {i \in 1 .. Len(Items(w.it.clust)) : Named(Items(w.it.clust)[i], segs[k])}
                 IN  IF w.res # "OK" THEN w
                     ELSE IF w.it.kind = "file" THEN [w EXCEPT !.res = "NO_PATH"]
                     ELSE IF BadName(segs[k]) THEN [w EXCEPT !.res = "INVALID_NAME"]
                     ELSE IF hits = {} THEN [w EXCEPT !.res = IF k = Len(segs) THEN "NO_FILE" ELSE "NO_PATH"]
                     ELSE [w EXCEPT !.it = Items(w.it.clust)[CHOOSE i \in hits : \A j \in hits : i <= j]]
    IN  W[Len(segs)]

Expected(op, path) ==
    LET w == Leads(path)
    IN  IF op = "iterate" THEN IF w.res = "OK" THEN IF w.it.kind = "file" THEN "NO_PATH" ELSE "OK" ELSE w.res
        ELSE IF w.res = "OK" /\ w.it.kind = "root" THEN "INVALID_NAME"
        ELSE IF w.res = "OK" /\ op = "open" /\ w.it.kind = "dir" THEN "NO_FILE"
        ELSE w.res

\* Cluster number k of the chain from c; None where the chain has ended.
Link(c, k) ==
    LET C[i \in 0 .. k] == IF i = 0 THEN c ELSE LET p == C[i - 1] IN IF p \in DOMAIN disk.ref.next THEN disk.ref.next[p] ELSE None
    IN  IF C[k] \in DOMAIN disk.ref.next THEN C[k] ELSE None
RefBcs == disk.ref.csize * SS
SectorOf(c, p) == disk.ref.data + disk.ref.csize * (Link(c, p \div RefBcs) - 2) + (p % RefBcs) \div SS
Linked(c, p) == Link(c, p \div RefBcs) # None

\* The names of a directory that make a path that is not too long.
Names(path) ==
    LET seen == SelectSeq(Items(Leads(path).it.clust), LAMBDA it : it.kind \in {"file", "dir"} /\ PathLen(Append(path, Shown(it))) < PathMax)
    IN  [i \in 1 .. Len(seen) |-> Shown(seen[i])]

Ended(ops) == call.pc = "idle" /\ call.op \in ops

-----------------------------------------------------------------------------
\* Types.
FatTypeOK ==
    /\ fat.type \in {0, 12, 16, 32} /\ fatOps.reads \in 0 .. MaxReads
    /\ fat.type # 0 => fat.n_fatent > 2 /\ fat.csize > 0
    /\ call.pc \in {"idle", "check", "seg", "find", "found", "list", "seek", "read", "run"}
    /\ \A s \in Fils : fil[s].fptr \in 0 .. fil[s].size

\* A volume is mounted if and only if the disk holds one, whether at its start
\* or in a partition, unless the disk could not be read.
MountsWhatIsThere == Ended({"mount"}) => (call.res = "OK" => disk.ref.good) /\ (disk.ref.good /\ ~call.fault => call.res = "OK")

\* While a volume is mounted, nothing outside it is read, whatever its tables say.
SectorsInside == ~fat.out

\* A path is found if its names are those of entries, by the long or the short
\* name and in either case, and refused with the code for its error otherwise;
\* also after a lookup that was cut short by a disk error.
FindExact ==
    Ended(Lookups) /\ ~call.fault /\ disk.ref.sane =>
        /\ call.res = Expected(call.op, call.path)
        /\ call.op = "open" /\ call.res = "OK" =>
             fil[call.who].sclust = Leads(call.path).it.clust /\ fil[call.who].size = Leads(call.path).it.size

\* fatfs_iterate gives every name once and in order, in the case it was given,
\* and after an error a part of them.
ListExact ==
    call.op = "iterate" /\ disk.ref.sane /\ (call.pc = "list" \/ (call.pc = "idle" /\ call.res = "OK")) =>
        LET names == Names(call.path)
        IN  /\ Len(call.names) <= Len(names) /\ call.names = SubSeq(names, 1, Len(call.names))
            /\ call.pc = "idle" /\ ~call.fault => call.names = names

\* A read gives the bytes of the file at its position, and fails if its chain
\* ends early or the disk cannot be read, never with other bytes.
ReadExact ==
    Ended({"read"}) =>
        LET f == fil[call.who]
            n == IF call.pos > f.size THEN 0 ELSE Min2(call.n, f.size - call.pos)
            whole == \A k \in 1 .. n : Linked(f.sclust, call.pos + k - 1)
        IN  /\ call.res = "OK" => whole /\ call.got = [k \in 1 .. n |-> <<SectorOf(f.sclust, call.pos + k - 1), (call.pos + k - 1) % SS>>]
            /\ disk.ref.sane /\ fatOps.fault = 0 => (call.res = "OK" <=> whole)

\* The cluster and the buffer that a file object keeps between calls are those
\* of its position: the cluster of the byte before it, the sector it is in.
PlaceKept ==
    \A s \in Fils :
        LET f == fil[s]
        IN  call.pc = "idle" /\ f.open /\ f.err = "OK" /\ f.fptr > 0 =>
              /\ f.clust = Link(f.sclust, (f.fptr - 1) \div RefBcs)
              /\ f.fptr % SS # 0 => f.buf = SectorOf(f.sclust, f.fptr) /\ f.sect = f.buf

\* Iterating over a directory makes a node for every entry of it, if it succeeds.
IterateComplete == Ended({"iterate"}) /\ call.res = "OK" /\ disk.ref.sane => call.names = Names(call.path)

\* The file system finds, lists and reads what is on the disk.
VolumeExact ==
    /\ FatTypeOK /\ MountsWhatIsThere /\ SectorsInside
    /\ FindExact /\ ListExact /\ ReadExact /\ PlaceKept
=============================================================================
