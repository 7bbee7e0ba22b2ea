-------------------------------- MODULE MCFat -------------------------------
(***************************************************************************)
(* Images for FatFs: sound volumes of each kind, at the start of a disk    *)
(* and in a partition, volumes with damaged tables, and sectors that are   *)
(* no volume.                                                              *)
(***************************************************************************)
EXTENDS FatFs

\* Items of directories.
It(l, s, k, c, n) == [long |-> l, sfn |-> s, kind |-> k, nt |-> {}, clust |-> c, size |-> n, tag |-> "ok"]

Parts(l) == (Len(l) + LfnPer - 1) \div LfnPer
PartOf(it, k) ==
    [EndEntry EXCEPT !.b = "used", !.attr = "lfn", !.ord = k, !.last = k = Parts(it.long),
        !.sum = IF it.tag = "badsum" THEN (sum_sfn(it.sfn) + 1) % 256 ELSE sum_sfn(it.sfn),
        !.name = [i \in 1 .. LfnPer |-> LET j == (k - 1) * LfnPer + i IN IF j <= Len(it.long) THEN it.long[j] ELSE IF j = Len(it.long) + 1 THEN "" ELSE "F"]]
Encode(it) ==
    LET n == Parts(it.long)
        parts == [i \in 1 .. n |-> PartOf(it, n + 1 - i)]
        short == [EndEntry EXCEPT !.b = "used", !.attr = it.kind, !.name = it.sfn, !.nt = it.nt, !.clust = it.clust, !.size = it.size]
        all == (IF it.tag = "orphan" THEN SubSeq(parts, 1, n - 1) ELSE parts) \o <<short>>
    IN  IF it.kind = "gone" THEN [i \in 1 .. n + 1 |-> [all[i] EXCEPT !.b = "free", !.attr = IF @ = "gone" THEN "file" ELSE @]] ELSE all
EntriesOf(items) == LET E[i \in 0 .. Len(items)] == IF i = 0 THEN <<>> ELSE E[i - 1] \o Encode(items[i]) IN E[Len(items)]
InSector(es, k) == [i \in 1 .. PerSec |-> LET j == k * PerSec + i IN IF j <= Len(es) THEN es[j] ELSE EndEntry]

\* A volume: kind, sectors per cluster, clusters, where it starts, chains, items
\* of directories by first cluster, the first cluster of a FAT32 root, and how
\* many sectors its tables fall short.
Volume(fmt, spc, n, at, next, dirs, root, short) ==
    LET rsv == 1
        need == CASE fmt = 12 -> ((n + 2) * 3 + 1) \div 2 [] fmt = 16 -> (n + 2) * 2 [] OTHER -> (n + 2) * 4
        fsz == (need + SS - 1) \div SS - short
        rootsec == IF fmt = 32 THEN 0 ELSE 5
        fatbase == at + rsv
        dirbase == fatbase + fsz
        data == dirbase + rootsec
        tot == rsv + fsz + rootsec + n * spc
        eoc == IF fmt = 12 THEN Nib * Nib * Nib - 1 ELSE Byte * Byte - 1
        val(c) == IF c \in DOMAIN next THEN IF next[c] = None THEN eoc ELSE next[c] ELSE 0
        nib(v, k) == (v \div (Nib ^ k)) % Nib
        half(j) == IF j \div 3 <= n + 1 THEN nib(val(j \div 3), j % 3) ELSE 0
        byte(j) == CASE fmt = 12 -> half(2 * j) + Nib * half(2 * j + 1)
                     [] fmt = 16 -> (val(j \div 2) \div (Byte ^ (j % 2))) % Byte
                     [] OTHER -> (val(j \div 4) \div (Byte ^ (j % 4))) % Byte
        walk[k \in 0 .. 4, c \in Nat] == IF k = 0 THEN <<c>> ELSE LET w == walk[k - 1, c] IN IF next[w[Len(w)]] = None THEN w ELSE Append(w, next[w[Len(w)]])
        chain(c) == LET w == walk[4, c] IN {w[i] : i \in 1 .. Len(w)}
        place(c, d) == LET w == walk[4, c] IN (CHOOSE i \in 1 .. Len(w) : w[i] = d) - 1
        tree(c) == EntriesOf(dirs[IF c = root THEN 0 ELSE c])
        Subs == (DOMAIN dirs \ {0}) \cup (IF fmt = 32 THEN {root} ELSE {})
        sub(c) == [s \in {data + spc * (d - 2) + i : d \in chain(c), i \in 0 .. spc - 1} |->
                     LET d == (s - data) \div spc + 2 IN InSector(tree(c), place(c, d) * spc + ((s - data) % spc))]
        fixed == IF fmt = 32 THEN <<>> ELSE [s \in dirbase .. dirbase + rootsec - 1 |-> InSector(EntriesOf(dirs[0]), s - dirbase)]
        all == UNION {DOMAIN sub(c) : c \in Subs} \cup DOMAIN fixed
        vbr == [NoBoot EXCEPT !.jmp = TRUE, !.sign = TRUE, !.sig32 = fmt = 32, !.bps = SS, !.spc = spc, !.rsv = rsv, !.nfats = 1,
                              !.root = rootsec * PerSec, !.tot16 = IF fmt = 32 THEN 0 ELSE tot, !.tot32 = IF fmt = 32 THEN tot ELSE 0,
                              !.fsz16 = IF fmt = 32 THEN 0 ELSE fsz, !.fsz32 = IF fmt = 32 THEN fsz ELSE 0, !.rootclus = root]
        mbr == [NoBoot EXCEPT !.sign = TRUE, !.part = <<0, at, 0, at>>]
    IN  [boot |-> (at :> vbr) @@ (IF at = 0 THEN <<>> ELSE 0 :> mbr),
         fat |-> [s \in fatbase .. fatbase + fsz - 1 |-> [i \in 1 .. SS |-> byte((s - fatbase) * SS + i - 1)]],
         dirs |-> [s \in all |-> IF s \in DOMAIN fixed THEN fixed[s] ELSE sub(CHOOSE c \in Subs : s \in DOMAIN sub(c))[s]],
         ref |-> [dirs |-> dirs, next |-> next, data |-> data, csize |-> spc, good |-> short = 0, sane |-> TRUE]]

Big == It(<<>>, <<"A", "X", " ">>, "file", 2, 10)
Long == It(<<"a", " ", "b", "c">>, <<"A", "~", "X">>, "file", 7, 3)
Even == It(<<"a", "b", "c">>, <<"B", "~", " ">>, "file", 0, 0)
Gone == It(<<"c">>, <<"C", " ", " ">>, "gone", 7, 3)
Label == It(<<>>, <<"X", "X", "X">>, "vol", 0, 0)
Sub == It(<<>>, <<"B", " ", " ">>, "dir", 5, 0)
Small == [It(<<>>, <<"C", " ", "X">>, "file", 8, 5) EXCEPT !.nt = {"body"}]
Odd == [It(<<"b", "b">>, <<"A", "A", " ">>, "file", 8, 5) EXCEPT !.tag = "badsum"]
Orphan == [It(<<"x", "x", "x", "x">>, <<"X", "~", " ">>, "file", 8, 5) EXCEPT !.tag = "orphan"]
Chains == (2 :> 4) @@ (4 :> 3) @@ (3 :> None) @@ (5 :> 6) @@ (6 :> 10) @@ (10 :> None) @@ (7 :> None) @@ (8 :> 9) @@ (9 :> None)
Tree == (0 :> <<Label, Big, Gone, Long, Sub, Even>>) @@ (5 :> <<Orphan, Odd, Small>>)

V12 == Volume(12, 1, 9, 0, Chains, Tree, None, 0)
V16 == Volume(16, 2, 10, 3, Chains, Tree, None, 0)
V32 == Volume(32, 1, 14, 2, Chains @@ (11 :> 12) @@ (12 :> 13) @@ (13 :> 14) @@ (14 :> 15) @@ (15 :> None), Tree, 11, 0)
SomeDisks == [
    fat12 |-> V12, fat16 |-> V16, fat32 |-> V32,
    \* The chain of a file runs out of the volume, into the reserved entries, or ends early.
    beyond |-> [V12 EXCEPT !.fat = Volume(12, 1, 9, 0, [Chains EXCEPT ![4] = 11], Tree, None, 0).fat, !.ref.next = [Chains EXCEPT ![4] = None], !.ref.sane = FALSE],
    reserved |-> [V12 EXCEPT !.fat = Volume(12, 1, 9, 0, [Chains EXCEPT ![2] = 1], Tree, None, 0).fat, !.ref.next = [Chains EXCEPT ![2] = None], !.ref.sane = FALSE],
    early |-> Volume(16, 2, 10, 3, [Chains EXCEPT ![8] = None], (0 :> <<[Small EXCEPT !.size = 20]>>), None, 0),
    \* No volumes: tables too short, no signature, clusters of three sectors.
    tables |-> Volume(12, 1, 9, 0, Chains, Tree, None, 1),
    unsigned |-> [V16 EXCEPT !.boot[0].sign = FALSE, !.ref.good = FALSE],
    three |-> [V12 EXCEPT !.boot[0].spc = 3, !.ref.good = FALSE]]

\* TLC builds the images once.
ASSUME ImagesBuilt == \A d \in DOMAIN SomeDisks : \A f \in {"boot", "fat", "dirs"} : SomeDisks[d][f] = SomeDisks[d][f]

SomePaths == {
    <<<<"a", "x">>>>, <<<<"A", " ", "B", "c", ".">>>>, <<<<"a", "a", "x">>>>, <<<<"b">>, <<>>, <<"c", ".", "x">>>>, <<<<"b">>, <<"x", "x", "x", "x">>>>, <<<<"b">>>>,
    <<<<"a", "b", "c", "x">>>>, <<<<"a", "x">>, <<"c">>>>, <<>>, <<<<"a", "b">>>>, <<<<"*">>>>, <<<<"b">>, <<"b", "b">>>>}
=============================================================================
