----------------------------- MODULE BootProofs -----------------------------
(***************************************************************************)
(* What plat_main of the sg2042 and sg2044 hands over, for every board:    *)
(* any conf.ini, any files and sizes, any number of harts.                 *)
(***************************************************************************)
EXTENDS Boot, TLAPS

-----------------------------------------------------------------------------
(* Types.                                                                  *)

\* The fields of a board that the proofs use.
LEMMA BoardFacts ==
    ASSUME hw \in BootBoards
    PROVE  /\ hw.plat \in {"sg2042", "sg2044"} /\ hw.mode \in {"cpu", "pcie"}
           /\ hw.rms \in Nat /\ hw.builtin \in Nat /\ hw.pad \in Nat
           /\ hw.conf.lines \in ConfLines /\ hw.stale.lines \in ConfLines
           /\ \A n : SizeOf(n) \in Nat
  BY BoardAssumption DEF SizeOf

\* The lines of the conf.ini that is applied.
LEMMA LinesTyped ==
    ASSUME hw \in BootBoards, fresh \in {"none", "loaded", "stale"}
    PROVE  FileLines \in ConfLines
<1>1. CASE fresh = "none"
  BY <1>1 DEF FileLines, ConfLines
<1>2. CASE fresh \in {"loaded", "stale"}
  BY <1>2, BoardFacts DEF FileLines
<1> QED
  BY <1>1, <1>2

\* The configuration with the name, the address or the size of a file changed.
LEMMA FileNamed ==
    ASSUME NEW c \in BootConfig, NEW i \in Images, NEW v \in FileNames, NEW d, d = [c EXCEPT !.files[i].name = v]
    PROVE  /\ d \in BootConfig /\ d.secure = c.secure
           /\ \A j \in Images \ {i} : d.files[j] = c.files[j]
           /\ d.files[i].name = v /\ d.files[i].addr = c.files[i].addr /\ d.files[i].size = c.files[i].size
  BY DEF BootConfig, Images

LEMMA FileMoved ==
    ASSUME NEW c \in BootConfig, NEW i \in Images, NEW v \in Nat, NEW d, d = [c EXCEPT !.files[i].addr = v]
    PROVE  /\ d \in BootConfig /\ d.secure = c.secure
           /\ \A j \in Images \ {i} : d.files[j] = c.files[j]
           /\ d.files[i].name = c.files[i].name /\ d.files[i].addr = v /\ d.files[i].size = c.files[i].size
  BY DEF BootConfig, Images

LEMMA FileSized ==
    ASSUME NEW c \in BootConfig, NEW i \in Images, NEW v \in Nat, NEW d, d = [c EXCEPT !.files[i].size = v]
    PROVE  /\ d \in BootConfig /\ d.secure = c.secure
           /\ \A j \in Images \ {i} : d.files[j] = c.files[j]
           /\ d.files[i].name = c.files[i].name /\ d.files[i].addr = c.files[i].addr /\ d.files[i].size = v
  BY DEF BootConfig, Images

\* A line keeps the configuration one, and all sizes.
LEMMA ApplyTyped ==
    ASSUME NEW c \in BootConfig, NEW d, NEW k, FileLines \in ConfLines, k \in 1 .. Len(FileLines),
           d = Apply(c, FileLines[k])
    PROVE  d \in BootConfig /\ d.secure = c.secure /\ \A i \in Images : d.files[i].size = c.files[i].size
<1>1. PICK l : l = FileLines[k]
  OBVIOUS
<1>2. \/ l[2] = "name" /\ l[3] \in FileNames
      \/ l[2] = "addr" /\ l[3] \in Nat
      \/ l[2] \notin {"name", "addr"}
  BY <1>1 DEF ConfLines
<1>3. CASE l[1] \in Images /\ l[2] = "name"
  <2>1. l[3] \in FileNames
    BY <1>2, <1>3
  <2>2. d = [c EXCEPT !.files[l[1]].name = l[3]]
    BY <1>1, <1>3 DEF Apply, Cmdline, Images
  <2> QED
    BY <1>3, <2>1, <2>2, FileNamed
<1>4. CASE l[1] \in Images /\ l[2] = "addr"
  <2>1. l[3] \in Nat
    BY <1>2, <1>4
  <2>2. d = [c EXCEPT !.files[l[1]].addr = l[3]]
    BY <1>1, <1>4 DEF Apply, Cmdline, Images
  <2> QED
    BY <1>4, <2>1, <2>2, FileMoved
<1>5. CASE ~(l[1] \in Images /\ l[2] \in {"name", "addr"})
  <2>1. d = c \/ d = [c EXCEPT !.args = TRUE] \/ d = [c EXCEPT !.mac = TRUE]
    BY <1>1, <1>5 DEF Apply, Cmdline, Images
  <2> QED
    BY <2>1, ZenonT(60) DEF BootConfig
<1> QED
  BY <1>3, <1>4, <1>5

\* What the fuses say.
LEMMA FusesTyped ==
    ASSUME hw \in BootBoards
    PROVE  DramOf(hw.efuse) \in 0 .. 128 /\ CornerOf(hw.efuse) \in 0 .. 4
<1>1. /\ hw.efuse.cap \in 0 .. 3 /\ hw.efuse.channels \in 0 .. 3 /\ hw.efuse.corner \in Nat
  BY BoardAssumption
<1>2. /\ <<16, 8, 0, 0>>[hw.efuse.cap + 1] \in {0, 8, 16}
      /\ <<8, 4, 0, 0>>[hw.efuse.channels + 1] \in {0, 4, 8}
  BY <1>1
<1>3. \A x \in {0, 8, 16}, y \in {0, 4, 8} : x * y \in 0 .. 128
  OBVIOUS
<1>4. 16 * 8 = 128
  OBVIOUS
<1>5. PICK x \in {0, 8, 16}, y \in {0, 4, 8} :
         x = <<16, 8, 0, 0>>[hw.efuse.cap + 1] /\ y = <<8, 4, 0, 0>>[hw.efuse.channels + 1]
  BY <1>2
<1>6. DramOf(hw.efuse) = 0 \/ DramOf(hw.efuse) = 128 \/ DramOf(hw.efuse) = x * y
  BY <1>4, <1>5, Zenon DEF DramOf
<1>7. DramOf(hw.efuse) \in 0 .. 128
  BY <1>3, <1>6
<1>8. CornerOf(hw.efuse) \in 0 .. 4
  BY <1>1 DEF CornerOf
<1> QED
  BY <1>7, <1>8

\* The operating point is that of the mode.
LEMMA OpPointOf ==
    ASSUME NEW corner \in 0 .. 4, NEW mode \in {"cpu", "soc", "pcie"}
    PROVE  /\ get_op_point(corner, mode) \in {"cpu", "cpu_ss", "soc"}
           /\ get_op_point(corner, mode) = "soc" <=> mode # "cpu"
<1> DEFINE fits == FittingPoints(corner, mode)
           first == CHOOSE i \in fits : \A j \in fits : i <= j
<1>1. Len(OpPoints) = 4
  BY DEF OpPoints
<1>2. fits = {i \in 1 .. 4 : mode \in OpPoints[i].modes /\ corner \in OpPoints[i].corners}
  BY <1>1 DEF FittingPoints
<1>3. \E i \in fits : /\ \A j \in fits : i <= j
                      /\ OpPoints[i].name \in {"cpu", "cpu_ss", "soc"}
                      /\ OpPoints[i].name = "soc" <=> mode # "cpu"
  <2>1. CASE mode = "cpu" /\ corner # 4
    <3>1. 1 \in fits
      BY <1>2, <2>1 DEF OpPoints
    <3> QED
      BY <1>2, <2>1, <3>1 DEF OpPoints
  <2>2. CASE mode = "cpu" /\ corner = 4
    <3>1. 2 \in fits /\ 1 \notin fits
      BY <1>2, <2>2 DEF OpPoints
    <3> QED
      BY <1>2, <2>2, <3>1 DEF OpPoints
  <2>3. CASE mode # "cpu"
    <3>1. 3 \in fits /\ 1 \notin fits /\ 2 \notin fits
      BY <1>2, <2>3 DEF OpPoints
    <3> QED
      BY <1>2, <2>3, <3>1 DEF OpPoints
  <2> QED
    BY <2>1, <2>2, <2>3
<1>4. \A i, j \in fits : (\A k \in fits : i <= k) /\ (\A k \in fits : j <= k) => i = j
  BY <1>2
<1> HIDE DEF fits
<1>5. /\ first \in fits /\ OpPoints[first].name \in {"cpu", "cpu_ss", "soc"}
      /\ OpPoints[first].name = "soc" <=> mode # "cpu"
  BY <1>3, <1>4
<1> QED
  BY <1>5 DEF get_op_point, fits

-----------------------------------------------------------------------------
(* Memory of the sg2042.                                                   *)

LEMMA ChannelSizes ==
    ASSUME hw \in BootBoards
    PROVE  \A i \in 1 .. 2, j \in 1 .. 4 : DdrSize(i, j) \in 0 .. 128
<1> SUFFICES ASSUME NEW i \in 1 .. 2, NEW j \in 1 .. 4
             PROVE  DdrSize(i, j) \in 0 .. 128
  OBVIOUS
<1>1. PICK code : code = hw.ddr[i][j]
  OBVIOUS
<1>2. code \in 3 .. 10 \cup {41}
  BY <1>1, BoardAssumption
<1>3. CASE code = 41
  BY <1>1, <1>3 DEF DdrSize, get_ddr_size
<1>4. CASE code \in 3 .. 10
  <2>1. GB[code - 2] \in {128, 64, 32, 16, 8, 4, 2, 1}
    BY <1>4 DEF GB
  <2> QED
    BY <1>1, <1>4, <2>1 DEF DdrSize, get_ddr_size
<1> QED
  BY <1>2, <1>3, <1>4

\* Where the channels lie.
LEMMA ChannelBases ==
    ASSUME hw \in BootBoards
    PROVE  /\ \A i \in 1 .. 2, j \in 1 .. 4 : DdrBase(i, j) \in Nat
           /\ \A i \in 1 .. 2, j, k \in 1 .. 4 : j < k => DdrBase(i, j) + DdrSize(i, j) <= DdrBase(i, k)
           /\ \A j, k \in 1 .. 4 : DdrBase(1, j) + DdrSize(1, j) <= DdrBase(2, k)
           /\ DdrBase(1, 1) = 0
<1>1. ASSUME NEW i \in 1 .. 2
      PROVE  /\ DdrSize(i, 1) \in 0 .. 128 /\ DdrSize(i, 2) \in 0 .. 128
             /\ DdrSize(i, 3) \in 0 .. 128 /\ DdrSize(i, 4) \in 0 .. 128
             /\ DdrBase(i, 1) = 512 * (i - 1)
             /\ DdrBase(i, 2) = 512 * (i - 1) + DdrSize(i, 1)
             /\ DdrBase(i, 3) = 512 * (i - 1) + DdrSize(i, 1) + DdrSize(i, 2)
             /\ DdrBase(i, 4) = 512 * (i - 1) + DdrSize(i, 1) + DdrSize(i, 2) + DdrSize(i, 3)
  <2>1. /\ DdrSize(i, 1) \in 0 .. 128 /\ DdrSize(i, 2) \in 0 .. 128
        /\ DdrSize(i, 3) \in 0 .. 128 /\ DdrSize(i, 4) \in 0 .. 128
    BY ChannelSizes
  <2>2. PICK s1, s2, s3 : /\ s1 = DdrSize(i, 1) /\ s2 = DdrSize(i, 2) /\ s3 = DdrSize(i, 3)
                          /\ s1 \in 0 .. 128 /\ s2 \in 0 .. 128 /\ s3 \in 0 .. 128
    BY <2>1, Zenon
  <2>3. DdrBase(i, 1) = 512 * (i - 1)
    BY <2>2 DEF DdrBase, Below, ChipSpace
  <2>4. DdrBase(i, 2) = 512 * (i - 1) + s1
    BY <2>2 DEF DdrBase, Below, ChipSpace
  <2>5. DdrBase(i, 3) = 512 * (i - 1) + s1 + s2
    BY <2>2 DEF DdrBase, Below, ChipSpace
  <2>6. DdrBase(i, 4) = 512 * (i - 1) + s1 + s2 + s3
    BY <2>2 DEF DdrBase, Below, ChipSpace
  <2> QED
    BY <2>1, <2>2, <2>3, <2>4, <2>5, <2>6, ZenonT(40)
<1>2. ASSUME NEW i \in 1 .. 2
      PROVE  /\ \A j \in 1 .. 4 : /\ DdrBase(i, j) \in Nat /\ DdrBase(i, j) >= 512 * (i - 1)
                                  /\ DdrBase(i, j) + DdrSize(i, j) <= 512 * i
             /\ \A j, k \in 1 .. 4 : j < k => DdrBase(i, j) + DdrSize(i, j) <= DdrBase(i, k)
  <2>1. \A j \in 1 .. 4 : j = 1 \/ j = 2 \/ j = 3 \/ j = 4
    OBVIOUS
  <2>2. PICK s1, s2, s3, s4 :
          /\ s1 = DdrSize(i, 1) /\ s2 = DdrSize(i, 2) /\ s3 = DdrSize(i, 3) /\ s4 = DdrSize(i, 4)
          /\ s1 \in 0 .. 128 /\ s2 \in 0 .. 128 /\ s3 \in 0 .. 128 /\ s4 \in 0 .. 128
    BY <1>1, ZenonT(40)
  <2>3. /\ DdrBase(i, 1) = 512 * (i - 1) /\ DdrBase(i, 2) = 512 * (i - 1) + s1
        /\ DdrBase(i, 3) = 512 * (i - 1) + s1 + s2 /\ DdrBase(i, 4) = 512 * (i - 1) + s1 + s2 + s3
    BY <1>1, <2>2
  <2> QED
    BY <2>1, <2>2, <2>3
<1>3. DdrBase(1, 1) = 0
  BY <1>1
<1>4. \A i \in 1 .. 2 : i = 1 \/ i = 2
  OBVIOUS
<1>5. ASSUME NEW j \in 1 .. 4, NEW k \in 1 .. 4
      PROVE  DdrBase(1, j) + DdrSize(1, j) <= DdrBase(2, k)
  <2>1. DdrBase(1, j) + DdrSize(1, j) <= 512 * 1 /\ DdrBase(2, k) >= 512 * (2 - 1)
    BY <1>2
  <2> QED
    BY <1>2, <2>1, ChannelSizes
<1> QED
  BY <1>2, <1>3, <1>5

\* The nodes of channel j of chip i.
ChannelNodes(i, j) ==
    IF \E k \in 1 .. j : DdrSize(i, k) = 0 THEN {}
    ELSE {m \in IF i = 1 /\ j = 1 /\ DdrSize(1, 1) >= 4 THEN Split(0, DdrSize(1, 1))
                                                      ELSE {[start |-> DdrBase(i, j), size |-> DdrSize(i, j)]} :
          m.size > 0}

LEMMA NodesOfChannels ==
    ASSUME hw \in BootBoards
    PROVE  DdrNodes = UNION {ChannelNodes(i, j) : i \in Chips, j \in 1 .. 4}
<1>1. ASSUME NEW i \in Chips, NEW j \in 1 .. 4
      PROVE  (i = 1 /\ j = 1 /\ Hole.start >= DdrBase(i, j) /\ Hole.start + Hole.size <= DdrBase(i, j) + DdrSize(i, j))
             <=> (i = 1 /\ j = 1 /\ DdrSize(1, 1) >= 4)
  BY ChannelBases, ChannelSizes DEF Hole
<1> QED
  BY <1>1, ChannelBases DEF DdrNodes, ChannelNodes

\* The nodes of a channel cover it, but for the hole.
LEMMA ChannelCovered ==
    ASSUME hw \in BootBoards, NEW i \in 1 .. 2, NEW j \in 1 .. 4
    PROVE  /\ ChannelNodes(i, j) \subseteq [start : Nat, size : Nat]
           /\ \A m \in ChannelNodes(i, j) : /\ m.start >= DdrBase(i, j)
                                           /\ m.start + m.size <= DdrBase(i, j) + DdrSize(i, j)
           /\ \A m, n \in ChannelNodes(i, j) : m # n => m.start + m.size <= n.start \/ n.start + n.size <= m.start
           /\ (\A k \in 1 .. j : DdrSize(i, k) > 0) =>
                \A g \in DdrBase(i, j) .. DdrBase(i, j) + DdrSize(i, j) - 1 :
                    (g # 3 \/ DdrSize(1, 1) < 4) <=> (\E m \in ChannelNodes(i, j) : Covers(m, g))
<1> DEFINE n == DdrSize(i, j)  b == DdrBase(i, j)
<1>1. n \in 0 .. 128 /\ b \in Nat /\ DdrSize(1, 1) \in 0 .. 128
  BY ChannelSizes, ChannelBases
<1>2. CASE \E k \in 1 .. j : DdrSize(i, k) = 0
  BY <1>2, ChannelSizes DEF ChannelNodes
<1>3. CASE ~(\E k \in 1 .. j : DdrSize(i, k) = 0) /\ i = 1 /\ j = 1 /\ DdrSize(1, 1) >= 4
  <2>1. b = 0
    BY <1>3, ChannelBases
  <2>2. ChannelNodes(i, j) = {m \in {[start |-> 0, size |-> 3], [start |-> 4, size |-> n - 4]} : m.size > 0}
    BY <1>1, <1>3 DEF ChannelNodes, Split, Hole
  <2>3. \A m \in ChannelNodes(i, j) : m = [start |-> 0, size |-> 3] \/ m = [start |-> 4, size |-> n - 4]
    BY <2>2
  <2>4. \A g \in 0 .. n - 1 : g # 3 <=> \E m \in ChannelNodes(i, j) : Covers(m, g)
    <3> SUFFICES ASSUME NEW g \in 0 .. n - 1
                 PROVE  g # 3 <=> \E m \in ChannelNodes(i, j) : Covers(m, g)
      OBVIOUS
    <3>1. CASE g < 3
      <4>1. [start |-> 0, size |-> 3] \in ChannelNodes(i, j)
        BY <2>2
      <4> QED
        BY <3>1, <4>1 DEF Covers
    <3>2. CASE g = 3
      BY <1>1, <2>3, <3>2 DEF Covers
    <3>3. CASE g > 3
      <4>1. [start |-> 4, size |-> n - 4] \in ChannelNodes(i, j)
        BY <1>1, <2>2, <3>3
      <4> QED
        BY <1>1, <3>3, <4>1 DEF Covers
    <3> QED
      BY <1>1, <3>1, <3>2, <3>3
  <2> QED
    BY <1>1, <1>3, <2>1, <2>3, <2>4
<1>4. CASE ~(\E k \in 1 .. j : DdrSize(i, k) = 0) /\ ~(i = 1 /\ j = 1 /\ DdrSize(1, 1) >= 4)
  <2>1. ChannelNodes(i, j) = {[start |-> b, size |-> n]}
    BY <1>1, <1>4 DEF ChannelNodes
  <2>2. DdrSize(1, 1) >= 4 => b >= 4
    <3>1. CASE i = 1
      BY <1>1, <1>4, <3>1, ChannelBases, ChannelSizes
    <3>2. CASE i = 2
      <4>1. DdrBase(1, 1) + DdrSize(1, 1) <= DdrBase(2, j)
        BY ChannelBases
      <4> QED
        BY <1>1, <3>2, <4>1, ChannelBases
    <3> QED
      BY <3>1, <3>2
  <2> QED
    BY <1>1, <1>4, <2>1, <2>2 DEF Covers
<1> QED
  BY <1>2, <1>3, <1>4

LEMMA ChipNumbers == Chips \subseteq 1 .. 2
  BY DEF Chips

\* The memory the tree of the sg2042 tells of is there, once and whole.
LEMMA NodesHonest ==
    ASSUME hw \in BootBoards
    PROVE  /\ DdrNodes \subseteq [start : Nat, size : Nat]
           /\ \A m, n \in DdrNodes : m # n => m.start + m.size <= n.start \/ n.start + n.size <= m.start
           /\ \A i \in Chips, j \in 1 .. 4 : (\A k \in 1 .. j : DdrSize(i, k) > 0) =>
                \A g \in DdrBase(i, j) .. DdrBase(i, j) + DdrSize(i, j) - 1 :
                    (g # Hole.start \/ DdrSize(1, 1) < 4) = (\E m \in DdrNodes : Covers(m, g))
<1>1. \A m \in DdrNodes : \E i \in Chips, j \in 1 .. 4 : m \in ChannelNodes(i, j)
  BY NodesOfChannels
<1>2. \A i \in Chips, j \in 1 .. 4 : ChannelNodes(i, j) \subseteq DdrNodes
  BY NodesOfChannels
<1>3. DdrNodes \subseteq [start : Nat, size : Nat]
  BY <1>1, ChannelCovered, ChipNumbers
<1>4. ASSUME NEW m \in DdrNodes, NEW n \in DdrNodes, m # n
      PROVE  m.start + m.size <= n.start \/ n.start + n.size <= m.start
  <2>1. PICK i \in 1 .. 2, j \in 1 .. 4 : m \in ChannelNodes(i, j)
    BY <1>1, ChipNumbers
  <2>2. PICK k \in 1 .. 2, l \in 1 .. 4 : n \in ChannelNodes(k, l)
    BY <1>1, ChipNumbers
  <2>3. /\ m.start >= DdrBase(i, j) /\ m.start + m.size <= DdrBase(i, j) + DdrSize(i, j)
        /\ n.start >= DdrBase(k, l) /\ n.start + n.size <= DdrBase(k, l) + DdrSize(k, l)
    BY <2>1, <2>2, ChannelCovered
  <2>4. /\ m.start \in Nat /\ m.size \in Nat /\ n.start \in Nat /\ n.size \in Nat
        /\ DdrBase(i, j) \in Nat /\ DdrBase(k, l) \in Nat /\ DdrSize(i, j) \in 0 .. 128 /\ DdrSize(k, l) \in 0 .. 128
    BY <1>3, ChannelBases, ChannelSizes
  <2>5. CASE i = k /\ j = l
    BY <1>4, <2>1, <2>2, <2>5, ChannelCovered
  <2>6. CASE ~(i = k /\ j = l)
    <3>1. \/ DdrBase(i, j) + DdrSize(i, j) <= DdrBase(k, l)
          \/ DdrBase(k, l) + DdrSize(k, l) <= DdrBase(i, j)
      BY <2>6, ChannelBases
    <3> QED
      BY <2>3, <2>4, <3>1
  <2> QED
    BY <2>5, <2>6
<1>5. ASSUME NEW i \in Chips, NEW j \in 1 .. 4, \A k \in 1 .. j : DdrSize(i, k) > 0,
             NEW g \in DdrBase(i, j) .. DdrBase(i, j) + DdrSize(i, j) - 1
      PROVE  (g # 3 \/ DdrSize(1, 1) < 4) <=> (\E m \in DdrNodes : Covers(m, g))
  <2>1. i \in 1 .. 2 /\ DdrBase(i, j) \in Nat /\ DdrSize(i, j) \in 0 .. 128 /\ g \in Nat
    BY ChipNumbers, ChannelBases, ChannelSizes
  <2>2. (g # 3 \/ DdrSize(1, 1) < 4) <=> (\E m \in ChannelNodes(i, j) : Covers(m, g))
    BY <1>5, <2>1, ChannelCovered
  <2>3. ASSUME NEW m \in DdrNodes, Covers(m, g)
        PROVE  m \in ChannelNodes(i, j)
    <3>1. PICK k \in 1 .. 2, l \in 1 .. 4 : m \in ChannelNodes(k, l)
      BY <1>1, ChipNumbers
    <3>2. /\ m.start >= DdrBase(k, l) /\ m.start + m.size <= DdrBase(k, l) + DdrSize(k, l)
          /\ m.start \in Nat /\ m.size \in Nat /\ DdrBase(k, l) \in Nat /\ DdrSize(k, l) \in 0 .. 128
      BY <1>3, <3>1, ChannelCovered, ChannelBases, ChannelSizes
    <3>3. g >= DdrBase(k, l) /\ g < DdrBase(k, l) + DdrSize(k, l)
      BY <2>1, <2>3, <3>2 DEF Covers
    <3>4. ~(DdrBase(i, j) + DdrSize(i, j) <= DdrBase(k, l)) /\ ~(DdrBase(k, l) + DdrSize(k, l) <= DdrBase(i, j))
      BY <2>1, <3>2, <3>3
    <3>5. i = k /\ j = l
      BY <2>1, <3>4, ChannelBases
    <3> QED
      BY <3>1, <3>5
  <2> QED
    BY <1>2, <2>2, <2>3
<1> QED
  BY <1>3, <1>4, <1>5 DEF Hole

-----------------------------------------------------------------------------
(* Type correctness.                                                       *)

TypeInv ==
    /\ BootTypeOK
    /\ pc[1] \in {"init", "config"} => applied = 0

LEMMA PutTyped ==
    ASSUME NEW f \in FileNames, NEW a \in Nat, NEW n \in Int, memory \in [0 .. Cells - 1 -> FileNames \X Nat]
    PROVE  /\ Put(f, a, n) \in [0 .. Cells - 1 -> FileNames \X Nat]
           /\ \A c \in 0 .. Cells - 1 : Put(f, a, n)[c] = IF c \in a .. a + n - 1 THEN <<f, c - a>> ELSE memory[c]
<1>1. Cells \in Nat
  BY BootAssumption
<1>2. \A c \in 0 .. Cells - 1 : c \in a .. a + n - 1 => <<f, c - a>> \in FileNames \X Nat
  BY <1>1
<1>3. \A c \in 0 .. Cells - 1 : Put(f, a, n)[c] = IF c \in a .. a + n - 1 THEN <<f, c - a>> ELSE memory[c]
  BY Zenon DEF Put
<1>4. \A c \in 0 .. Cells - 1 : (IF c \in a .. a + n - 1 THEN <<f, c - a>> ELSE memory[c]) \in FileNames \X Nat
  BY <1>2
<1> QED
  BY <1>3, <1>4, Zenon DEF Put

\* A step of the configuration keeps the types of everything else.
LEMMA RestTyped ==
    ASSUME TypeInv, hw' = hw, memory' = memory, key' = key, verified' = verified,
           fdt' = fdt, info' = info, woken' = woken, jumped' = jumped,
           cfg' \in BootConfig, fresh' \in {"none", "loaded", "stale"}, applied' \in 0 .. Len(FileLines'),
           pc'[1] \in {"init", "config"} => applied' = 0
    PROVE  TypeInv'
  BY DEF TypeInv, BootTypeOK, Jumped

\* The steps that leave the configuration, the images and the harts alone.
TreeSteps == load_dtbs \/ merge_dtbs \/ modify_memory \/ modify_nodes \/ modify_props
HartSteps == (\E h \in Harts : wake_up(h) \/ secondary_core_fun(h)) \/ jump_to

LEMMA ConfigTyped ==
    ASSUME TypeInv, config_init \/ parse_config_file \/ handler_img \/ config_parsed \/ parse_efi_variable \/ load_images
    PROVE  TypeInv'
<1>0. /\ hw \in BootBoards /\ hw.plat \in {"sg2042", "sg2044"} /\ hw.mode \in {"cpu", "pcie"} /\ hw.rms \in Nat
      /\ cfg \in BootConfig /\ fresh \in {"none", "loaded", "stale"} /\ applied \in 0 .. Len(FileLines)
      /\ FileLines \in ConfLines
  BY BoardFacts, LinesTyped DEF TypeInv, BootTypeOK
<1>1. CASE config_init
  <2>1. build_board_info(DefaultFiles) \in [Images -> [name : FileNames, addr : Nat, size : Nat]]
    <3>1. PICK f : f = DefaultFiles
      OBVIOUS
    <3>2. f \in [Images -> [name : FileNames, addr : Nat, size : Nat]]
      BY <3>1, BootAssumption DEF DefaultFiles, File, Images
    <3>3. [f EXCEPT !["dtb"].name = "board.dtb"] \in [Images -> [name : FileNames, addr : Nat, size : Nat]]
      BY <3>2, BootAssumption DEF Images
    <3> QED
      BY <3>1, <3>2, <3>3 DEF build_board_info
  <2>2. (Is44 /\ hw.efuse.found /\ hw.efuse.secure) \in BOOLEAN
    OBVIOUS
  <2>3. cfg' \in BootConfig
    BY <1>0, <1>1, <2>1, <2>2, FusesTyped DEF config_init, BootConfig
  <2> QED
    BY <1>0, <1>1, <2>3, RestTyped DEF config_init, At, Then, TypeInv, FileLines
<1>2. CASE parse_config_file
  <2>1. fresh' \in {"none", "loaded", "stale"} /\ hw' = hw /\ applied' = applied /\ applied = 0
    BY <1>0, <1>2 DEF parse_config_file, TypeInv, At
  <2>2. FileLines' \in ConfLines
    BY <1>0, <2>1, BoardFacts DEF FileLines, ConfLines
  <2>3. applied' \in 0 .. Len(FileLines')
    BY <2>1, <2>2 DEF ConfLines
  <2> QED
    BY <1>0, <1>2, <2>1, <2>3, RestTyped DEF parse_config_file, Then
<1>3. CASE handler_img
  <2>1. /\ FileLines' = FileLines /\ applied + 1 \in 1 .. Len(FileLines) /\ applied' = applied + 1
        /\ cfg' = Apply(cfg, FileLines[applied + 1])
    BY <1>0, <1>3 DEF handler_img, FileLines, ConfLines
  <2>2. cfg' \in BootConfig
    BY <1>0, <2>1, ApplyTyped
  <2> QED
    <3>1. pc'[1] = "lines"
      BY <1>3 DEF handler_img, At
    <3>2. /\ hw' = hw /\ memory' = memory /\ key' = key /\ verified' = verified /\ fdt' = fdt /\ info' = info
          /\ woken' = woken /\ jumped' = jumped /\ fresh' = fresh
      BY <1>3 DEF handler_img
    <3> QED
      BY <1>0, <2>1, <2>2, <3>1, <3>2, RestTyped
<1>4. CASE config_parsed
  BY <1>0, <1>4, RestTyped DEF config_parsed, Then, FileLines
<1>5. CASE parse_efi_variable
  <2>1. PICK mode \in {"cpu", "soc", "pcie"} :
           cfg' = [cfg EXCEPT !.reserved = hw.rms, !.mode = mode, !.op = get_op_point(cfg.corner, mode)]
    BY <1>0, <1>5 DEF parse_efi_variable, BootConfig
  <2>2. get_op_point(cfg.corner, mode) \in {"cpu", "cpu_ss", "soc"}
    BY <1>0, OpPointOf DEF BootConfig
  <2>3. cfg' \in BootConfig
    BY <1>0, <2>1, <2>2 DEF BootConfig
  <2> QED
    BY <1>0, <1>5, <2>3, RestTyped DEF parse_efi_variable, Then, FileLines
<1>6. CASE load_images
  <2>1. \A f \in [Images -> [name : FileNames, addr : Nat, size : Nat]] :
           TreesOf(f) \in [Images -> [name : FileNames, addr : Nat, size : Nat]]
    <3> SUFFICES ASSUME NEW f \in [Images -> [name : FileNames, addr : Nat, size : Nat]], NEW g, g = TreesOf(f)
                 PROVE  g \in [Images -> [name : FileNames, addr : Nat, size : Nat]]
      OBVIOUS
    <3>1. CASE g = [f EXCEPT !["dtbo"].name = f["dtb"].name, !["dtb"].name = "null"]
      <4>1. PICK v \in FileNames : v = f["dtb"].name
        BY DEF Images
      <4>2. PICK h : h = [f EXCEPT !["dtbo"].name = v]
        OBVIOUS
      <4>3. h \in [Images -> [name : FileNames, addr : Nat, size : Nat]]
        BY <4>2 DEF Images
      <4>4. g = [h EXCEPT !["dtb"].name = "null"]
        BY <3>1, <4>1, <4>2 DEF Images
      <4> QED
        BY <4>3, <4>4, BootAssumption DEF Images
    <3>2. CASE g = [f EXCEPT !["dtbo"].name = "null"]
      BY <3>2, BootAssumption DEF Images
    <3>3. CASE g = f
      BY <3>3
    <3> QED
      BY <3>1, <3>2, <3>3 DEF TreesOf
  <2>2. cfg.files \in [Images -> [name : FileNames, addr : Nat, size : Nat]]
    BY <1>0 DEF BootConfig
  <2>3. cfg' \in BootConfig
    BY <1>0, <1>6, <2>1, <2>2 DEF load_images, BootConfig
  <2>4. pc'[1] \in {"key", "load"}
    <3>1. PICK i : i = Order[1]
      OBVIOUS
    <3>2. pc' = <<"key", "">> \/ pc' = <<"load", i>>
      BY <1>6, <3>1, Zenon DEF load_images, Then, FirstImage
    <3>3. CASE pc' = <<"key", "">>
      BY <3>3
    <3>4. CASE pc' = <<"load", i>>
      BY <3>4
    <3> QED
      BY <3>2, <3>3, <3>4
  <2> QED
    BY <1>0, <1>6, <2>3, <2>4, RestTyped DEF load_images, FileLines
<1> QED
  BY <1>1, <1>2, <1>3, <1>4, <1>5, <1>6

\* What follows an image.
LEMMA AfterImage ==
    ASSUME NEW i, NextImage(i)
    PROVE  pc' = <<"cli", "">> \/ \E j : pc' = <<"load", j>>
  BY DEF NextImage, Then

\* Where a step starts, and where it goes.
LEMMA From == \A p, i : pc = <<p, i>> => pc[1] = p /\ pc[2] = i
  OBVIOUS

LEMMA GoesTo == \A p, i : pc' = <<p, i>> => pc'[1] = p /\ pc'[2] = i
  OBVIOUS

LEMMA Goes ==
    ASSUME NEW S, \E p \in S : \E i : pc' = <<p, i>>
    PROVE  pc'[1] \in S
<1>1. PICK p \in S : \E i : pc' = <<p, i>>
  OBVIOUS
<1>2. PICK i : pc' = <<p, i>>
  BY <1>1
<1> QED
  BY <1>1, <1>2

LEMMA ImagesTyped ==
    ASSUME TypeInv, invoke_key \/ \E i \in Images : LoadImage(i) \/ VerifyImage(i)
    PROVE  TypeInv'
<1>0. /\ hw \in BootBoards /\ cfg \in BootConfig /\ fresh \in {"none", "loaded", "stale"}
      /\ applied \in 0 .. Len(FileLines) /\ memory \in [0 .. Cells - 1 -> FileNames \X Nat]
      /\ \A n : SizeOf(n) \in Nat
  BY BoardFacts DEF TypeInv, BootTypeOK
<1>1. CASE invoke_key
  <2>1. key' \in BOOLEAN /\ (pc' = <<"hung", "">> \/ pc' = <<"load", Order[1]>>)
    BY <1>1, Zenon DEF invoke_key, Then, FirstImage, TypeInv, BootTypeOK
  <2>2. pc'[1] \in {"hung", "load"}
    BY <2>1, Goes
  <2>3. /\ hw' = hw /\ cfg' = cfg /\ fresh' = fresh /\ applied' = applied /\ memory' = memory /\ verified' = verified
        /\ fdt' = fdt /\ info' = info /\ woken' = woken /\ jumped' = jumped
    BY <1>1 DEF invoke_key
  <2> QED
    BY <1>0, <2>1, <2>2, <2>3 DEF TypeInv, BootTypeOK, FileLines, Jumped
<1>2. ASSUME NEW i \in Images, LoadImage(i)
      PROVE  TypeInv'
  <2>1. /\ hw' = hw /\ fresh' = fresh /\ applied' = applied /\ key' = key /\ verified' = verified
        /\ fdt' = fdt /\ info' = info /\ woken' = woken /\ jumped' = jumped
    BY <1>2 DEF LoadImage
  <2>2. pc' = <<"hung", "">> \/ pc' = <<"cli", "">> \/ (\E j : pc' = <<"load", j>>) \/ pc' = <<"verify", i>>
    BY <1>2, AfterImage, Zenon DEF LoadImage, LoadFailed, Then
  <2>3. pc'[1] \in {"hung", "cli", "load", "verify"}
    BY <2>2, Goes
  <2>4. PICK n \in Nat, f \in FileNames, a \in Nat :
           n = SizeOf(cfg.files[i].name) /\ f = cfg.files[i].name /\ a = cfg.files[i].addr
    BY <1>0 DEF BootConfig
  <2>5. memory' \in [0 .. Cells - 1 -> FileNames \X Nat]
    BY <1>0, <1>2, <2>4, PutTyped DEF LoadImage
  <2>6. cfg' = cfg \/ cfg' = [cfg EXCEPT !.files[i].size = n]
    BY <1>2, <2>4 DEF LoadImage
  <2>7. cfg' \in BootConfig
    BY <1>0, <2>6, FileSized
  <2> QED
    BY <1>0, <2>1, <2>3, <2>5, <2>7 DEF TypeInv, BootTypeOK, FileLines, Jumped
<1>3. ASSUME NEW i \in Images, VerifyImage(i)
      PROVE  TypeInv'
  <2>1. /\ hw' = hw /\ fresh' = fresh /\ applied' = applied /\ key' = key /\ memory' = memory /\ cfg' = cfg
        /\ fdt' = fdt /\ info' = info /\ woken' = woken /\ jumped' = jumped
    BY <1>3 DEF VerifyImage
  <2>2. pc' = <<"hung", "">> \/ pc' = <<"cli", "">> \/ (\E j : pc' = <<"load", j>>)
    BY <1>3, AfterImage, Zenon DEF VerifyImage, GoodSignature, Then
  <2>3. pc'[1] \in {"hung", "cli", "load"}
    BY <2>2, Goes
  <2>4. verified' = verified \/ verified' = verified \cup {i}
    BY <1>3 DEF VerifyImage, GoodSignature
  <2> QED
    BY <1>0, <2>1, <2>3, <2>4 DEF TypeInv, BootTypeOK, FileLines, Jumped
<1> QED
  BY <1>1, <1>2, <1>3

LEMMA NoTreeTyped == NoTree \in BootTree
<1>1. "nothing" \in FileNames /\ "none" \in FileNames
  BY BootAssumption
<1> QED
  BY <1>1 DEF NoTree, BootTree

\* What modify_memory leaves in the tree: all nodes, or those it had room for.
LEMMA MemoryEdit ==
    ASSUME TypeInv, modify_memory
    PROVE  /\ fdt' \in BootTree
           /\ fdt'.base = fdt.base /\ fdt'.over = fdt.over /\ fdt'.bad = fdt.bad
           /\ fdt.base # "nothing" =>
                /\ fdt'.nodes \subseteq IF Is44 THEN DramNodes ELSE DdrNodes
                /\ fdt'.room => fdt'.nodes = IF Is44 THEN DramNodes ELSE DdrNodes
<1>0. hw \in BootBoards /\ cfg \in BootConfig /\ fdt \in BootTree
  BY DEF TypeInv, BootTypeOK
<1>1. DdrNodes \subseteq [start : Int, size : Int]
  BY <1>0, NodesHonest
<1>2. DramNodes \subseteq [start : Int, size : Int]
  <2>1. cfg.dram \in 0 .. 128 /\ cfg.reserved \in Nat
    BY <1>0 DEF BootConfig
  <2>2. PICK d \in Int : d = cfg.dram - cfg.reserved
    BY <2>1
  <2>3. d % Space \in Int
    <3>1. Space \in Nat /\ Space > 128
      BY BootAssumption, Zenon
    <3> QED
      BY <3>1
  <2> QED
    BY <2>2, <2>3 DEF DramNodes
<1>3. PICK all \in SUBSET [start : Int, size : Int] : all = IF Is44 THEN DramNodes ELSE DdrNodes
  BY <1>1, <1>2
<1>4. PICK u \in Int : u = fdt.used + 1
  BY <1>0 DEF BootTree
<1>5. PICK t : t = [fdt EXCEPT !.used = u]
  OBVIOUS
<1>6. t \in BootTree /\ t.base = fdt.base /\ t.over = fdt.over /\ t.bad = fdt.bad
  BY <1>0, <1>5 DEF BootTree
<1>7. NoRoom(t) \in BootTree /\ ~NoRoom(t).room
      /\ NoRoom(t).base = fdt.base /\ NoRoom(t).over = fdt.over /\ NoRoom(t).bad = fdt.bad
  BY <1>6 DEF BootTree, NoRoom
<1>8. [fdt EXCEPT !.used = @ + 1] = t
  BY <1>4, <1>5
<1>9. \/ fdt.base = "nothing" /\ fdt' = fdt
      \/ fdt' = [t EXCEPT !.nodes = all]
      \/ \E n \in all : fdt' = [NoRoom(t) EXCEPT !.nodes = {m \in all : m.start < n.start}]
  BY <1>3, <1>8, Zenon DEF modify_memory
<1>10. ASSUME NEW nodes \in SUBSET all, NEW v \in {t, NoRoom(t)}, fdt' = [v EXCEPT !.nodes = nodes]
       PROVE  /\ fdt' \in BootTree /\ fdt'.nodes = nodes /\ fdt'.room = v.room
              /\ fdt'.base = fdt.base /\ fdt'.over = fdt.over /\ fdt'.bad = fdt.bad
  BY <1>6, <1>7, <1>10 DEF BootTree
<1>11. CASE fdt.base = "nothing" /\ fdt' = fdt
  BY <1>0, <1>11
<1>12. CASE fdt' = [t EXCEPT !.nodes = all]
  BY <1>3, <1>10, <1>12
<1>13. CASE \E n \in all : fdt' = [NoRoom(t) EXCEPT !.nodes = {m \in all : m.start < n.start}]
  <2>1. PICK nodes \in SUBSET all : fdt' = [NoRoom(t) EXCEPT !.nodes = nodes]
    BY <1>13
  <2> QED
    BY <1>3, <1>7, <1>10, <2>1
<1> QED
  BY <1>9, <1>11, <1>12, <1>13

\* What modify_nodes leaves in the tree: what was there, and what it adds, if
\* every edit had room.
LEMMA NodeEdits ==
    ASSUME TypeInv, modify_nodes
    PROVE  /\ fdt' \in BootTree
           /\ fdt'.base = fdt.base /\ fdt'.over = fdt.over /\ fdt'.bad = fdt.bad /\ fdt'.nodes = fdt.nodes
           /\ fdt'.room => fdt.room
           /\ fdt.base # "nothing" /\ fdt'.room =>
                /\ fdt'.initrd = (cfg.files["ramfs"].name # "null")
                /\ Is44 => fdt'.args = cfg.args /\ fdt'.cppc = cfg.op
<1>0. cfg \in BootConfig /\ fdt \in BootTree
  BY DEF TypeInv, BootTypeOK
<1>1. CASE fdt.base = "nothing"
  BY <1>0, <1>1 DEF modify_nodes
<1>2. CASE fdt.base # "nothing"
  <2> DEFINE Same(v) == v.base = fdt.base /\ v.over = fdt.over /\ v.bad = fdt.bad /\ v.nodes = fdt.nodes /\ (v.room => fdt.room)
  <2>1. PICK s : s = [fdt EXCEPT !.used = @ + 1]
    OBVIOUS
  <2>2. PICK t \in add_cppc_node(s) : \E u \in modify_initramfs(t) : fdt' \in modify_bootargs(u)
    BY <1>2, <2>1 DEF modify_nodes
  <2>3. PICK u \in modify_initramfs(t) : fdt' \in modify_bootargs(u)
    BY <2>2
  <2>4. s \in BootTree /\ Same(s)
    BY <1>0, <2>1 DEF BootTree
  <2>5. t \in BootTree /\ Same(t) /\ (t.room /\ Is44 => t.cppc = cfg.op)
    <3>1. PICK op \in {"none", "cpu", "cpu_ss", "soc"} : op = cfg.op
      BY <1>0 DEF BootConfig
    <3>2. t = NoRoom(s) \/ (Is44 /\ t = [s EXCEPT !.cppc = op]) \/ (~Is44 /\ t = s)
      BY <2>2, <3>1 DEF add_cppc_node
    <3>3. CASE t = NoRoom(s)
      BY <2>4, <3>3 DEF BootTree, NoRoom
    <3>4. CASE Is44 /\ t = [s EXCEPT !.cppc = op]
      BY <2>4, <3>1, <3>4 DEF BootTree
    <3> QED
      BY <2>4, <3>2, <3>3, <3>4
  <2>6. /\ u \in BootTree /\ Same(u) /\ u.cppc = t.cppc /\ (u.room => t.room)
        /\ u.room => u.initrd = (cfg.files["ramfs"].name # "null")
    BY <2>3, <2>5 DEF BootTree, modify_initramfs, NoRoom
  <2>7. /\ fdt' \in BootTree /\ Same(fdt') /\ fdt'.cppc = u.cppc /\ fdt'.initrd = u.initrd /\ (fdt'.room => u.room)
        /\ fdt'.room /\ Is44 => fdt'.args = cfg.args
    <3>1. PICK args \in BOOLEAN : args = cfg.args
      BY <1>0 DEF BootConfig
    <3>2. fdt' = NoRoom(u) \/ (Is44 /\ fdt' = [u EXCEPT !.args = args]) \/ (~Is44 /\ fdt' = u)
      BY <2>3, <3>1 DEF modify_bootargs
    <3>3. CASE fdt' = NoRoom(u)
      BY <2>6, <3>3 DEF BootTree, NoRoom
    <3>4. CASE Is44 /\ fdt' = [u EXCEPT !.args = args]
      BY <2>6, <3>1, <3>4 DEF BootTree
    <3> QED
      BY <2>6, <3>2, <3>3, <3>4
  <2> QED
    BY <2>5, <2>6, <2>7
<1> QED
  BY <1>1, <1>2

LEMMA TreeTyped ==
    ASSUME TypeInv, cli_loop \/ TreeSteps \/ fill_info
    PROVE  TypeInv'
<1>0. /\ hw \in BootBoards /\ cfg \in BootConfig /\ fresh \in {"none", "loaded", "stale"}
      /\ applied \in 0 .. Len(FileLines) /\ memory \in [0 .. Cells - 1 -> FileNames \X Nat]
      /\ fdt \in BootTree /\ info \in BOOLEAN
  BY DEF TypeInv, BootTypeOK
<1>1. /\ hw' = hw /\ cfg' = cfg /\ fresh' = fresh /\ applied' = applied /\ key' = key /\ verified' = verified
      /\ woken' = woken /\ jumped' = jumped
  BY DEF TreeSteps, cli_loop, load_dtbs, merge_dtbs, modify_memory, modify_nodes, modify_props, fill_info
<1>2. \E p \in {"dtbs", "merge", "memory", "nodes", "info", "props", "wake"} : pc' = <<p, "">>
  BY DEF TreeSteps, cli_loop, load_dtbs, merge_dtbs, modify_memory, modify_nodes, modify_props, fill_info, InfoFilled, Then
<1>3. pc'[1] \in {"dtbs", "merge", "memory", "nodes", "info", "props", "wake"}
  BY <1>2, Goes
<1>4. /\ cfg.files["dtb"] \in [name : FileNames, addr : Nat, size : Nat]
      /\ cfg.files["dtbo"] \in [name : FileNames, addr : Nat, size : Nat]
  BY <1>0 DEF BootConfig, Images
<1>5. NoTree \in BootTree
  BY NoTreeTyped
<1>6. \A why \in {"overlay", "truncated"} : Lost(why) \in BootTree
  BY <1>0, BootAssumption DEF BootTree, Lost
<1>7. memory' \in [0 .. Cells - 1 -> FileNames \X Nat] /\ fdt' \in BootTree /\ info' \in BOOLEAN
  <2>1. CASE cli_loop \/ fill_info
    BY <1>0, <2>1 DEF cli_loop, fill_info, InfoFilled
  <2>2. CASE load_dtbs
    <3>0. hw.builtin \in Nat /\ hw.pad \in Nat /\ TreeRoom \in Nat /\ "builtin" \in FileNames /\ "fdt" \in FileNames
      BY <1>0, BoardFacts, BootAssumption
    <3>1. PICK n, over, b :
             /\ n = IF Base.name = "null" THEN hw.builtin ELSE Base.size
             /\ over = IF Skipped(Over) THEN 0 ELSE Over.size
             /\ b = IF Base.name = "null" THEN "builtin" ELSE Base.name
             /\ memory' = Put("fdt", Base.addr, n + over + TreeRoom) \/ memory' = memory
             /\ fdt' = [NoTree EXCEPT !.base = b, !.used = n - hw.pad] \/ fdt' = [NoTree EXCEPT !.bad = "no_tree"]
      BY <2>2, Zenon DEF load_dtbs
    <3>4. n \in Nat /\ over \in Nat /\ b \in FileNames /\ Base.addr \in Nat
      BY <1>4, <3>0, <3>1 DEF Base, Over
    <3>5. n + over + TreeRoom \in Int /\ n - hw.pad \in Int
      BY <3>0, <3>4
    <3>2. memory' \in [0 .. Cells - 1 -> FileNames \X Nat]
      <4>1. PICK m \in Int, a \in Nat : m = n + over + TreeRoom /\ a = Base.addr
        BY <3>4, <3>5
      <4>2. memory' = Put("fdt", a, m) \/ memory' = memory
        BY <3>1, <4>1, Zenon
      <4>3. CASE memory' = Put("fdt", a, m)
        <5>1. "fdt" \in FileNames /\ memory \in [0 .. Cells - 1 -> FileNames \X Nat]
          BY <1>0, <3>0
        <5>2. Put("fdt", a, m) \in [0 .. Cells - 1 -> FileNames \X Nat]
          BY <5>1, PutTyped, Zenon
        <5> QED
          BY <4>3, <5>2, Zenon
      <4> QED
        BY <1>0, <4>2, <4>3
    <3>3. fdt' \in BootTree
      <4>1. CASE fdt' = [NoTree EXCEPT !.bad = "no_tree"]
        BY <1>5, <4>1 DEF BootTree
      <4>2. PICK u \in Int : u = n - hw.pad
        BY <3>5
      <4>3. CASE fdt' = [NoTree EXCEPT !.base = b, !.used = u]
        BY <1>5, <3>4, <4>3 DEF BootTree
      <4> QED
        BY <3>1, <4>1, <4>2, <4>3
    <3> QED
      BY <1>0, <2>2, <3>2, <3>3 DEF load_dtbs
  <2>3. CASE merge_dtbs
    <3>1. fdt' \in BootTree
      <4>1. PICK o \in FileNames : o = Over.name
        BY <1>4 DEF Over
      <4>2. \/ fdt' = fdt \/ fdt' = Lost("overlay") \/ fdt' = [fdt EXCEPT !.over = o, !.used = @ + 1]
            \/ fdt' = [fdt EXCEPT !.bad = IF @ = "none" THEN "no_overlay" ELSE @]
        BY <2>3, <4>1 DEF merge_dtbs
      <4>3. CASE fdt' = [fdt EXCEPT !.over = o, !.used = @ + 1]
        <5>1. PICK u \in Int : u = fdt.used + 1
          BY <1>0 DEF BootTree
        <5>2. fdt' = [fdt EXCEPT !.over = o, !.used = u]
          BY <4>3, <5>1
        <5> QED
          BY <1>0, <5>2 DEF BootTree
      <4>4. CASE fdt' = [fdt EXCEPT !.bad = IF @ = "none" THEN "no_overlay" ELSE @]
        BY <1>0, <4>4 DEF BootTree
      <4> QED
        BY <1>0, <1>6, <4>2, <4>3, <4>4
    <3> QED
      BY <1>0, <2>3, <3>1 DEF merge_dtbs
  <2>4. CASE modify_memory
    BY <1>0, <2>4, MemoryEdit DEF modify_memory
  <2>5. CASE modify_nodes
    BY <1>0, <2>5, NodeEdits DEF modify_nodes
  <2>6. CASE modify_props
    BY <1>0, <1>6, <2>6 DEF modify_props, of_modify_prop
  <2> QED
    BY <2>1, <2>2, <2>3, <2>4, <2>5, <2>6 DEF TreeSteps
<1> QED
  BY <1>0, <1>1, <1>3, <1>7 DEF TypeInv, BootTypeOK, FileLines, Jumped

LEMMA HartsTyped ==
    ASSUME TypeInv, HartSteps
    PROVE  TypeInv'
<1>1. /\ hw' = hw /\ cfg' = cfg /\ fresh' = fresh /\ applied' = applied /\ memory' = memory /\ key' = key
      /\ verified' = verified /\ fdt' = fdt /\ info' = info
  BY DEF HartSteps, wake_up, secondary_core_fun, jump_to
<1>2. pc' = pc \/ pc' = <<"gone", "">>
  BY DEF HartSteps, wake_up, secondary_core_fun, jump_to, Then
<1>3. pc'[1] \in {"init", "config"} => pc' = pc
  <2>1. CASE pc' = pc
    BY <2>1
  <2>2. CASE pc' = <<"gone", "">>
    <3>1. pc'[1] = "gone"
      BY <2>2
    <3> QED
      BY <3>1
  <2> QED
    BY <1>2, <2>1, <2>2
<1>4. 0 \in Harts
  BY BootAssumption
<1>5. woken' \subseteq Harts /\ \A j \in jumped' : j \in jumped \/ j.hart \in Harts
  BY <1>4 DEF HartSteps, wake_up, secondary_core_fun, jump_to, Jump, TypeInv, BootTypeOK
<1>6. Jumped' \subseteq Harts
  BY <1>5 DEF Jumped, TypeInv, BootTypeOK
<1> QED
  BY <1>1, <1>3, <1>5, <1>6 DEF TypeInv, BootTypeOK, FileLines

\* The steps, by what they leave alone.
LEMMA StepKinds ==
    ASSUME BootNext
    PROVE  \/ config_init \/ parse_config_file \/ handler_img \/ config_parsed \/ parse_efi_variable \/ load_images
           \/ invoke_key \/ \E i \in Images : LoadImage(i) \/ VerifyImage(i)
           \/ cli_loop \/ TreeSteps \/ fill_info
           \/ HartSteps
  BY DEF BootNext, PlatStep, TreeSteps, HartSteps

LEMMA TypeInit == BootInit => TypeInv
<1> SUFFICES ASSUME BootInit PROVE TypeInv
  OBVIOUS
<1>1. "null" \in FileNames /\ "" \in FileNames /\ "none" \in FileNames /\ "nothing" \in FileNames
  BY BootAssumption
<1>2. cfg \in BootConfig
  <2>1. PICK files : files = [i \in Images |-> File("null", 0)]
    OBVIOUS
  <2>2. files \in [Images -> [name : FileNames, addr : Nat, size : Nat]]
    BY <1>1, <2>1 DEF File
  <2>3. cfg = [files |-> files, mode |-> "cpu", secure |-> FALSE, dram |-> 0, corner |-> 0,
               reserved |-> 0, op |-> "none", args |-> FALSE, mac |-> FALSE]
    BY <2>1, Zenon DEF BootInit, NoConfig
  <2> QED
    BY <2>2, <2>3 DEF BootConfig
<1>3. memory \in [0 .. Cells - 1 -> FileNames \X Nat]
  BY <1>1 DEF BootInit
<1>4. fdt \in BootTree
  BY NoTreeTyped DEF BootInit
<1>5. FileLines = <<>>
  BY DEF BootInit, FileLines
<1>6. applied \in 0 .. Len(FileLines)
  <2>1. Len(<<>>) = 0 /\ applied = 0
    BY DEF BootInit
  <2> QED
    BY <1>5, <2>1
<1>7. Jumped = {}
  BY DEF BootInit, Jumped
<1> QED
  BY <1>2, <1>3, <1>4, <1>6, <1>7 DEF BootInit, TypeInv, BootTypeOK

LEMMA TypeStep == TypeInv /\ [BootNext]_bootVars => TypeInv'
<1>1. CASE UNCHANGED bootVars
  BY <1>1 DEF bootVars, TypeInv, BootTypeOK, FileLines, Jumped
<1> QED
  BY <1>1, StepKinds, ConfigTyped, ImagesTyped, TreeTyped, HartsTyped

\* Every variable keeps its type: the configuration, the memory, the tree and
\* the sets of harts that were woken and have left (plat_main).
THEOREM BootTypes == BootSpec => []BootTypeOK
<1>1. TypeInv => BootTypeOK
  BY DEF TypeInv
<1> QED
  BY <1>1, TypeInit, TypeStep, PTL DEF BootSpec

-----------------------------------------------------------------------------
(* Where the boot is.                                                      *)

Late == {"cli", "dtbs", "merge", "memory", "nodes", "props", "info", "wake", "gone"}

\* The place of an image in the order of load_images.
Place(i) ==
    CASE i = "sbi" -> IF Is44 THEN 3 ELSE 1
      [] i = "kernel" -> IF Is44 THEN 4 ELSE 2
      [] i = "dtb" -> IF Is44 THEN 1 ELSE 3
      [] i = "dtbo" -> IF Is44 THEN 2 ELSE 4
      [] i = "ramfs" -> 5

\* The turn of the image is over.
Passed(i) ==
    \/ pc[1] \in Late
    \/ pc[1] \in {"load", "verify"} /\ Place(i) < Place(pc[2])

FlowInv ==
    /\ pc[1] \in {"load", "verify"} => pc[2] \in Images
    /\ pc[1] \in {"config", "lines", "efi", "images", "key", "load", "verify"} => ~Hosted
    /\ woken # {} \/ jumped # {} => pc[1] \in {"wake", "gone"}
    /\ pc[1] \in {"wake", "gone"} => info

LEMMA OrderPlaces ==
    /\ \A k \in 1 .. 5 : Order[k] \in Images /\ Place(Order[k]) = k
    /\ \A i \in Images : Place(i) \in 1 .. 5
    /\ \A i, j \in Images : Place(i) = Place(j) => i = j
<1>1. \A i \in Images : Place(i) \in 1 .. 5
  BY DEF Place, Images
<1>2. CASE Is44
  <2>1. /\ Order[1] = "dtb" /\ Order[2] = "dtbo" /\ Order[3] = "sbi" /\ Order[4] = "kernel" /\ Order[5] = "ramfs"
    BY <1>2 DEF Order
  <2>2. \A k \in 1 .. 5 : k = 1 \/ k = 2 \/ k = 3 \/ k = 4 \/ k = 5
    OBVIOUS
  <2> QED
    BY <1>1, <1>2, <2>1, <2>2, ZenonT(60) DEF Images, Place
<1>3. CASE ~Is44
  <2>1. /\ Order[1] = "sbi" /\ Order[2] = "kernel" /\ Order[3] = "dtb" /\ Order[4] = "dtbo" /\ Order[5] = "ramfs"
    BY <1>3 DEF Order
  <2>2. \A k \in 1 .. 5 : k = 1 \/ k = 2 \/ k = 3 \/ k = 4 \/ k = 5
    OBVIOUS
  <2> QED
    BY <1>1, <1>3, <2>1, <2>2, ZenonT(60) DEF Images, Place
<1> QED
  BY <1>2, <1>3

LEMMA NextPlace ==
    ASSUME NEW i \in Images, NextImage(i)
    PROVE  \/ pc' = <<"cli", "">> /\ Place(i) = 5
           \/ \E j \in Images : pc' = <<"load", j>> /\ Place(j) = Place(i) + 1
<1>1. CASE i = Order[5] /\ Then("cli")
  <2>1. Place(i) = 5
    BY <1>1, OrderPlaces
  <2> QED
    BY <1>1, <2>1 DEF Then
<1>2. ASSUME NEW k \in 1 .. 4, i = Order[k], pc' = <<"load", Order[k + 1]>>
      PROVE  \E j \in Images : pc' = <<"load", j>> /\ Place(j) = Place(i) + 1
  <2>1. PICK j : j = Order[k + 1]
    OBVIOUS
  <2>2. j \in Images /\ Place(j) = k + 1 /\ Place(i) = k
    BY <1>2, <2>1, OrderPlaces
  <2> QED
    BY <1>2, <2>1, <2>2
<1> QED
  BY <1>1, <1>2 DEF NextImage

LEMMA FirstPlace ==
    ASSUME FirstImage
    PROVE  \E j \in Images : pc' = <<"load", j>> /\ Place(j) = 1
<1>1. PICK j : j = Order[1]
  OBVIOUS
<1>2. j \in Images /\ Place(j) = 1
  BY <1>1, OrderPlaces
<1> QED
  BY <1>1, <1>2 DEF FirstImage

\* When an image's turn is over, no other image's is.
LEMMA PassedNext ==
    ASSUME NEW i \in Images, pc[1] \in {"load", "verify"}, pc[2] = i, hw' = hw, NextImage(i)
    PROVE  \A j \in Images : Passed(j)' => Passed(j) \/ j = i
<1>0. /\ \A j \in Images : Place(j)' = Place(j)
      /\ \A j \in Images : Place(j) \in 1 .. 5
  BY OrderPlaces DEF Place, Is44, Images
<1>1. CASE pc' = <<"cli", "">> /\ Place(i) = 5
  <2>1. ASSUME NEW j \in Images, j # i
        PROVE  Place(j) < Place(i)
    <3>1. Place(j) \in 1 .. 5 /\ Place(j) # Place(i)
      BY <2>1, OrderPlaces, Zenon
    <3>2. \A p \in 1 .. 5 : p # 5 => p < 5
      OBVIOUS
    <3> QED
      BY <1>1, <3>1, <3>2, Zenon
  <2> QED
    BY <2>1 DEF Passed
<1>2. ASSUME NEW k \in Images, pc' = <<"load", k>>, Place(k) = Place(i) + 1
      PROVE  \A j \in Images : Passed(j)' => Passed(j) \/ j = i
  <2>1. pc'[1] = "load" /\ pc'[2] = k
    BY <1>2
  <2>2. \A j \in Images : Passed(j)' => Place(j) < Place(k)
    BY <1>0, <2>1 DEF Passed, Late
  <2>3. \A j \in Images : Place(j) < Place(k) => Place(j) < Place(i) \/ j = i
    BY <1>0, <1>2, OrderPlaces
  <2> QED
    BY <2>2, <2>3 DEF Passed
<1> QED
  BY <1>1, <1>2, NextPlace

\* The steps of load_images, taken apart.
LEMMA LoadCases ==
    ASSUME NEW i \in Images, LoadImage(i)
    PROVE  /\ pc[1] = "load" /\ pc[2] = i
           /\ hw' = hw /\ fresh' = fresh /\ applied' = applied /\ key' = key /\ verified' = verified /\ fdt' = fdt
           /\ info' = info /\ woken' = woken /\ jumped' = jumped
           /\ \/ Skipped(cfg.files[i]) /\ NextImage(i) /\ memory' = memory /\ cfg' = cfg
              \/ pc' = <<"hung", "">> /\ memory' = memory /\ cfg' = cfg
              \/ /\ ~Skipped(cfg.files[i]) /\ SizeOf(cfg.files[i].name) > 0
                 /\ memory' = Put(cfg.files[i].name, cfg.files[i].addr, SizeOf(cfg.files[i].name))
                 /\ cfg' = [cfg EXCEPT !.files[i].size = SizeOf(cfg.files[i].name)]
                 /\ IF cfg.secure THEN pc' = <<"verify", i>> ELSE NextImage(i)
  BY DEF LoadImage, LoadFailed, Then

LEMMA VerifyCases ==
    ASSUME NEW i \in Images, VerifyImage(i)
    PROVE  /\ pc[1] = "verify" /\ pc[2] = i
           /\ hw' = hw /\ cfg' = cfg /\ fresh' = fresh /\ applied' = applied /\ memory' = memory /\ key' = key /\ fdt' = fdt
           /\ info' = info /\ woken' = woken /\ jumped' = jumped
           /\ \/ NextImage(i) /\ verified' = verified \cup {i}
              \/ pc' = <<"hung", "">> /\ verified' = verified
  BY DEF VerifyImage, GoodSignature, Then

\* The steps before the images, and where they go.
LEMMA ConfigCases ==
    ASSUME FlowInv,
           config_init \/ parse_config_file \/ handler_img \/ config_parsed \/ parse_efi_variable \/ load_images \/ invoke_key
    PROVE  /\ hw' = hw /\ verified' = verified /\ memory' = memory /\ fdt' = fdt
           /\ info' = info /\ woken' = woken /\ jumped' = jumped
           /\ pc[1] \in {"init", "config", "lines", "efi", "images", "key"}
           /\ \/ pc'[1] \in {"config", "lines", "efi", "images", "key", "hung"} /\ ~Hosted
              \/ pc'[1] = "info" /\ Hosted
              \/ ~Hosted /\ \E i \in Images : pc' = <<"load", i>> /\ Place(i) = 1
<1>1. CASE config_init
  <2>1. pc' = <<IF Hosted THEN "info" ELSE "config", "">>
    BY <1>1, Zenon DEF config_init, Then, Hosted
  <2>2. pc[1] = "init"
    BY <1>1 DEF config_init, At
  <2> QED
    BY <1>1, <2>1, <2>2 DEF config_init
<1>2. CASE parse_config_file
  <2>1. pc = <<"config", "">> /\ pc' = <<"lines", "">>
    BY <1>2, Zenon DEF parse_config_file, At, Then
  <2>2. pc[1] = "config" /\ ~Hosted
    BY <2>1, From DEF FlowInv
  <2>3. /\ hw' = hw /\ verified' = verified /\ memory' = memory /\ fdt' = fdt
        /\ info' = info /\ woken' = woken /\ jumped' = jumped
    BY <1>2 DEF parse_config_file
  <2>4. pc'[1] \in {"lines"}
    BY <2>1, GoesTo
  <2> QED
    BY <2>2, <2>3, <2>4
<1>3. CASE handler_img
  <2>1. pc = <<"lines", "">> /\ pc' = pc
    BY <1>3, Zenon DEF handler_img, At, Then
  <2>2. pc[1] = "lines" /\ ~Hosted
    BY <2>1, From DEF FlowInv
  <2>3. /\ hw' = hw /\ verified' = verified /\ memory' = memory /\ fdt' = fdt
        /\ info' = info /\ woken' = woken /\ jumped' = jumped
    BY <1>3 DEF handler_img
  <2>4. pc'[1] = "lines"
    BY <2>1, <2>2
  <2> QED
    BY <2>2, <2>3, <2>4
<1>4. CASE config_parsed
  <2>1. pc = <<"lines", "">> /\ (pc' = <<"efi", "">> \/ pc' = <<"images", "">>)
    BY <1>4, Zenon DEF config_parsed, At, Then
  <2>2. pc[1] = "lines" /\ ~Hosted
    BY <2>1, From DEF FlowInv
  <2>3. /\ hw' = hw /\ verified' = verified /\ memory' = memory /\ fdt' = fdt
        /\ info' = info /\ woken' = woken /\ jumped' = jumped
    BY <1>4 DEF config_parsed
  <2>4. pc'[1] \in {"efi", "images"}
    BY <2>1, GoesTo
  <2> QED
    BY <2>2, <2>3, <2>4
<1>5. CASE parse_efi_variable
  <2>1. pc = <<"efi", "">> /\ pc' = <<"images", "">>
    BY <1>5, Zenon DEF parse_efi_variable, At, Then
  <2>2. pc[1] = "efi" /\ ~Hosted
    BY <2>1, From DEF FlowInv
  <2>3. /\ hw' = hw /\ verified' = verified /\ memory' = memory /\ fdt' = fdt
        /\ info' = info /\ woken' = woken /\ jumped' = jumped
    BY <1>5 DEF parse_efi_variable
  <2>4. pc'[1] \in {"images"}
    BY <2>1, GoesTo
  <2> QED
    BY <2>2, <2>3, <2>4
<1>6. CASE load_images
  <2>1. pc = <<"images", "">> /\ (pc' = <<"key", "">> \/ FirstImage)
    BY <1>6, Zenon DEF load_images, At, Then
  <2>2. pc[1] = "images" /\ ~Hosted
    BY <2>1, From DEF FlowInv
  <2>3. /\ hw' = hw /\ verified' = verified /\ memory' = memory /\ fdt' = fdt
        /\ info' = info /\ woken' = woken /\ jumped' = jumped
    BY <1>6 DEF load_images
  <2>4. pc'[1] = "key" \/ \E i \in Images : pc' = <<"load", i>> /\ Place(i) = 1
    BY <2>1, FirstPlace, GoesTo
  <2> QED
    BY <2>2, <2>3, <2>4
<1>7. CASE invoke_key
  <2>1. pc = <<"key", "">> /\ (pc' = <<"hung", "">> \/ FirstImage)
    BY <1>7, Zenon DEF invoke_key, At, Then
  <2>2. pc[1] = "key" /\ ~Hosted
    BY <2>1, From DEF FlowInv
  <2>3. /\ hw' = hw /\ verified' = verified /\ memory' = memory /\ fdt' = fdt
        /\ info' = info /\ woken' = woken /\ jumped' = jumped
    BY <1>7 DEF invoke_key
  <2>4. pc'[1] = "hung" \/ \E i \in Images : pc' = <<"load", i>> /\ Place(i) = 1
    BY <2>1, FirstPlace, GoesTo
  <2> QED
    BY <2>2, <2>3, <2>4
<1> QED
  BY <1>1, <1>2, <1>3, <1>4, <1>5, <1>6, <1>7

\* The steps between the images and the hand-over.
LEMMA TreeCases ==
    ASSUME cli_loop \/ TreeSteps \/ fill_info
    PROVE  /\ hw' = hw /\ cfg' = cfg /\ fresh' = fresh /\ applied' = applied /\ key' = key /\ verified' = verified
           /\ woken' = woken /\ jumped' = jumped
           /\ pc[1] \in {"cli", "dtbs", "merge", "memory", "nodes", "props", "info"}
           /\ \/ pc'[1] \in {"dtbs", "merge", "memory", "nodes", "props", "info"} /\ info' = info
              \/ pc'[1] = "wake" /\ info'
<1>1. CASE cli_loop \/ TreeSteps
  <2>1. \E p \in {"cli", "dtbs", "merge", "memory", "nodes", "props"} : pc = <<p, "">>
    BY <1>1 DEF TreeSteps, cli_loop, load_dtbs, merge_dtbs, modify_memory, modify_nodes, modify_props, At
  <2>2. \E p \in {"dtbs", "merge", "memory", "nodes", "props", "info"} : pc' = <<p, "">>
    BY <1>1 DEF TreeSteps, cli_loop, load_dtbs, merge_dtbs, modify_memory, modify_nodes, modify_props, Then
  <2>3. pc[1] \in {"cli", "dtbs", "merge", "memory", "nodes", "props"}
    BY <2>1, From
  <2>4. pc'[1] \in {"dtbs", "merge", "memory", "nodes", "props", "info"}
    BY <2>2, Goes
  <2> QED
    BY <1>1, <2>3, <2>4 DEF TreeSteps, cli_loop, load_dtbs, merge_dtbs, modify_memory, modify_nodes, modify_props
<1>2. CASE fill_info
  <2>1. pc = <<"info", "">> /\ pc' = <<"wake", "">>
    BY <1>2 DEF fill_info, InfoFilled, At, Then
  <2> QED
    BY <1>2, <2>1 DEF fill_info, InfoFilled
<1> QED
  BY <1>1, <1>2

\* The steps of the harts.
LEMMA HartCases ==
    ASSUME FlowInv, HartSteps
    PROVE  /\ hw' = hw /\ cfg' = cfg /\ fresh' = fresh /\ applied' = applied /\ memory' = memory /\ key' = key
           /\ verified' = verified /\ fdt' = fdt /\ info' = info
           /\ pc[1] \in {"wake", "gone"} /\ pc'[1] \in {"wake", "gone"}
           /\ jumped' = jumped \/ \E h \in Harts : Jump(h)
<1>1. ASSUME NEW h \in Harts, wake_up(h)
      PROVE  pc = <<"wake", "">> /\ pc' = pc /\ jumped' = jumped
  BY <1>1 DEF wake_up, At
<1>2. ASSUME NEW h \in Harts, secondary_core_fun(h)
      PROVE  pc[1] \in {"wake", "gone"} /\ pc' = pc /\ Jump(h)
  BY <1>2 DEF secondary_core_fun, FlowInv
<1>3. ASSUME jump_to
      PROVE  pc = <<"wake", "">> /\ pc' = <<"gone", "">> /\ Jump(0) /\ 0 \in Harts
  BY <1>3, BootAssumption DEF jump_to, At, Then
<1>4. /\ hw' = hw /\ cfg' = cfg /\ fresh' = fresh /\ applied' = applied /\ memory' = memory /\ key' = key
      /\ verified' = verified /\ fdt' = fdt /\ info' = info
  BY DEF HartSteps, wake_up, secondary_core_fun, jump_to
<1>5. /\ pc[1] \in {"wake", "gone"} /\ pc'[1] \in {"wake", "gone"}
      /\ jumped' = jumped \/ \E h \in Harts : Jump(h)
  <2>1. CASE \E h \in Harts : wake_up(h)
    BY <1>1, <2>1, From
  <2>2. CASE \E h \in Harts : secondary_core_fun(h)
    BY <1>2, <2>2
  <2>3. CASE jump_to
    BY <1>3, <2>3, From, GoesTo
  <2> QED
    BY <2>1, <2>2, <2>3 DEF HartSteps
<1> QED
  BY <1>4, <1>5

\* Where plat_main is goes with what has been done.
LEMMA FlowStep == FlowInv /\ [BootNext]_bootVars => FlowInv'
<1> SUFFICES ASSUME FlowInv, [BootNext]_bootVars PROVE FlowInv'
  OBVIOUS
<1>1. CASE config_init \/ parse_config_file \/ handler_img \/ config_parsed \/ parse_efi_variable \/ load_images \/ invoke_key
  <2>1. /\ hw' = hw /\ info' = info /\ woken' = woken /\ jumped' = jumped /\ woken = {} /\ jumped = {}
    BY <1>1, ConfigCases DEF FlowInv
  <2>2. \/ pc'[1] \in {"config", "lines", "efi", "images", "key", "hung"} /\ ~Hosted
        \/ pc'[1] = "info"
        \/ ~Hosted /\ pc'[1] = "load" /\ pc'[2] \in Images
    BY <1>1, ConfigCases, GoesTo
  <2>3. Hosted' <=> Hosted
    BY <2>1 DEF Hosted, Is44
  <2> QED
    BY <2>1, <2>2, <2>3 DEF FlowInv
<1>2. ASSUME NEW i \in Images, LoadImage(i) \/ VerifyImage(i)
      PROVE  FlowInv'
  <2>1. /\ hw' = hw /\ info' = info /\ woken' = woken /\ jumped' = jumped /\ pc[1] \in {"load", "verify"}
    BY <1>2, LoadCases, VerifyCases
  <2>2. pc' = <<"hung", "">> \/ NextImage(i) \/ pc' = <<"verify", i>>
    BY <1>2, LoadCases, VerifyCases
  <2>3. \/ pc'[1] \in {"hung", "cli"}
        \/ pc'[1] \in {"load", "verify"} /\ pc'[2] \in Images
    BY <2>2, NextPlace, GoesTo
  <2>4. woken = {} /\ jumped = {} /\ ~Hosted
    BY <2>1 DEF FlowInv
  <2>5. ~Hosted'
    BY <2>1, <2>4 DEF Hosted, Is44
  <2> QED
    BY <2>1, <2>3, <2>4, <2>5 DEF FlowInv
<1>3. CASE cli_loop \/ TreeSteps \/ fill_info
  <2>1. /\ hw' = hw /\ woken' = woken /\ jumped' = jumped /\ woken = {} /\ jumped = {}
    BY <1>3, TreeCases DEF FlowInv
  <2>2. \/ pc'[1] \in {"dtbs", "merge", "memory", "nodes", "props", "info"}
        \/ pc'[1] = "wake" /\ info'
    BY <1>3, TreeCases
  <2> QED
    BY <2>1, <2>2 DEF FlowInv
<1>4. CASE HartSteps
  BY <1>4, HartCases DEF FlowInv
<1>5. CASE UNCHANGED bootVars
  BY <1>5 DEF FlowInv, bootVars, Hosted, Is44
<1> QED
  BY <1>1, <1>2, <1>3, <1>4, <1>5, StepKinds

LEMMA FlowInit == BootInit => FlowInv
<1> SUFFICES ASSUME BootInit PROVE FlowInv
  OBVIOUS
<1>1. pc = <<"init", "">> /\ woken = {} /\ jumped = {}
  BY DEF BootInit
<1>2. pc[1] = "init"
  BY <1>1
<1> QED
  BY <1>1, <1>2 DEF FlowInv

\* When the configuration is done, no image has been passed.
ConfigSteps ==
    config_init \/ parse_config_file \/ handler_img \/ config_parsed \/ parse_efi_variable \/ load_images \/ invoke_key

LEMMA NothingYet ==
    ASSUME FlowInv, ConfigSteps
    PROVE  /\ hw' = hw /\ (Hosted' <=> Hosted)
           /\ \/ Hosted /\ pc'[1] = "info"
              \/ /\ pc'[1] \in {"config", "lines", "efi", "images", "key", "hung", "load"}
                 /\ \A i \in Images : ~Passed(i)'
<1>1. hw' = hw /\ (Hosted' <=> Hosted)
  BY ConfigCases DEF ConfigSteps, Hosted, Is44
<1>2. CASE pc'[1] \in {"config", "lines", "efi", "images", "key", "hung"}
  BY <1>1, <1>2 DEF Passed, Late
<1>3. ASSUME NEW j \in Images, pc' = <<"load", j>>, Place(j) = 1
      PROVE  pc'[1] = "load" /\ \A i \in Images : ~Passed(i)'
  <2>1. pc'[1] = "load" /\ pc'[2] = j
    BY <1>3, GoesTo
  <2>2. \A i \in Images : Place(i)' = Place(i) /\ Place(i) \in 1 .. 5
    BY <1>1, OrderPlaces DEF Place, Is44, Images
  <2>3. \A p \in 1 .. 5 : ~(p < 1)
    OBVIOUS
  <2>4. \A i \in Images : ~(Place(i)' < Place(pc[2])')
    BY <1>3, <2>1, <2>2, <2>3, Zenon
  <2> QED
    BY <2>1, <2>4 DEF Passed, Late
<1> QED
  BY <1>1, <1>2, <1>3, ConfigCases DEF ConfigSteps

-----------------------------------------------------------------------------
(* Harts leave together.                                                   *)

LEMMA TogetherStep == FlowInv /\ HartsTogether /\ [BootNext]_bootVars => HartsTogether'
<1> SUFFICES ASSUME FlowInv, HartsTogether, [BootNext]_bootVars PROVE HartsTogether'
  OBVIOUS
<1>1. CASE jumped = {} /\ jumped' = {}
  BY <1>1 DEF HartsTogether
<1>2. CASE HartSteps
  <2>1. info /\ info' = info /\ cfg' = cfg /\ fdt' = fdt /\ (jumped' = jumped \/ \E h \in Harts : Jump(h))
    BY <1>2, HartCases DEF FlowInv
  <2>2. \A j \in jumped' : j \in jumped \/ /\ j.info = info /\ j.fdt = fdt
                                           /\ j.to = cfg.files["sbi"].addr /\ j.dtb = cfg.files["dtb"].addr
    <3>1. ASSUME NEW h, NEW j,
                 j = [hart |-> h, to |-> cfg.files["sbi"].addr, dtb |-> cfg.files["dtb"].addr, info |-> info, fdt |-> fdt]
          PROVE  j.info = info /\ j.fdt = fdt /\ j.to = cfg.files["sbi"].addr /\ j.dtb = cfg.files["dtb"].addr
      BY <3>1
    <3>2. ASSUME NEW j \in jumped', j \notin jumped
          PROVE  \E h \in Harts : j = [hart |-> h, to |-> cfg.files["sbi"].addr, dtb |-> cfg.files["dtb"].addr,
                                      info |-> info, fdt |-> fdt]
      BY <2>1, <3>2, Zenon DEF Jump, Base
    <3> QED
      BY <3>1, <3>2
  <2> QED
    BY <2>1, <2>2 DEF HartsTogether, Base
<1>3. CASE UNCHANGED bootVars
  BY <1>3 DEF HartsTogether, Base, bootVars
<1>4. CASE ~HartSteps /\ ~UNCHANGED bootVars
  <2>1. jumped' = jumped
    BY <1>4, StepKinds, ConfigCases, LoadCases, VerifyCases, TreeCases
  <2>2. pc[1] \notin {"wake", "gone"}
    <3>1. CASE config_init \/ parse_config_file \/ handler_img \/ config_parsed \/ parse_efi_variable \/ load_images \/ invoke_key
      BY <3>1, ConfigCases
    <3>2. CASE \E i \in Images : LoadImage(i) \/ VerifyImage(i)
      BY <3>2, LoadCases, VerifyCases
    <3>3. CASE cli_loop \/ TreeSteps \/ fill_info
      BY <3>3, TreeCases
    <3> QED
      BY <1>4, <3>1, <3>2, <3>3, StepKinds
  <2> QED
    BY <1>1, <2>1, <2>2 DEF FlowInv
<1> QED
  BY <1>2, <1>3, <1>4

\* Harts leave for the same firmware with the same, final tree, in whatever
\* order they wake (secondary_core_fun, jump_to).
THEOREM AllLeaveTogether == BootSpec => []HartsTogether
<1> DEFINE Inv == FlowInv /\ HartsTogether
<1>1. BootInit => Inv
  BY FlowInit DEF BootInit, HartsTogether
<1>2. Inv /\ [BootNext]_bootVars => Inv'
  BY FlowStep, TogetherStep
<1> QED
  BY <1>1, <1>2, PTL DEF BootSpec

-----------------------------------------------------------------------------
(* In secure mode nothing leaves unverified.                               *)

SecureInv ==
    cfg.secure /\ ~Hosted =>
      /\ pc[1] \in {"load", "verify"} \cup Late => key
      /\ \A i \in Images : Passed(i) /\ ~Skipped(cfg.files[i]) => i \in verified

LEMMA SecureInit == BootInit => SecureInv
<1> SUFFICES ASSUME BootInit PROVE SecureInv
  OBVIOUS
<1>1. pc = <<"init", "">>
  BY DEF BootInit
<1>2. pc[1] = "init"
  BY <1>1
<1> QED
  BY <1>2 DEF SecureInv, Passed, Late

LEMMA SecureStep == TypeInv /\ FlowInv /\ SecureInv /\ [BootNext]_bootVars => SecureInv'
<1> SUFFICES ASSUME TypeInv, FlowInv, SecureInv, [BootNext]_bootVars PROVE SecureInv'
  OBVIOUS
<1>0. cfg \in BootConfig /\ \A n : SizeOf(n) \in Nat
  BY BoardFacts DEF TypeInv, BootTypeOK
<1>1. CASE config_init \/ parse_config_file \/ handler_img \/ config_parsed \/ parse_efi_variable \/ load_images \/ invoke_key
  <2>1. CASE ~Hosted /\ pc'[1] \in {"config", "lines", "efi", "images", "key", "hung"}
    BY <2>1 DEF SecureInv, Passed, Late
  <2>2. CASE Hosted
    <3>1. Hosted'
      BY <1>1, <2>2, ConfigCases DEF Hosted, Is44
    <3> QED
      BY <3>1 DEF SecureInv
  <2>3. ASSUME NEW j \in Images, pc' = <<"load", j>>, Place(j) = 1, ~Hosted, cfg.secure'
        PROVE  SecureInv'
    <3>1. pc'[1] = "load" /\ pc'[2] = j
      BY <2>3, GoesTo
    <3>2. pc'[1] # "info"
      BY <3>1
    <3>3. \A i \in Images : ~Passed(i)'
      BY <1>1, <3>2, NothingYet, Zenon DEF ConfigSteps
    <3>4. key'
      <4>1. CASE load_images
        <5>1. ~cfg.secure
          BY <1>0, <2>3, <4>1, <3>1, GoesTo DEF load_images, Then
        <5>2. cfg'.secure = cfg.secure
          BY <1>0, <4>1 DEF load_images, BootConfig
        <5> QED
          BY <2>3, <5>1, <5>2
      <4>2. CASE invoke_key
        <5>1. key' = TRUE \/ pc' = <<"hung", "">>
          BY <4>2, Zenon DEF invoke_key, Then
        <5>2. CASE pc' = <<"hung", "">>
          <6>1. pc'[1] = "hung"
            BY <5>2
          <6> QED
            BY <3>1, <6>1
        <5> QED
          BY <5>1, <5>2
      <4>3. CASE config_init \/ parse_config_file \/ handler_img \/ config_parsed \/ parse_efi_variable
        <5>1. \/ \E p \in {"info", "config", "lines", "efi", "images"} : pc' = <<p, "">>
              \/ pc = <<"lines", "">> /\ pc' = pc
          BY <4>3, Zenon DEF config_init, parse_config_file, handler_img, config_parsed, parse_efi_variable, At, Then
        <5>2. pc'[1] \in {"info", "config", "lines", "efi", "images"}
          BY <5>1, GoesTo
        <5> QED
          BY <3>1, <5>2
      <4> QED
        BY <1>1, <4>1, <4>2, <4>3
    <3> QED
      BY <3>3, <3>4 DEF SecureInv
  <2> QED
    BY <1>1, <2>1, <2>2, <2>3, ConfigCases DEF SecureInv
<1>2. ASSUME NEW i \in Images, LoadImage(i)
      PROVE  SecureInv'
  <2>1. hw' = hw /\ key' = key /\ verified' = verified /\ pc[1] = "load" /\ pc[2] = i
    BY <1>2, LoadCases
  <2>2. Hosted' <=> Hosted
    BY <2>1 DEF Hosted, Is44
  <2>3. /\ cfg'.secure = cfg.secure
        /\ \A j \in Images : Skipped(cfg.files[j])' <=> Skipped(cfg.files[j])
    <3>1. PICK n \in Nat : n = SizeOf(cfg.files[i].name)
      BY <1>0
    <3>2. cfg' = cfg \/ cfg' = [cfg EXCEPT !.files[i].size = n]
      BY <1>2, <3>1, LoadCases
    <3>3. /\ cfg'.secure = cfg.secure
          /\ \A j \in Images : cfg'.files[j].name = cfg.files[j].name /\ cfg'.files[j].addr = cfg.files[j].addr
      BY <1>0, <3>2, FileSized
    <3> QED
      BY <2>1, <3>3 DEF Skipped, Is44
  <2>4. CASE pc' = <<"hung", "">>
    BY <2>4, GoesTo DEF SecureInv, Passed, Late
  <2>5. CASE Skipped(cfg.files[i]) /\ NextImage(i)
    BY <2>1, <2>2, <2>3, <2>5, PassedNext DEF SecureInv
  <2>6. CASE ~cfg.secure
    BY <2>3, <2>6 DEF SecureInv
  <2>7. CASE pc' = <<"verify", i>>
    <3>1. pc'[1] = "verify" /\ pc'[2] = i
      BY <2>7, GoesTo
    <3>2. \A j \in Images : Place(j)' = Place(j)
      BY <2>1 DEF Place, Is44
    <3>3. \A j \in Images : Passed(j)' => Passed(j)
      BY <2>1, <3>1, <3>2 DEF Passed, Late
    <3> QED
      BY <2>1, <2>2, <2>3, <3>3 DEF SecureInv
  <2> QED
    BY <1>2, <2>4, <2>5, <2>6, <2>7, LoadCases
<1>3. ASSUME NEW i \in Images, VerifyImage(i)
      PROVE  SecureInv'
  <2>1. hw' = hw /\ cfg' = cfg /\ key' = key /\ pc[1] = "verify" /\ pc[2] = i
    BY <1>3, VerifyCases
  <2>2. (Hosted' <=> Hosted) /\ \A j \in Images : Skipped(cfg.files[j])' <=> Skipped(cfg.files[j])
    BY <2>1 DEF Hosted, Is44, Skipped
  <2>3. CASE pc' = <<"hung", "">>
    BY <2>3, GoesTo DEF SecureInv, Passed, Late
  <2>4. CASE NextImage(i) /\ verified' = verified \cup {i}
    BY <2>1, <2>2, <2>4, PassedNext DEF SecureInv
  <2> QED
    BY <1>3, <2>3, <2>4, VerifyCases
<1>4. CASE cli_loop \/ TreeSteps \/ fill_info \/ HartSteps
  <2>1. /\ hw' = hw /\ cfg' = cfg /\ key' = key /\ verified' = verified /\ pc[1] \in Late
    BY <1>4, TreeCases, HartCases DEF Late
  <2>2. (Hosted' <=> Hosted) /\ \A j \in Images : Skipped(cfg.files[j])' <=> Skipped(cfg.files[j])
    BY <2>1 DEF Hosted, Is44, Skipped
  <2> QED
    BY <2>1, <2>2 DEF SecureInv, Passed
<1>5. CASE UNCHANGED bootVars
  BY <1>5 DEF bootVars, SecureInv, Hosted, Is44, Passed, Skipped, Place
<1> QED
  BY <1>1, <1>2, <1>3, <1>4, <1>5, StepKinds
\* In secure mode no hart leaves unless the public key and the signature of
\* every image that was loaded were good (load_images, verify_image).
THEOREM NothingUnverified == BootSpec => []SecureMeansVerified
<1> DEFINE Inv == TypeInv /\ FlowInv /\ SecureInv
<1>1. BootInit => Inv
  BY TypeInit, FlowInit, SecureInit
<1>2. Inv /\ [BootNext]_bootVars => Inv'
  BY TypeStep, FlowStep, SecureStep
<1>3. Inv => SecureMeansVerified
  BY DEF SecureMeansVerified, Booting, Loaded, FlowInv, SecureInv, Passed, Late
<1> QED
  BY <1>1, <1>2, <1>3, PTL DEF BootSpec

-----------------------------------------------------------------------------
(* What is loaded stays.                                                   *)

Early == {"init", "config", "lines", "efi", "images", "key"}

\* The image has been read.
Read(i) == Passed(i) \/ (pc[1] = "verify" /\ pc[2] = i)

\* Every cell of the image that is in memory holds what was read, or belongs
\* to something else as well.
Kept(i) ==
    \A c \in 0 .. cfg.files[i].size - 1 :
       cfg.files[i].addr + c < Cells =>
          \/ memory[cfg.files[i].addr + c] = <<cfg.files[i].name, c>>
          \/ \E j \in (Loaded \cup {"dtb"}) \ {i} : cfg.files[i].addr + c \in Extent(j)

KeptInv ==
    /\ pc[1] \in Early => \A i \in Images : cfg.files[i].size = 0
    /\ ~Hosted /\ pc[1] # "hung" => \A i \in Images : cfg.files[i].size \in {0, SizeOf(cfg.files[i].name)}
    /\ ~Hosted => \A i \in Images : Read(i) /\ ~Skipped(cfg.files[i]) =>
         /\ cfg.files[i].size = SizeOf(cfg.files[i].name) /\ SizeOf(cfg.files[i].name) > 0
         /\ i \notin {"dtb", "dtbo"} => Kept(i)

\* An image that gets a size takes no less than it did.
LEMMA ExtentsGrow ==
    ASSUME cfg \in BootConfig, cfg' \in BootConfig, hw.builtin \in Nat, hw' = hw,
           NEW i \in Images, cfg.files[i].size <= cfg'.files[i].size,
           \A j \in Images \ {i} : cfg'.files[j] = cfg.files[j],
           cfg'.files[i].name = cfg.files[i].name, cfg'.files[i].addr = cfg.files[i].addr
    PROVE  /\ Loaded' = Loaded
           /\ \A j \in Images : Extent(j) \subseteq Extent(j)'
<1>1. Loaded' = Loaded
  BY DEF Loaded, Skipped, Is44
<1>2. ASSUME NEW j \in Images \ {"dtb"}
      PROVE  Extent(j) \subseteq Extent(j)'
  <2>1. PICK a \in Nat, n \in Nat, m \in Nat : a = cfg.files[j].addr /\ n = cfg.files[j].size /\ m = cfg'.files[j].size
    BY DEF BootConfig
  <2>2. n <= m /\ cfg'.files[j].addr = a
    BY <2>1
  <2>3. Extent(j) = a .. a + n - 1 /\ Extent(j)' = a .. a + m - 1
    BY <2>1, <2>2, <1>2, Zenon DEF Extent
  <2> QED
    BY <2>2, <2>3
<1>3. Extent("dtb") \subseteq Extent("dtb")'
  <2>1. PICK a \in Nat, z \in Nat, zz \in Nat, o \in Nat, oo \in Nat, r \in Nat, b \in Nat :
          /\ a = cfg.files["dtb"].addr /\ z = cfg.files["dtb"].size /\ zz = cfg'.files["dtb"].size
          /\ o = cfg.files["dtbo"].size /\ oo = cfg'.files["dtbo"].size /\ r = TreeRoom /\ b = hw.builtin
    BY BootAssumption DEF BootConfig, Images
  <2>2. z <= zz /\ o <= oo /\ cfg'.files["dtb"].addr = a /\ cfg'.files["dtb"].name = cfg.files["dtb"].name
    BY <2>1 DEF Images
  <2>3. PICK m \in Nat, mm \in Nat :
          /\ m = (IF cfg.files["dtb"].name = "null" THEN b ELSE z)
          /\ mm = (IF cfg.files["dtb"].name = "null" THEN b ELSE zz)
    OBVIOUS
  <2>4. m <= mm
    BY <2>2, <2>3
  <2>5. Extent("dtb") = a .. a + (m + o + r) - 1 /\ Extent("dtb")' = a .. a + (mm + oo + r) - 1
    BY <2>1, <2>2, <2>3, Zenon DEF Extent
  <2> QED
    BY <2>2, <2>4, <2>5
<1> QED
  BY <1>1, <1>2, <1>3
\* No step of the configuration reads an image.
LEMMA EarlySizes ==
    ASSUME TypeInv, ConfigSteps, \A i \in Images : cfg.files[i].size = 0
    PROVE  \A i \in Images : cfg'.files[i].size = 0
<1>0. cfg \in BootConfig /\ FileLines \in ConfLines
  BY LinesTyped DEF TypeInv, BootTypeOK
<1>1. CASE config_init
  <2>1. PICK f : f = DefaultFiles
    OBVIOUS
  <2>2. \A i \in Images : f[i].size = 0
    BY <2>1 DEF DefaultFiles, File, Images
  <2>3. f \in [Images -> [name : FileNames, addr : Nat, size : Nat]]
    BY <2>1, BootAssumption DEF DefaultFiles, File, Images
  <2>4. cfg'.files = f \/ cfg'.files = [f EXCEPT !["dtb"].name = "board.dtb"]
    BY <1>1, <2>1 DEF config_init, build_board_info
  <2> QED
    BY <2>2, <2>3, <2>4 DEF Images
<1>2. CASE handler_img
  <2>1. applied + 1 \in 1 .. Len(FileLines) /\ cfg' = Apply(cfg, FileLines[applied + 1])
    BY <1>0, <1>2 DEF handler_img, ConfLines, TypeInv, BootTypeOK
  <2> QED
    BY <1>0, <2>1, ApplyTyped
<1>3. CASE parse_efi_variable
  BY <1>0, <1>3 DEF parse_efi_variable, BootConfig
<1>4. CASE load_images
  <2>1. cfg'.files = TreesOf(cfg.files)
    BY <1>0, <1>4 DEF load_images, BootConfig
  <2>2. PICK f, v, w : f = cfg.files /\ v = f["dtb"].name /\ w = "null"
    OBVIOUS
  <2>3. \/ cfg'.files = f \/ cfg'.files = [f EXCEPT !["dtbo"].name = w]
        \/ cfg'.files = [f EXCEPT !["dtbo"].name = v, !["dtb"].name = w]
    BY <2>1, <2>2, Zenon DEF TreesOf
  <2>4. f \in [Images -> [name : FileNames, addr : Nat, size : Nat]] /\ \A i \in Images : f[i].size = 0
    BY <1>0, <2>2 DEF BootConfig
  <2>5. PICK g : g = [f EXCEPT !["dtbo"].name = v]
    OBVIOUS
  <2>6. \A i \in Images : g[i].size = 0
    BY <2>4, <2>5 DEF Images
  <2>7. DOMAIN g = Images
    BY <2>4, <2>5
  <2>8. CASE cfg'.files = [g EXCEPT !["dtb"].name = w]
    BY <2>6, <2>7, <2>8 DEF Images
  <2>9. [f EXCEPT !["dtbo"].name = v, !["dtb"].name = w] = [g EXCEPT !["dtb"].name = w]
    BY <2>4, <2>5 DEF Images
  <2>10. CASE cfg'.files = [f EXCEPT !["dtbo"].name = w]
    BY <2>4, <2>10 DEF Images
  <2> QED
    BY <2>3, <2>4, <2>8, <2>9, <2>10
<1>5. CASE parse_config_file \/ config_parsed \/ invoke_key
  BY <1>5 DEF parse_config_file, config_parsed, invoke_key
<1> QED
  BY <1>1, <1>2, <1>3, <1>4, <1>5 DEF ConfigSteps

LEMMA InMemory == \A s, b, c \in Int : 0 <= b /\ c \in 0 .. s - 1 /\ b + c < Cells => b + c \in 0 .. Cells - 1
<1>1. Cells \in Nat
  BY BootAssumption, Zenon
<1> QED
  BY <1>1

\* An image that is put into memory leaves of the others what is not its own.
LEMMA PutKeeps ==
    ASSUME TypeInv, cfg' \in BootConfig, hw' = hw,
           NEW k \in Images, Kept(k), NEW i \in Loaded \cup {"dtb"}, i # k, i \in Images,
           NEW f \in FileNames, NEW a \in Nat, NEW n \in Int, memory' = Put(f, a, n) \/ memory' = memory,
           a .. a + n - 1 \subseteq Extent(i)',
           Loaded' = Loaded, \A j \in Images : Extent(j) \subseteq Extent(j)',
           cfg'.files[k] = cfg.files[k]
    PROVE  Kept(k)'
<1>1. PICK s \in Nat, b \in Nat, g \in FileNames : s = cfg.files[k].size /\ b = cfg.files[k].addr /\ g = cfg.files[k].name
  BY DEF TypeInv, BootTypeOK, BootConfig
<1>2. memory \in [0 .. Cells - 1 -> FileNames \X Nat] /\ Cells \in Nat
  BY BootAssumption DEF TypeInv, BootTypeOK
<1>3. \A x \in 0 .. Cells - 1 : memory'[x] = memory[x] \/ x \in a .. a + n - 1
  <2>1. \A x \in 0 .. Cells - 1 : Put(f, a, n)[x] = IF x \in a .. a + n - 1 THEN <<f, x - a>> ELSE memory[x]
    BY <1>2, PutTyped, Zenon
  <2>2. CASE memory' = Put(f, a, n)
    BY <2>1, <2>2, Zenon
  <2> QED
    BY <2>2, Zenon
<1> SUFFICES ASSUME NEW c \in 0 .. s - 1, b + c < Cells
             PROVE  memory'[b + c] = <<g, c>> \/ \E j \in (Loaded \cup {"dtb"}) \ {k} : b + c \in Extent(j)'
  BY <1>1, Zenon DEF Kept
<1>4. b + c \in 0 .. Cells - 1
  BY <1>1, InMemory
<1>5. CASE b + c \in a .. a + n - 1
  BY <1>5
<1>6. CASE memory'[b + c] = memory[b + c]
  <2>1. memory[b + c] = <<g, c>> \/ \E j \in (Loaded \cup {"dtb"}) \ {k} : b + c \in Extent(j)
    BY <1>1, Zenon DEF Kept
  <2>2. Loaded \cup {"dtb"} \subseteq Images
    BY DEF Loaded, Images
  <2> QED
    BY <1>6, <2>1, <2>2, Zenon
<1> QED
  BY <1>3, <1>4, <1>5, <1>6

\* The image itself is there when it has been put.
LEMMA PutThere ==
    ASSUME TypeInv, NEW i \in Images, NEW n \in Nat,
           memory' = Put(cfg.files[i].name, cfg.files[i].addr, n),
           cfg'.files[i].name = cfg.files[i].name, cfg'.files[i].addr = cfg.files[i].addr, cfg'.files[i].size = n
    PROVE  Kept(i)'
<1>1. PICK b \in Nat, g \in FileNames : b = cfg.files[i].addr /\ g = cfg.files[i].name
  BY DEF TypeInv, BootTypeOK, BootConfig
<1>2. memory \in [0 .. Cells - 1 -> FileNames \X Nat] /\ Cells \in Nat
  BY BootAssumption DEF TypeInv, BootTypeOK
<1>3. \A x \in 0 .. Cells - 1 : x \in b .. b + n - 1 => memory'[x] = <<g, x - b>>
  <2>1. \A x \in 0 .. Cells - 1 : Put(g, b, n)[x] = IF x \in b .. b + n - 1 THEN <<g, x - b>> ELSE memory[x]
    BY Zenon DEF Put
  <2> QED
    BY <1>1, <2>1, Zenon
<1>4. \A c \in 0 .. n - 1 : b + c < Cells => memory'[b + c] = <<g, c>>
  <2> SUFFICES ASSUME NEW c \in 0 .. n - 1, b + c < Cells PROVE memory'[b + c] = <<g, c>>
    OBVIOUS
  <2>1. PICK x \in 0 .. Cells - 1 : x = b + c
    BY <1>2
  <2>2. x \in b .. b + n - 1 /\ x - b = c
    BY <2>1
  <2> QED
    BY <1>3, <2>1, <2>2
<1> QED
  BY <1>1, <1>4 DEF Kept

LEMMA KeptSame ==
    ASSUME hw' = hw, cfg' = cfg, memory' = memory
    PROVE  /\ (Hosted' <=> Hosted) /\ \A n : SizeOf(n)' = SizeOf(n)
           /\ \A j \in Images : (Kept(j)' <=> Kept(j)) /\ (Skipped(cfg.files[j])' <=> Skipped(cfg.files[j]))
<1>1. Loaded' = Loaded
  BY DEF Loaded, Skipped, Is44
<1>2. \A j : Extent(j)' = Extent(j)
  BY Zenon DEF Extent
<1>3. \A j \in Images : Kept(j)' <=> Kept(j)
  BY <1>1, <1>2 DEF Kept
<1> QED
  BY <1>3 DEF Hosted, SizeOf, Skipped, Is44

LEMMA KeptStep == TypeInv /\ FlowInv /\ KeptInv /\ [BootNext]_bootVars => KeptInv'
<1> SUFFICES ASSUME TypeInv, FlowInv, KeptInv, [BootNext]_bootVars PROVE KeptInv'
  OBVIOUS
<1>0. cfg \in BootConfig /\ cfg' \in BootConfig /\ hw.builtin \in Nat /\ \A n : SizeOf(n) \in Nat
  BY BoardFacts, TypeStep DEF TypeInv, BootTypeOK
<1>1. CASE ConfigSteps
  <2>1. \A i \in Images : cfg'.files[i].size = 0
    BY <1>1, EarlySizes, ConfigCases DEF ConfigSteps, KeptInv, Early
  <2>2. CASE Hosted'
    <3>1. pc'[1] \notin Early
      BY <1>1, <2>2, NothingYet, ConfigCases DEF ConfigSteps, Early
    <3> QED
      BY <2>2, <3>1 DEF KeptInv
  <2>3. CASE ~Hosted'
    <3>1. pc'[1] # "verify" /\ \A i \in Images : ~Passed(i)'
      BY <1>1, <2>3, NothingYet
    <3> QED
      BY <2>1, <3>1 DEF KeptInv, Read
  <2> QED
    BY <2>2, <2>3
<1>2. ASSUME NEW i \in Images, LoadImage(i)
      PROVE  KeptInv'
  <2>1. hw' = hw /\ pc[1] = "load" /\ pc[2] = i /\ ~Hosted
    BY <1>2, LoadCases DEF FlowInv
  <2>2. (Hosted' <=> Hosted) /\ \A n : SizeOf(n)' = SizeOf(n)
    BY <2>1 DEF Hosted, Is44, SizeOf
  <2>3. CASE pc' = <<"hung", "">>
    BY <2>3, GoesTo DEF KeptInv, Read, Passed, Late, Early
  <2>4. CASE Skipped(cfg.files[i]) /\ NextImage(i) /\ memory' = memory /\ cfg' = cfg
    <3>1. pc'[1] \in {"load", "cli"}
      BY <2>4, AfterImage, GoesTo
    <3>2. \A j \in Images : Read(j)' => Read(j) \/ j = i
      BY <2>1, <2>4, <3>1, PassedNext DEF Read
    <3>3. \A j \in Images : Kept(j) => Kept(j)'
      BY <2>1, <2>4, KeptSame
    <3>4. \A j \in Images : Skipped(cfg.files[j])' <=> Skipped(cfg.files[j])
      BY <2>1, <2>4 DEF Skipped, Is44
    <3> QED
      BY <2>1, <2>2, <2>4, <3>1, <3>2, <3>3, <3>4 DEF KeptInv, Early
  <2>5. ASSUME ~Skipped(cfg.files[i]), NEW n \in Nat, n = SizeOf(cfg.files[i].name), n > 0,
               memory' = Put(cfg.files[i].name, cfg.files[i].addr, n),
               cfg' = [cfg EXCEPT !.files[i].size = n],
               IF cfg.secure THEN pc' = <<"verify", i>> ELSE NextImage(i)
        PROVE  KeptInv'
    <3>1. /\ \A j \in Images \ {i} : cfg'.files[j] = cfg.files[j]
          /\ cfg'.files[i].name = cfg.files[i].name /\ cfg'.files[i].addr = cfg.files[i].addr /\ cfg'.files[i].size = n
      <4>1. PICK v \in Nat : v = n
        BY <2>5
      <4>2. cfg' = [cfg EXCEPT !.files[i].size = v]
        BY <2>5, <4>1
      <4> QED
        BY <1>0, <4>1, <4>2, FileSized, SMTT(30)
    <3>2. pc'[1] \in {"load", "cli", "verify"} /\ \A j \in Images : Read(j)' => Read(j) \/ j = i
      <4>1. CASE pc' = <<"verify", i>>
        <5>1. pc'[1] = "verify" /\ pc'[2] = i
          BY <4>1, GoesTo
        <5>2. \A j \in Images : Passed(j)' => Passed(j)
          BY <2>1, <5>1 DEF Passed, Late, Place, Is44
        <5> QED
          BY <5>1, <5>2 DEF Read
      <4>2. CASE NextImage(i)
        <5>1. pc'[1] \in {"load", "cli"}
          BY <4>2, AfterImage, GoesTo
        <5> QED
          BY <2>1, <4>2, <5>1, PassedNext DEF Read
      <4> QED
        BY <2>5, <4>1, <4>2
    <3>3. cfg.files[i].size <= cfg'.files[i].size
      BY <2>1, <2>5, <3>1 DEF KeptInv
    <3>4. Loaded' = Loaded /\ \A j \in Images : Extent(j) \subseteq Extent(j)'
      BY <1>0, <2>1, <3>1, <3>3, ExtentsGrow
    <3>5. \A j \in Images : Skipped(cfg.files[j])' <=> Skipped(cfg.files[j])
      BY <2>1, <3>1 DEF Skipped, Is44
    <3>6. ASSUME NEW k \in Images, k # i, Kept(k)
          PROVE  Kept(k)'
      <4>1. PICK f \in FileNames, a \in Nat : f = cfg.files[i].name /\ a = cfg.files[i].addr
        BY <1>0 DEF BootConfig
      <4>2. a .. a + n - 1 \subseteq Extent(i)'
        <5>1. CASE i # "dtb"
          BY <3>1, <4>1, <5>1, Zenon DEF Extent
        <5>2. CASE i = "dtb"
          <6>1. cfg'.files[i].name # "null"
            BY <2>5, <3>1 DEF Skipped
          <6>2. PICK o \in Nat, r \in Nat : o = cfg'.files["dtbo"].size /\ r = TreeRoom
            BY <1>0, BootAssumption DEF BootConfig, Images
          <6>3. Extent(i)' = a .. a + (n + o + r) - 1
            BY <3>1, <4>1, <5>2, <6>1, <6>2, Zenon DEF Extent
          <6> QED
            BY <6>3
        <5> QED
          BY <5>1, <5>2
      <4> QED
        BY <1>0, <2>1, <2>5, <3>1, <3>4, <3>6, <4>1, <4>2, PutKeeps DEF Loaded
    <3>7. Kept(i)'
      BY <2>5, <3>1, PutThere
    <3>8. \A j \in Images : j = i \/ cfg'.files[j].size \in {0, SizeOf(cfg'.files[j].name)}
      BY <2>1, <3>1 DEF KeptInv
    <3>9. cfg'.files[i].size = SizeOf(cfg'.files[i].name) /\ n > 0
      BY <2>5, <3>1
    <3>10. \A j \in Images : (SizeOf(cfg.files[j].name) = SizeOf(cfg'.files[j].name)) /\ (Read(j)' => Read(j) \/ j = i)
      BY <3>1, <3>2
    <3>11. pc'[1] \notin Early
      BY <3>2 DEF Early
    <3>12. ASSUME NEW j \in Images, Read(j)', ~Skipped(cfg.files[j])'
           PROVE  /\ cfg'.files[j].size = SizeOf(cfg'.files[j].name) /\ SizeOf(cfg'.files[j].name) > 0
                  /\ j \notin {"dtb", "dtbo"} => Kept(j)'
      <4>1. CASE j = i
        BY <2>5, <3>7, <3>9, <4>1
      <4>2. CASE j # i
        BY <2>1, <3>1, <3>5, <3>6, <3>10, <3>12, <4>2 DEF KeptInv
      <4> QED
        BY <4>1, <4>2
    <3> QED
      BY <2>2, <3>8, <3>9, <3>11, <3>12 DEF KeptInv
  <2> QED
    BY <1>0, <1>2, <2>3, <2>4, <2>5, LoadCases
<1>3. ASSUME NEW i \in Images, VerifyImage(i)
      PROVE  KeptInv'
  <2>1. hw' = hw /\ cfg' = cfg /\ memory' = memory /\ pc[1] = "verify" /\ pc[2] = i
    BY <1>3, VerifyCases
  <2>2. pc'[1] \in {"hung", "load", "cli"} /\ \A j \in Images : Read(j)' => Read(j)
    <3>1. CASE pc' = <<"hung", "">>
      BY <3>1, GoesTo DEF Read, Passed, Late
    <3>2. CASE NextImage(i)
      <4>1. pc'[1] \in {"load", "cli"}
        BY <3>2, AfterImage, GoesTo
      <4> QED
        BY <2>1, <3>2, <4>1, PassedNext DEF Read
    <3> QED
      BY <1>3, <3>1, <3>2, VerifyCases
  <2> QED
    BY <2>1, <2>2, KeptSame DEF KeptInv, Early
<1>4. CASE cli_loop \/ TreeSteps \/ fill_info \/ HartSteps
  <2>1. hw' = hw /\ cfg' = cfg /\ pc[1] \in Late /\ pc'[1] \in Late
    BY <1>4, TreeCases, HartCases DEF Late
  <2>2. \A j \in Images : Read(j)
    BY <2>1 DEF Read, Passed
  <2>3. CASE memory' = memory
    BY <2>1, <2>2, <2>3, KeptSame DEF KeptInv, Early, Late
  <2>4. CASE load_dtbs /\ memory' # memory
    <3>1. PICK n \in Nat, o \in Nat, a \in Nat, r \in Nat :
             /\ n = IF Base.name = "null" THEN hw.builtin ELSE Base.size
             /\ o = IF Skipped(Over) THEN 0 ELSE Over.size
             /\ a = Base.addr /\ r = TreeRoom
      BY <1>0, BootAssumption DEF BootConfig, Base, Over, Images
    <3>2. memory' = Put("fdt", a, n + o + r)
      BY <2>4, <3>1, Zenon DEF load_dtbs
    <3>3. a .. a + (n + o + r) - 1 \subseteq Extent("dtb")
      <4>1. PICK p \in Nat : p = cfg.files["dtbo"].size
        BY <1>0 DEF BootConfig, Images
      <4>2. o <= p
        BY <3>1, <4>1 DEF Over
      <4>3. Extent("dtb") = a .. a + (n + p + r) - 1
        BY <3>1, <4>1, Zenon DEF Extent, Base
      <4> QED
        BY <4>2, <4>3
    <3>4. ASSUME NEW k \in Images, k # "dtb", Kept(k)
          PROVE  Kept(k)'
      <4>1. PICK m \in Int : m = n + o + r
        OBVIOUS
      <4>2. "fdt" \in FileNames /\ "dtb" \in Images
        BY BootAssumption DEF Images
      <4>3. Loaded' = Loaded /\ \A j : Extent(j)' = Extent(j)
        BY <2>1, Zenon DEF Loaded, Extent, Skipped, Is44
      <4>4. a .. a + m - 1 \subseteq Extent("dtb")' /\ memory' = Put("fdt", a, m)
        BY <3>2, <3>3, <4>1, <4>3
      <4> QED
        BY <1>0, <2>1, <3>4, <4>2, <4>3, <4>4, PutKeeps
    <3> QED
      BY <2>1, <2>2, <3>4 DEF KeptInv, Early, Late, Hosted, Is44, Skipped, SizeOf
  <2> QED
    BY <1>4, <2>3, <2>4 DEF cli_loop, TreeSteps, merge_dtbs, modify_memory, modify_nodes, modify_props, fill_info,
                        HartSteps, wake_up, secondary_core_fun, jump_to
<1>5. CASE UNCHANGED bootVars
  <2>1. hw' = hw /\ cfg' = cfg /\ memory' = memory /\ pc' = pc
    BY <1>5 DEF bootVars
  <2>2. \A j \in Images : Read(j)' <=> Read(j)
    BY <2>1 DEF Read, Passed, Place, Is44
  <2> QED
    BY <2>1, <2>2, KeptSame DEF KeptInv
<1> QED
  BY <1>1, <1>2, <1>3, <1>4, <1>5, StepKinds DEF ConfigSteps

LEMMA KeptHandedOver == TypeInv /\ FlowInv /\ KeptInv => HandedOverIntact
<1> SUFFICES ASSUME TypeInv, FlowInv, KeptInv, Booting, ~Hosted, Apart, NEW i \in Loaded \ {"dtb", "dtbo"}
             PROVE  /\ SizeOf(cfg.files[i].name) > 0
                    /\ Intact(cfg.files[i].name, cfg.files[i].addr, SizeOf(cfg.files[i].name))
  BY DEF HandedOverIntact
<1>1. i \in Images /\ ~Skipped(cfg.files[i]) /\ i # "dtb"
  BY DEF Loaded, Images
<1>2. Read(i)
  BY DEF Booting, FlowInv, Read, Passed, Late
<1>3. /\ cfg.files[i].size = SizeOf(cfg.files[i].name) /\ SizeOf(cfg.files[i].name) > 0
      /\ Kept(i)
  BY <1>1, <1>2 DEF KeptInv
<1>4. PICK n \in Nat, a \in Nat : n = cfg.files[i].size /\ a = cfg.files[i].addr
  BY <1>1 DEF TypeInv, BootTypeOK, BootConfig
<1>5. Extent(i) = a .. a + n - 1
  BY <1>1, <1>4, Zenon DEF Extent
<1>6. ASSUME NEW c \in 0 .. n - 1
      PROVE  a + c < Cells /\ memory[a + c] = <<cfg.files[i].name, c>>
  <2>1. a + c \in Extent(i)
    BY <1>5
  <2>2. a + c \in 0 .. Cells - 1
    BY <2>1 DEF Apart
  <2>3. a + c < Cells
    <3>1. Cells \in Nat
      BY BootAssumption, Zenon
    <3>2. PICK x \in 0 .. Cells - 1 : x = a + c
      BY <2>2, Zenon
    <3> QED
      BY <3>1, <3>2
  <2>4. ~ \E j \in (Loaded \cup {"dtb"}) \ {i} : a + c \in Extent(j)
    BY <2>1 DEF Apart
  <2> QED
    BY <1>3, <1>4, <2>3, <2>4, Zenon DEF Kept
<1> QED
  BY <1>3, <1>4, <1>6 DEF Intact

LEMMA KeptInit == BootInit => KeptInv
<1> SUFFICES ASSUME BootInit PROVE KeptInv
  OBVIOUS
<1>1. pc = <<"init", "">> /\ \A i \in Images : cfg.files[i].size = 0
  BY DEF BootInit, NoConfig, File
<1>2. pc[1] = "init"
  BY <1>1
<1> QED
  BY <1>1, <1>2 DEF KeptInv, Read, Passed, Late

\* The firmware, the kernel and the ramfs that the configuration names are in
\* memory as they are on the medium when harts leave, unless the configuration
\* itself places images, or the tree with its room, on one another (load,
\* load_dtbs).
THEOREM LoadedStaysIntact == BootSpec => []HandedOverIntact
<1> DEFINE Inv == TypeInv /\ FlowInv /\ KeptInv
<1>1. BootInit => Inv
  BY TypeInit, FlowInit, KeptInit
<1>2. Inv /\ [BootNext]_bootVars => Inv'
  BY TypeStep, FlowStep, KeptStep
<1>3. Inv => HandedOverIntact
  BY KeptHandedOver
<1> QED
  BY <1>1, <1>2, <1>3, PTL DEF BootSpec

-----------------------------------------------------------------------------
(* The memory the operating system is told of.                             *)

\* Dram and reserved memory are known when images are loaded, and the nodes
\* in the tree are those of the registers, all of them if there was room.
NodesInv ==
    /\ ~Hosted /\ Is44 /\ pc[1] \in {"images", "key", "load", "verify"} \cup Late => cfg.reserved = hw.rms
    /\ ~Hosted /\ pc[1] \in {"nodes", "props", "info", "wake", "gone"} /\ fdt.base # "nothing" =>
         /\ fdt.nodes \subseteq IF Is44 THEN DramNodes ELSE DdrNodes
         /\ fdt.room => fdt.nodes = IF Is44 THEN DramNodes ELSE DdrNodes

LEMMA NodesSame ==
    ASSUME hw' = hw, cfg'.dram = cfg.dram, cfg'.reserved = cfg.reserved
    PROVE  (Is44' <=> Is44) /\ (Hosted' <=> Hosted) /\ DramNodes' = DramNodes /\ DdrNodes' = DdrNodes
<1>1. (Is44' <=> Is44) /\ (Hosted' <=> Hosted)
  BY DEF Is44, Hosted
<1>2. DramNodes' = DramNodes
  BY DEF DramNodes
<1>3. DdrNodes' = DdrNodes
  BY DEF DdrNodes, Chips, DdrBase, DdrSize, Below, Split, get_ddr_size
<1> QED
  BY <1>1, <1>2, <1>3

LEMMA NodesStep == TypeInv /\ FlowInv /\ NodesInv /\ [BootNext]_bootVars => NodesInv'
<1> SUFFICES ASSUME TypeInv, FlowInv, NodesInv, [BootNext]_bootVars PROVE NodesInv'
  OBVIOUS
<1>0. cfg \in BootConfig /\ fdt \in BootTree /\ \A n : SizeOf(n) \in Nat
  BY BoardFacts DEF TypeInv, BootTypeOK
<1>1. CASE ConfigSteps
  <2>1. hw' = hw /\ pc'[1] \in {"info", "config", "lines", "efi", "images", "key", "hung", "load"}
        /\ (pc'[1] = "info" => Hosted') /\ (Hosted' <=> Hosted) /\ (Is44' <=> Is44)
    BY <1>1, NothingYet DEF Is44
  <2>2. CASE pc'[1] \in {"images", "key", "load"}
    <3>1. CASE config_parsed
      <4>1. ~Is44
        <5>1. pc' = <<IF Is44 THEN "efi" ELSE "images", "">>
          BY <3>1 DEF config_parsed, Then
        <5> QED
          BY <2>2, <5>1
      <4> QED
        BY <2>1, <2>2, <4>1 DEF NodesInv
    <3>2. CASE parse_efi_variable
      <4>1. cfg'.reserved = hw.rms
        BY <1>0, <3>2 DEF parse_efi_variable, BootConfig
      <4> QED
        BY <2>1, <2>2, <4>1 DEF NodesInv
    <3>3. CASE load_images \/ invoke_key
      <4>1. cfg'.reserved = cfg.reserved
        BY <1>0, <3>3 DEF load_images, invoke_key, BootConfig
      <4>2. pc[1] \in {"images", "key"}
        BY <3>3, From DEF load_images, invoke_key, At
      <4> QED
        BY <2>1, <2>2, <4>1, <4>2 DEF NodesInv
    <3>4. CASE config_init \/ parse_config_file \/ handler_img
      <4>1. \/ \E p \in {"info", "config", "lines"} : pc' = <<p, "">>
            \/ pc = <<"lines", "">> /\ pc' = pc
        BY <3>4, Zenon DEF config_init, parse_config_file, handler_img, At, Then
      <4>2. pc'[1] \in {"info", "config", "lines"}
        BY <4>1, GoesTo
      <4> QED
        BY <2>2, <4>2
    <3> QED
      BY <1>1, <3>1, <3>2, <3>3, <3>4 DEF ConfigSteps
  <2> QED
    BY <2>1, <2>2 DEF NodesInv, Late
<1>2. ASSUME NEW i \in Images, LoadImage(i) \/ VerifyImage(i)
      PROVE  NodesInv'
  <2>1. hw' = hw /\ pc[1] \in {"load", "verify"}
    BY <1>2, LoadCases, VerifyCases
  <2>2. pc'[1] \in {"hung", "load", "cli", "verify"}
    <3>1. pc' = <<"hung", "">> \/ NextImage(i) \/ pc' = <<"verify", i>>
      BY <1>2, LoadCases, VerifyCases
    <3> QED
      BY <3>1, AfterImage, GoesTo
  <2>3. cfg'.reserved = cfg.reserved
    BY <1>0, <1>2 DEF LoadImage, VerifyImage, BootConfig
  <2>4. (Hosted' <=> Hosted) /\ (Is44' <=> Is44)
    BY <2>1 DEF Is44, Hosted
  <2> QED
    BY <2>1, <2>2, <2>3, <2>4 DEF NodesInv
<1>3. CASE cli_loop \/ TreeSteps \/ fill_info \/ HartSteps
  <2>1. hw' = hw /\ cfg' = cfg /\ pc[1] \in Late /\ pc'[1] \in Late
    BY <1>3, TreeCases, HartCases DEF Late
  <2>2. (Is44' <=> Is44) /\ (Hosted' <=> Hosted) /\ DramNodes' = DramNodes /\ DdrNodes' = DdrNodes
    BY <2>1, NodesSame
  <2>3. ~Hosted /\ pc'[1] \in {"nodes", "props", "info", "wake", "gone"} /\ fdt'.base # "nothing" =>
          /\ fdt'.nodes \subseteq IF Is44 THEN DramNodes ELSE DdrNodes
          /\ fdt'.room => fdt'.nodes = IF Is44 THEN DramNodes ELSE DdrNodes
    <3>1. CASE cli_loop \/ load_dtbs \/ merge_dtbs
      <4>1. \E p \in {"dtbs", "merge", "memory"} : pc' = <<p, "">>
        BY <3>1 DEF cli_loop, load_dtbs, merge_dtbs, Then
      <4> QED
        BY <4>1, Goes
    <3>2. CASE modify_memory
      BY <3>2, MemoryEdit
    <3>3. CASE modify_nodes
      <4>1. pc[1] = "nodes"
        BY <3>3, From DEF modify_nodes, At
      <4>2. fdt'.nodes = fdt.nodes /\ fdt'.base = fdt.base /\ (fdt'.room => fdt.room)
        BY <3>3, NodeEdits
      <4> QED
        BY <4>1, <4>2 DEF NodesInv
    <3>4. CASE modify_props
      <4>1. pc[1] = "props"
        BY <3>4, From DEF modify_props, At
      <4>2. fdt' = fdt \/ fdt' = Lost("truncated")
        BY <3>4 DEF modify_props, of_modify_prop
      <4>3. Lost("truncated").base = "nothing"
        BY <1>0 DEF Lost, BootTree
      <4> QED
        BY <4>1, <4>2, <4>3 DEF NodesInv
    <3>5. CASE fill_info \/ HartSteps
      <4>1. fdt' = fdt /\ pc[1] \in {"info", "wake", "gone"}
        BY <3>5, HartCases, From DEF fill_info, InfoFilled, At
      <4> QED
        BY <4>1 DEF NodesInv
    <3> QED
      BY <1>3, <3>1, <3>2, <3>3, <3>4, <3>5 DEF TreeSteps
  <2> QED
    BY <2>1, <2>2, <2>3 DEF NodesInv
<1>4. CASE UNCHANGED bootVars
  <2>1. hw' = hw /\ cfg' = cfg /\ fdt' = fdt /\ pc' = pc
    BY <1>4 DEF bootVars
  <2> QED
    BY <2>1, NodesSame DEF NodesInv
<1> QED
  BY <1>1, <1>2, <1>3, <1>4, StepKinds DEF ConfigSteps

LEMMA NodesInit == BootInit => NodesInv
<1> SUFFICES ASSUME BootInit PROVE NodesInv
  OBVIOUS
<1>1. pc = <<"init", "">>
  BY DEF BootInit
<1>2. pc[1] = "init"
  BY <1>1
<1> QED
  BY <1>2 DEF NodesInv, Late

LEMMA ModuloOf == \A d, s \in Nat : d < s => d % s = d
  OBVIOUS

LEMMA NodesReported == TypeInv /\ FlowInv /\ NodesInv => MemoryHonest
<1> SUFFICES ASSUME TypeInv, FlowInv, NodesInv, Booting, ~Hosted, fdt.base # "nothing"
             PROVE  IF Is44
                      THEN hw.rms <= cfg.dram => \A m \in fdt.nodes : m.start = 2 /\ m.size = cfg.dram - hw.rms
                      ELSE /\ \A m, n \in fdt.nodes : m # n => m.start + m.size <= n.start \/ n.start + n.size <= m.start
                           /\ \A i \in Chips, j \in 1 .. 4 : (\A k \in 1 .. j : DdrSize(i, k) > 0) =>
                                \A g \in DdrBase(i, j) .. DdrBase(i, j) + DdrSize(i, j) - 1 :
                                    /\ (\E m \in fdt.nodes : Covers(m, g)) => g # Hole.start \/ DdrSize(1, 1) < 4
                                    /\ fdt.room /\ (g # Hole.start \/ DdrSize(1, 1) < 4) => \E m \in fdt.nodes : Covers(m, g)
  BY Zenon DEF MemoryHonest
<1>1. pc[1] \in {"wake", "gone"} /\ hw \in BootBoards /\ cfg \in BootConfig
  BY DEF Booting, FlowInv, TypeInv, BootTypeOK
<1>2. CASE Is44
  <2>1. fdt.nodes \subseteq DramNodes /\ cfg.reserved = hw.rms
    BY <1>1, <1>2 DEF NodesInv, Late
  <2>2. PICK d \in 0 .. 128, r \in Nat : d = cfg.dram /\ r = hw.rms
    BY <1>1, BoardFacts DEF BootConfig
  <2>3. ASSUME r <= d
        PROVE  (d - r) % Space = d - r
    <3>1. Space \in Nat /\ Space > 128
      BY BootAssumption, Zenon
    <3>2. d - r \in Nat /\ d - r < Space
      BY <2>3, <3>1
    <3> QED
      BY <3>1, <3>2, ModuloOf
  <2> QED
    BY <1>2, <2>1, <2>2, <2>3 DEF DramNodes
<1>3. CASE ~Is44
  <2>1. fdt.nodes \subseteq DdrNodes /\ (fdt.room => fdt.nodes = DdrNodes)
    BY <1>1, <1>3 DEF NodesInv
  <2>2. /\ \A m, n \in DdrNodes : m # n => m.start + m.size <= n.start \/ n.start + n.size <= m.start
        /\ \A i \in Chips, j \in 1 .. 4 : (\A k \in 1 .. j : DdrSize(i, k) > 0) =>
             \A g \in DdrBase(i, j) .. DdrBase(i, j) + DdrSize(i, j) - 1 :
                 (g # Hole.start \/ DdrSize(1, 1) < 4) = (\E m \in DdrNodes : Covers(m, g))
    BY <1>1, NodesHonest, Zenon
  <2>3. \A m, n \in fdt.nodes : m # n => m.start + m.size <= n.start \/ n.start + n.size <= m.start
    BY <2>1, <2>2, Zenon
  <2>4. ASSUME NEW i \in Chips, NEW j \in 1 .. 4, \A k \in 1 .. j : DdrSize(i, k) > 0,
               NEW g \in DdrBase(i, j) .. DdrBase(i, j) + DdrSize(i, j) - 1
        PROVE  /\ (\E m \in fdt.nodes : Covers(m, g)) => g # Hole.start \/ DdrSize(1, 1) < 4
               /\ fdt.room /\ (g # Hole.start \/ DdrSize(1, 1) < 4) => \E m \in fdt.nodes : Covers(m, g)
    <3>1. (g # Hole.start \/ DdrSize(1, 1) < 4) <=> (\E m \in DdrNodes : Covers(m, g))
      BY <2>2, <2>4, Zenon
    <3> QED
      BY <2>1, <3>1, Zenon
  <2> QED
    BY <1>3, <2>3, <2>4, Zenon
<1> QED
  BY <1>2, <1>3

\* The memory the operating system is told of is there, once, and all of it
\* but the hole of the PCIe switch, unless there was no room to tell of it, whatever the DRAM registers, the fuses and
\* the EFI variable say (modify_ddr_node, modify_memory_node).
THEOREM MemoryToldIsThere == BootSpec => []MemoryHonest
<1> DEFINE Inv == TypeInv /\ FlowInv /\ NodesInv
<1>1. BootInit => Inv
  BY TypeInit, FlowInit, NodesInit
<1>2. Inv /\ [BootNext]_bootVars => Inv'
  BY TypeStep, FlowStep, NodesStep
<1>3. Inv => MemoryHonest
  BY NodesReported
<1> QED
  BY <1>1, <1>2, <1>3, PTL DEF BootSpec

-----------------------------------------------------------------------------
(* The tree is the one that was asked for.                                 *)

\* What a line sets.
LEMMA ApplySets ==
    ASSUME NEW c \in BootConfig, NEW d, NEW k, FileLines \in ConfLines, k \in 1 .. Len(FileLines),
           d = Apply(c, FileLines[k])
    PROVE  /\ \A i \in Images :
                /\ d.files[i].name = IF FileLines[k][1] = i /\ FileLines[k][2] = "name" THEN FileLines[k][3]
                                     ELSE c.files[i].name
                /\ d.files[i].addr = IF FileLines[k][1] = i /\ FileLines[k][2] = "addr" THEN FileLines[k][3]
                                     ELSE c.files[i].addr
           /\ d.args = (c.args \/ Cmdline(FileLines[k]))
           /\ d.mode = c.mode
<1>1. PICK l : l = FileLines[k]
  OBVIOUS
<1>2. \/ l[2] = "name" /\ l[3] \in FileNames
      \/ l[2] = "addr" /\ l[3] \in Nat
      \/ l[2] \notin {"name", "addr"}
  BY <1>1 DEF ConfLines
<1>3. CASE l[1] \in Images /\ l[2] = "name"
  <2>1. PICK i \in Images, v \in FileNames : i = l[1] /\ v = l[3]
    BY <1>2, <1>3
  <2>2. d = [c EXCEPT !.files[i].name = v]
    BY <1>1, <1>3, <2>1 DEF Apply, Cmdline, Images
  <2>3. /\ \A j \in Images \ {i} : d.files[j] = c.files[j]
        /\ d.files[i].name = v /\ d.files[i].addr = c.files[i].addr
    BY <2>2 DEF BootConfig, Images
  <2>4. d.args = c.args /\ d.mode = c.mode
    BY <2>2 DEF BootConfig
  <2>5. ~Cmdline(l) /\ c.args \in BOOLEAN
    BY <1>3 DEF Images, BootConfig, Cmdline
  <2> QED
    BY <1>1, <1>3, <2>1, <2>3, <2>4, <2>5
<1>4. CASE l[1] \in Images /\ l[2] = "addr"
  <2>1. PICK i \in Images, v \in Nat : i = l[1] /\ v = l[3]
    BY <1>2, <1>4
  <2>2. d = [c EXCEPT !.files[i].addr = v]
    BY <1>1, <1>4, <2>1 DEF Apply, Cmdline, Images
  <2>3. /\ \A j \in Images \ {i} : d.files[j] = c.files[j]
        /\ d.files[i].addr = v /\ d.files[i].name = c.files[i].name
    BY <2>2, FileMoved
  <2>4. d.args = c.args /\ d.mode = c.mode
    BY <2>2 DEF BootConfig
  <2>5. ~Cmdline(l) /\ c.args \in BOOLEAN
    BY <1>4 DEF Images, BootConfig, Cmdline
  <2> QED
    BY <1>1, <1>4, <2>1, <2>3, <2>4, <2>5
<1>5. CASE ~(l[1] \in Images /\ l[2] \in {"name", "addr"})
  <2>1. /\ d = c \/ d = [c EXCEPT !.args = TRUE] \/ d = [c EXCEPT !.mac = TRUE]
        /\ Cmdline(l) <=> d = [c EXCEPT !.args = TRUE] /\ Cmdline(l)
        /\ ~Cmdline(l) => d = c \/ d = [c EXCEPT !.mac = TRUE]
    BY <1>1, <1>5 DEF Apply, Cmdline, Images
  <2>2. d.files = c.files /\ d.mode = c.mode /\ d.args = (c.args \/ Cmdline(l))
    BY <2>1 DEF BootConfig
  <2> QED
    BY <1>1, <1>5, <2>2
<1> QED
  BY <1>3, <1>4, <1>5

\* One line more.
LEMMA LastLineOf ==
    ASSUME NEW n \in Nat, NEW i, NEW f, NEW d
    PROVE  /\ LastLine(0, i, f, d) = d
           /\ LastLine(n + 1, i, f, d) = IF FileLines[n + 1][1] = i /\ FileLines[n + 1][2] = f THEN FileLines[n + 1][3]
                                         ELSE LastLine(n, i, f, d)
<1> DEFINE at(m) == {k \in 1 .. m : FileLines[k][1] = i /\ FileLines[k][2] = f}
<1>1. at(0) = {}
  OBVIOUS
<1>2. CASE FileLines[n + 1][1] = i /\ FileLines[n + 1][2] = f
  <2>1. n + 1 \in at(n + 1) /\ \A m \in at(n + 1) : m <= n + 1
    BY <1>2
  <2>2. \A k \in at(n + 1) : (\A m \in at(n + 1) : m <= k) => k = n + 1
    BY <2>1
  <2>3. at(n + 1) # {}
    BY <2>1
  <2> HIDE DEF at
  <2>4. (CHOOSE k \in at(n + 1) : \A m \in at(n + 1) : m <= k) = n + 1
    BY <2>1, <2>2
  <2>5. LastLine(n + 1, i, f, d) = FileLines[CHOOSE k \in at(n + 1) : \A m \in at(n + 1) : m <= k][3]
    BY <2>3 DEF LastLine, at
  <2> QED
    BY <1>1, <1>2, <2>4, <2>5 DEF LastLine, at
<1>3. CASE ~(FileLines[n + 1][1] = i /\ FileLines[n + 1][2] = f)
  <2>1. at(n + 1) = at(n)
    BY <1>3
  <2> HIDE DEF at
  <2>2. \A m : LastLine(m, i, f, d) = IF at(m) = {} THEN d ELSE FileLines[CHOOSE k \in at(m) : \A p \in at(m) : p <= k][3]
    BY DEF LastLine, at
  <2> QED
    BY <1>1, <1>3, <2>1, <2>2
<1> QED
  BY <1>2, <1>3

\* What the configuration is by now: what the lines so far ask for, then what
\* load_images makes of it.
AsAsked(c) ==
    /\ cfg.files["dtb"].name = c.dtb /\ cfg.files["dtbo"].name = c.dtbo /\ cfg.files["dtbo"].addr = c.dtbo_addr
    /\ cfg.files["ramfs"].name = c.ramfs /\ cfg.args = c.args

Wanted == Configured(Len(FileLines))
Own == Wanted.dtb # "null" /\ Wanted.dtb \notin hw.overlays
WantedOver == IF Wanted.dtb \in hw.overlays THEN Wanted.dtb ELSE IF Own /\ ~Is44 THEN "null" ELSE Wanted.dtbo

AsTaken ==
    /\ cfg.files["dtb"].name = IF Own THEN Wanted.dtb ELSE "null"
    /\ cfg.files["dtbo"].name = WantedOver /\ cfg.files["dtbo"].addr = Wanted.dtbo_addr
    /\ cfg.files["ramfs"].name = Wanted.ramfs /\ cfg.args = Wanted.args

AskInv ==
    ~Hosted =>
      /\ pc[1] \in {"config", "lines", "efi", "images"} => AsAsked(Configured(applied))
      /\ pc[1] \in {"efi", "images", "key", "load", "verify"} \cup Late => applied = Len(FileLines)
      /\ pc[1] \in {"key", "load", "verify"} \cup Late => AsTaken
      /\ Is44 /\ pc[1] \in {"config", "lines", "efi"} => cfg.mode = "cpu"
      /\ Is44 /\ pc[1] \in {"images", "key", "load", "verify"} \cup Late => (cfg.op = "soc" <=> hw.rms > 0)

\* What is asked for stays the same as long as the same lines are applied.
LEMMA AskedSame ==
    ASSUME hw' = hw, fresh' = fresh, applied' = applied
    PROVE  /\ FileLines' = FileLines /\ \A n : Configured(n)' = Configured(n)
           /\ Wanted' = Wanted /\ (Own' <=> Own) /\ WantedOver' = WantedOver /\ (Is44' <=> Is44) /\ (Hosted' <=> Hosted)
<1>1. FileLines' = FileLines /\ (Is44' <=> Is44) /\ (Hosted' <=> Hosted)
  BY DEF FileLines, Is44, Hosted
<1>2. \A n : Configured(n)' = Configured(n)
  BY DEF Configured, LastLine, FileLines, Is44
<1>3. Wanted' = Wanted
  BY <1>1, <1>2 DEF Wanted
<1> QED
  BY <1>1, <1>2, <1>3 DEF Own, WantedOver

\* Before the first line: the defaults.
LEMMA AskedNothing ==
    /\ Configured(0).dtb = (IF ~Is44 /\ hw.known THEN "board.dtb" ELSE "null")
    /\ Configured(0).dtbo = "evb.dtbo" /\ Configured(0).dtbo_addr = 10 /\ Configured(0).ramfs = "null"
    /\ Configured(0).args = FALSE
  BY LastLineOf DEF Configured

\* After one line more.
LEMMA AskedNext ==
    ASSUME cfg \in BootConfig, FileLines \in ConfLines, NEW n \in Nat, n + 1 \in 1 .. Len(FileLines),
           AsAsked(Configured(n)), cfg' = Apply(cfg, FileLines[n + 1]), FileLines' = FileLines, Is44' <=> Is44, hw' = hw
    PROVE  AsAsked(Configured(n + 1))' /\ cfg'.mode = cfg.mode
<1>1. PICK d : d = cfg'
  OBVIOUS
<1>2. /\ \A i \in Images :
           /\ d.files[i].name = IF FileLines[n + 1][1] = i /\ FileLines[n + 1][2] = "name" THEN FileLines[n + 1][3]
                                ELSE cfg.files[i].name
           /\ d.files[i].addr = IF FileLines[n + 1][1] = i /\ FileLines[n + 1][2] = "addr" THEN FileLines[n + 1][3]
                                ELSE cfg.files[i].addr
      /\ d.args = (cfg.args \/ Cmdline(FileLines[n + 1]))
      /\ d.mode = cfg.mode
  BY <1>1, ApplySets
<1>3. /\ cfg.files["dtb"].name = LastLine(n, "dtb", "name", IF ~Is44 /\ hw.known THEN "board.dtb" ELSE "null")
      /\ cfg.files["dtbo"].name = LastLine(n, "dtbo", "name", "evb.dtbo")
      /\ cfg.files["dtbo"].addr = LastLine(n, "dtbo", "addr", 10)
      /\ cfg.files["ramfs"].name = LastLine(n, "ramfs", "name", "null")
      /\ cfg.args = \E k \in 1 .. n : Cmdline(FileLines[k])
  BY DEF AsAsked, Configured
<1>4. /\ d.files["dtb"].name = LastLine(n + 1, "dtb", "name", IF ~Is44 /\ hw.known THEN "board.dtb" ELSE "null")
      /\ d.files["dtbo"].name = LastLine(n + 1, "dtbo", "name", "evb.dtbo")
      /\ d.files["dtbo"].addr = LastLine(n + 1, "dtbo", "addr", 10)
      /\ d.files["ramfs"].name = LastLine(n + 1, "ramfs", "name", "null")
  <2>1. \A i, f, v : LastLine(n + 1, i, f, v) =
                        IF FileLines[n + 1][1] = i /\ FileLines[n + 1][2] = f THEN FileLines[n + 1][3]
                        ELSE LastLine(n, i, f, v)
    BY LastLineOf
  <2>2. {"dtb", "dtbo", "ramfs"} \subseteq Images
    BY DEF Images
  <2>3. \A i \in Images : \A v : cfg.files[i].name = LastLine(n, i, "name", v) => d.files[i].name = LastLine(n + 1, i, "name", v)
    BY <1>2, <2>1
  <2>4. \A i \in Images : \A v : cfg.files[i].addr = LastLine(n, i, "addr", v) => d.files[i].addr = LastLine(n + 1, i, "addr", v)
    BY <1>2, <2>1
  <2> QED
    BY <1>3, <2>2, <2>3, <2>4
<1>5. d.args = \E k \in 1 .. n + 1 : Cmdline(FileLines[k])
  <2>1. \A k : k \in 1 .. n + 1 <=> k \in 1 .. n \/ k = n + 1
    OBVIOUS
  <2> QED
    BY <1>2, <1>3, <2>1, Zenon
<1>6. \A m, i, f, v : LastLine(m, i, f, v)' = LastLine(m, i, f, v)
  BY DEF LastLine
<1> QED
  BY <1>1, <1>2, <1>4, <1>5, <1>6 DEF AsAsked, Configured

\* What load_images makes of the trees.
LEMMA TakenOf ==
    ASSUME cfg \in BootConfig, AsAsked(Wanted), hw' = hw, fresh' = fresh, applied' = applied,
           cfg'.files = TreesOf(cfg.files), cfg'.args = cfg.args
    PROVE  AsTaken'
<1>1. PICK f : f = cfg.files
  OBVIOUS
<1>2. /\ f["dtb"].name = Wanted.dtb /\ f["dtbo"].name = Wanted.dtbo /\ f["dtbo"].addr = Wanted.dtbo_addr
      /\ f["ramfs"].name = Wanted.ramfs /\ f \in [Images -> [name : FileNames, addr : Nat, size : Nat]]
  BY <1>1 DEF AsAsked, BootConfig
<1>3. PICK v \in FileNames, w \in FileNames : v = Wanted.dtb /\ w = "null"
  BY <1>2, BootAssumption DEF Images
<1>4. /\ cfg'.files["ramfs"].name = Wanted.ramfs /\ cfg'.files["dtbo"].addr = Wanted.dtbo_addr
      /\ cfg'.files["dtb"].name = IF Own THEN Wanted.dtb ELSE "null"
      /\ cfg'.files["dtbo"].name = WantedOver
  <2>1. CASE file_is_dtbo(v)
    <3>1. cfg'.files = [f EXCEPT !["dtbo"].name = v, !["dtb"].name = w]
      BY <1>1, <1>2, <1>3, <2>1, Zenon DEF TreesOf
    <3>2. PICK g : g = [f EXCEPT !["dtbo"].name = v]
      OBVIOUS
    <3>3. /\ g["ramfs"].name = Wanted.ramfs /\ g["dtbo"].addr = Wanted.dtbo_addr /\ g["dtbo"].name = v
          /\ g \in [Images -> [name : FileNames, addr : Nat, size : Nat]]
      BY <1>2, <3>2 DEF Images
    <3>4. cfg'.files = [g EXCEPT !["dtb"].name = w]
      BY <1>2, <3>1, <3>2 DEF Images
    <3>5. /\ cfg'.files["ramfs"].name = Wanted.ramfs /\ cfg'.files["dtbo"].addr = Wanted.dtbo_addr
          /\ cfg'.files["dtbo"].name = v /\ cfg'.files["dtb"].name = w
      BY <3>3, <3>4 DEF Images
    <3> QED
      BY <1>3, <2>1, <3>5 DEF Own, WantedOver, file_is_dtbo
  <2>2. CASE ~file_is_dtbo(v) /\ v # w /\ ~Is44
    <3>1. cfg'.files = [f EXCEPT !["dtbo"].name = w]
      BY <1>1, <1>2, <1>3, <2>2 DEF TreesOf
    <3>2. /\ cfg'.files["ramfs"].name = Wanted.ramfs /\ cfg'.files["dtbo"].addr = Wanted.dtbo_addr
          /\ cfg'.files["dtbo"].name = w /\ cfg'.files["dtb"].name = v
      BY <1>2, <1>3, <3>1 DEF Images
    <3> QED
      BY <1>3, <2>2, <3>2 DEF Own, WantedOver, file_is_dtbo
  <2>3. CASE ~file_is_dtbo(v) /\ (v = w \/ Is44)
    <3>1. cfg'.files = f
      BY <1>1, <1>2, <1>3, <2>3 DEF TreesOf
    <3> QED
      BY <1>2, <1>3, <2>3, <3>1 DEF Own, WantedOver, file_is_dtbo
  <2> QED
    BY <2>1, <2>2, <2>3
<1>5. cfg'.args = Wanted.args
  BY DEF AsAsked
<1> QED
  BY <1>4, <1>5, AskedSame DEF AsTaken

LEMMA AskSteps ==
    ASSUME TypeInv, FlowInv, AskInv, ConfigSteps
    PROVE  AskInv'
<1>0. /\ hw \in BootBoards /\ cfg \in BootConfig /\ FileLines \in ConfLines /\ applied \in 0 .. Len(FileLines)
      /\ applied \in Nat /\ hw.plat \in {"sg2042", "sg2044"} /\ hw.mode \in {"cpu", "pcie"} /\ hw.rms \in Nat
  BY LinesTyped, BoardFacts DEF TypeInv, BootTypeOK
<1>1. hw' = hw /\ (Hosted' <=> Hosted) /\ (Is44' <=> Is44)
  BY NothingYet DEF Is44
<1> SUFFICES ASSUME ~Hosted PROVE AskInv'
  BY <1>1 DEF AskInv
<1>2. CASE config_init
  <2>1. pc = <<"init", "">> /\ pc' = <<"config", "">> /\ fresh' = fresh /\ applied' = applied
    BY <1>2 DEF config_init, At, Then, Hosted
  <2>2. pc'[1] = "config" /\ applied = 0
    BY <2>1, From DEF TypeInv
  <2>3. PICK f : f = DefaultFiles
    OBVIOUS
  <2>4. /\ f["dtb"].name = "null" /\ f["dtbo"].name = "evb.dtbo" /\ f["dtbo"].addr = 10 /\ f["ramfs"].name = "null"
        /\ f \in [Images -> [name : FileNames, addr : Nat, size : Nat]]
    BY <2>3, BootAssumption DEF DefaultFiles, File, Images
  <2>5. cfg'.files = IF ~Is44 /\ hw.known THEN [f EXCEPT !["dtb"].name = "board.dtb"] ELSE f
    BY <1>2, <2>3 DEF config_init, build_board_info
  <2>6. /\ cfg'.files["dtb"].name = (IF ~Is44 /\ hw.known THEN "board.dtb" ELSE "null")
        /\ cfg'.files["dtbo"].name = "evb.dtbo" /\ cfg'.files["dtbo"].addr = 10 /\ cfg'.files["ramfs"].name = "null"
    BY <2>4, <2>5 DEF Images
  <2>7. cfg'.args = FALSE /\ (Is44 => cfg'.mode = "cpu")
    BY <1>0, <1>2 DEF config_init, Hosted
  <2>8. AsAsked(Configured(0))'
    BY <2>1, <2>6, <2>7, <1>1, AskedNothing, AskedSame DEF AsAsked
  <2> QED
    BY <1>1, <2>1, <2>2, <2>7, <2>8 DEF AskInv, Late
<1>3. CASE parse_config_file
  <2>1. pc = <<"config", "">> /\ pc' = <<"lines", "">> /\ cfg' = cfg /\ applied' = applied
    BY <1>3, Zenon DEF parse_config_file, At, Then
  <2>2. pc[1] = "config" /\ pc'[1] = "lines" /\ applied = 0
    BY <2>1, From DEF TypeInv
  <2>3. Configured(0)' = Configured(0)
    <3>1. \A i, f, d : LastLine(0, i, f, d)' = d
      <4>1. \A i, f : {k \in 1 .. 0 : FileLines'[k][1] = i /\ FileLines'[k][2] = f} = {}
        OBVIOUS
      <4> QED
        BY <4>1 DEF LastLine
    <3>2. \A i, f, d : LastLine(0, i, f, d) = d
      BY LastLineOf
    <3>3. ~ (\E k \in 1 .. 0 : Cmdline(FileLines'[k])) /\ ~ (\E k \in 1 .. 0 : Cmdline(FileLines[k]))
      OBVIOUS
    <3>4. \A i, f, d : LastLine(0, i, f, d)' = LastLine(0, i, f, d)
      BY <3>1, <3>2, ZenonT(40)
    <3>5. (\E k \in 1 .. 0 : Cmdline(FileLines'[k])) = (\E k \in 1 .. 0 : Cmdline(FileLines[k]))
      BY <3>3
    <3>6. LastLine(0, "dtb", "name", IF ~Is44 /\ hw.known THEN "board.dtb" ELSE "null")' =
          LastLine(0, "dtb", "name", IF ~Is44 /\ hw.known THEN "board.dtb" ELSE "null")
      BY <1>1, <3>4 DEF Is44
    <3> QED
      BY <3>4, <3>5, <3>6 DEF Configured
  <2>4. AsAsked(Configured(0))'
    BY <2>1, <2>2, <2>3 DEF AskInv, AsAsked
  <2> QED
    BY <1>1, <2>1, <2>2, <2>4 DEF AskInv, Late
<1>4. CASE handler_img
  <2>1. PICK n \in Nat : n = applied
    BY <1>0
  <2>2. /\ pc' = pc /\ fresh' = fresh /\ applied' = n + 1 /\ n + 1 \in 1 .. Len(FileLines)
        /\ cfg' = Apply(cfg, FileLines[n + 1])
    BY <1>0, <1>4, <2>1 DEF handler_img, ConfLines
  <2>3. pc[1] = "lines" /\ FileLines' = FileLines
    BY <1>1, <1>4, <2>2, From DEF handler_img, At, FileLines
  <2>4. AsAsked(Configured(n)) /\ (Is44 => cfg.mode = "cpu")
    BY <2>1, <2>3 DEF AskInv
  <2>5. AsAsked(Configured(n + 1))' /\ cfg'.mode = cfg.mode
    BY <1>0, <1>1, <2>2, <2>3, <2>4, AskedNext
  <2> QED
    BY <1>1, <2>2, <2>3, <2>4, <2>5 DEF AskInv, Late
<1>5. CASE config_parsed
  <2>1. /\ pc = <<"lines", "">> /\ (pc' = <<"efi", "">> \/ (pc' = <<"images", "">> /\ ~Is44)) /\ cfg' = cfg
        /\ fresh' = fresh /\ applied' = applied /\ applied = Len(FileLines)
    BY <1>5 DEF config_parsed, At, Then
  <2>2. pc[1] = "lines" /\ (pc'[1] = "efi" \/ (pc'[1] = "images" /\ ~Is44))
    BY <2>1, From, GoesTo
  <2>3. AsAsked(Configured(applied))'
    BY <1>1, <2>1, <2>2, AskedSame DEF AskInv, AsAsked
  <2> QED
    BY <1>1, <2>1, <2>2, <2>3, AskedSame DEF AskInv, Late
<1>6. CASE parse_efi_variable
  <2>1. PICK m \in {"cpu", "soc", "pcie"} :
           /\ cfg' = [cfg EXCEPT !.reserved = hw.rms, !.mode = m, !.op = get_op_point(cfg.corner, m)]
           /\ m = IF hw.rms > 0 THEN "soc" ELSE cfg.mode
    BY <1>0, <1>6 DEF parse_efi_variable, BootConfig
  <2>2. pc[1] = "efi" /\ pc'[1] = "images" /\ fresh' = fresh /\ applied' = applied
    BY <1>6, From, GoesTo DEF parse_efi_variable, At, Then
  <2>3. cfg'.files = cfg.files /\ cfg'.args = cfg.args /\ cfg'.op = get_op_point(cfg.corner, m)
    BY <1>0, <2>1 DEF BootConfig
  <2>4. get_op_point(cfg.corner, m) = "soc" <=> m # "cpu"
    BY <1>0, OpPointOf DEF BootConfig
  <2>5. AsAsked(Configured(applied))'
    BY <1>1, <2>2, <2>3, AskedSame DEF AskInv, AsAsked
  <2>6. applied' = Len(FileLines')
    BY <1>1, <2>2, AskedSame DEF AskInv
  <2>7. Is44 => (cfg'.op = "soc" <=> hw.rms > 0)
    BY <2>1, <2>2, <2>3, <2>4 DEF AskInv
  <2> QED
    BY <1>1, <2>2, <2>5, <2>6, <2>7 DEF AskInv, Late
<1>7. CASE load_images
  <2>1. cfg'.files = TreesOf(cfg.files) /\ cfg'.args = cfg.args /\ cfg'.op = cfg.op
    BY <1>0, <1>7 DEF load_images, BootConfig
  <2>2. pc[1] = "images" /\ fresh' = fresh /\ applied' = applied
    BY <1>7, From DEF load_images, At
  <2>3. pc'[1] \in {"key", "load"}
    <3>1. pc' = <<"key", "">> \/ FirstImage
      BY <1>7, Zenon DEF load_images, Then
    <3> QED
      BY <3>1, FirstPlace, GoesTo
  <2>4. AsAsked(Wanted)
    BY <2>2 DEF AskInv, Wanted
  <2>5. AsTaken'
    BY <1>0, <1>1, <2>1, <2>2, <2>4, TakenOf
  <2> QED
    BY <1>1, <2>1, <2>2, <2>3, <2>5, AskedSame DEF AskInv, Late
<1>8. CASE invoke_key
  <2>1. pc[1] = "key" /\ fresh' = fresh /\ applied' = applied /\ cfg' = cfg
    BY <1>8, From DEF invoke_key, At
  <2>2. pc'[1] \in {"hung", "load"}
    <3>1. pc' = <<"hung", "">> \/ FirstImage
      BY <1>8, Zenon DEF invoke_key, Then
    <3> QED
      BY <3>1, FirstPlace, GoesTo
  <2>3. AsTaken'
    BY <1>1, <2>1, AskedSame DEF AskInv, AsTaken
  <2> QED
    BY <1>1, <2>1, <2>2, <2>3, AskedSame DEF AskInv, Late
<1> QED
  BY <1>2, <1>3, <1>4, <1>5, <1>6, <1>7, <1>8 DEF ConfigSteps

LEMMA AskStep == TypeInv /\ FlowInv /\ AskInv /\ [BootNext]_bootVars => AskInv'
<1> SUFFICES ASSUME TypeInv, FlowInv, AskInv, [BootNext]_bootVars PROVE AskInv'
  OBVIOUS
<1>0. cfg \in BootConfig /\ \A n : SizeOf(n) \in Nat
  BY BoardFacts DEF TypeInv, BootTypeOK
<1>1. CASE ConfigSteps
  BY <1>1, AskSteps
<1>2. ASSUME NEW i \in Images, LoadImage(i) \/ VerifyImage(i)
      PROVE  AskInv'
  <2>1. hw' = hw /\ fresh' = fresh /\ applied' = applied /\ pc[1] \in {"load", "verify"}
    BY <1>2, LoadCases, VerifyCases
  <2>2. pc'[1] \in {"hung", "load", "cli", "verify"}
    <3>1. pc' = <<"hung", "">> \/ NextImage(i) \/ pc' = <<"verify", i>>
      BY <1>2, LoadCases, VerifyCases
    <3> QED
      BY <3>1, AfterImage, GoesTo
  <2>3. cfg'.op = cfg.op /\ cfg'.args = cfg.args
    BY <1>0, <1>2 DEF LoadImage, VerifyImage, BootConfig
  <2>4. \A j \in Images : cfg'.files[j].name = cfg.files[j].name /\ cfg'.files[j].addr = cfg.files[j].addr
    <3>1. PICK n \in Nat : n = SizeOf(cfg.files[i].name)
      BY <1>0
    <3>2. cfg' = cfg \/ cfg' = [cfg EXCEPT !.files[i].size = n]
      BY <1>2, <3>1, LoadCases, VerifyCases
    <3> QED
      BY <1>0, <3>2, FileSized
  <2>5. AsTaken => AsTaken'
    BY <2>1, <2>3, <2>4, AskedSame DEF AsTaken, Images
  <2> QED
    BY <2>1, <2>2, <2>3, <2>5, AskedSame DEF AskInv, Late
<1>3. CASE cli_loop \/ TreeSteps \/ fill_info \/ HartSteps
  <2>1. /\ hw' = hw /\ cfg' = cfg /\ fresh' = fresh /\ applied' = applied /\ pc[1] \in Late /\ pc'[1] \in Late
    BY <1>3, TreeCases, HartCases DEF Late
  <2>2. AsTaken' <=> AsTaken
    BY <2>1, AskedSame DEF AsTaken
  <2> QED
    BY <2>1, <2>2, AskedSame DEF AskInv, Late
<1>4. CASE UNCHANGED bootVars
  <2>1. hw' = hw /\ cfg' = cfg /\ fresh' = fresh /\ applied' = applied /\ pc' = pc
    BY <1>4 DEF bootVars
  <2> QED
    BY <2>1, AskedSame DEF AskInv, AsAsked, AsTaken
<1> QED
  BY <1>1, <1>2, <1>3, <1>4, StepKinds DEF ConfigSteps

\* The tree that is made is the one of the configuration, unless it is lost.
TreeInv ==
    ~Hosted /\ fdt.bad = "none" /\ pc[1] \in {"merge", "memory", "nodes", "props", "info", "wake", "gone"} =>
      /\ fdt.base # "nothing" /\ fdt.base = IF Own THEN Wanted.dtb ELSE "builtin"
      /\ fdt.over = IF pc[1] = "merge" \/ WantedOver \in {"null", ""} \/ Wanted.dtbo_addr = 0 THEN "none" ELSE WantedOver
      /\ pc[1] \in {"props", "info", "wake", "gone"} /\ fdt.room =>
             /\ fdt.initrd = (Wanted.ramfs # "null")
             /\ Is44 => fdt.args = Wanted.args /\ (fdt.cppc = "soc" <=> hw.rms > 0)

LEMMA TreeInvStep == TypeInv /\ FlowInv /\ KeptInv /\ AskInv /\ TreeInv /\ [BootNext]_bootVars => TreeInv'
<1> SUFFICES ASSUME TypeInv, FlowInv, KeptInv, AskInv, TreeInv, [BootNext]_bootVars PROVE TreeInv'
  OBVIOUS
<1>0. hw \in BootBoards /\ cfg \in BootConfig /\ fdt \in BootTree
  BY DEF TypeInv, BootTypeOK
<1>1. CASE ConfigSteps
  <2>1. Hosted' \/ pc'[1] \in {"config", "lines", "efi", "images", "key", "hung", "load"}
    BY <1>1, NothingYet
  <2> QED
    BY <2>1 DEF TreeInv
<1>2. ASSUME NEW i \in Images, LoadImage(i) \/ VerifyImage(i)
      PROVE  TreeInv'
  <2>1. pc' = <<"hung", "">> \/ NextImage(i) \/ pc' = <<"verify", i>>
    BY <1>2, LoadCases, VerifyCases
  <2>2. pc'[1] \in {"hung", "load", "cli", "verify"}
    BY <2>1, AfterImage, GoesTo
  <2> QED
    BY <2>2 DEF TreeInv
<1>3. CASE cli_loop \/ TreeSteps \/ fill_info \/ HartSteps
  <2>1. /\ hw' = hw /\ cfg' = cfg /\ fresh' = fresh /\ applied' = applied /\ pc[1] \in Late
    BY <1>3, TreeCases, HartCases DEF Late
  <2>2. /\ (Hosted' <=> Hosted) /\ (Is44' <=> Is44) /\ Wanted' = Wanted /\ (Own' <=> Own) /\ WantedOver' = WantedOver
    BY <2>1, AskedSame
  <2> SUFFICES ASSUME ~Hosted, fdt'.bad = "none",
                      pc'[1] \in {"merge", "memory", "nodes", "props", "info", "wake", "gone"}
               PROVE  TreeInv'
    BY <2>2 DEF TreeInv
  <2>3. AsTaken /\ (Is44 => (cfg.op = "soc" <=> hw.rms > 0))
    BY <2>1 DEF AskInv
  <2>4. CASE cli_loop
    BY <2>4, GoesTo DEF cli_loop, Then
  <2>5. CASE load_dtbs
    <3>1. pc' = <<"merge", "">>
      BY <2>5, Zenon DEF load_dtbs, Then
    <3>2. PICK n : n = (IF Base.name = "null" THEN hw.builtin ELSE Base.size) - hw.pad
      OBVIOUS
    <3>3. \/ /\ Base.name = "null" \/ Base.size > 0
             /\ fdt' = [NoTree EXCEPT !.base = IF Base.name = "null" THEN "builtin" ELSE Base.name, !.used = n]
          \/ fdt' = [NoTree EXCEPT !.bad = "no_tree"]
      BY <2>5, <3>2, Zenon DEF load_dtbs
    <3>4. NoTree \in BootTree
      BY NoTreeTyped
    <3>5. fdt' # [NoTree EXCEPT !.bad = "no_tree"]
      BY <3>4 DEF BootTree
    <3>6. PICK b : b = IF Base.name = "null" THEN "builtin" ELSE Base.name
      OBVIOUS
    <3>7. /\ Base.name = "null" \/ Base.size > 0
          /\ fdt' = [NoTree EXCEPT !.base = b, !.used = n]
      BY <3>3, <3>5, <3>6, Zenon
    <3>8. fdt'.base = b /\ fdt'.over = "none"
      BY <3>7 DEF NoTree
    <3>9. b # "nothing"
      <4>1. Base.size > 0 => Base.name \in DOMAIN hw.files
        <5>1. pc[1] = "dtbs"
          BY <2>5, From DEF load_dtbs, At
        <5>2. Base.size \in {0, SizeOf(Base.name)}
          BY <5>1 DEF KeptInv, Base, Images
        <5> QED
          BY <5>2 DEF SizeOf
      <4>2. Base.size > 0 => Base.name # "nothing"
        BY <1>0, <4>1, BoardAssumption
      <4> QED
        BY <3>6, <3>7, <4>2
    <3>10. b = IF Own THEN Wanted.dtb ELSE "builtin"
      BY <2>3, <3>6 DEF AsTaken, Base, Own
    <3> QED
      BY <2>2, <3>1, <3>8, <3>9, <3>10, GoesTo DEF TreeInv
  <2>6. CASE merge_dtbs
    <3>1. pc' = <<"memory", "">> /\ pc[1] = "merge"
      BY <2>6, From DEF merge_dtbs, At, Then
    <3>2. PICK o : o = Over.name
      OBVIOUS
    <3>3. \/ ~(Over.addr # 0 /\ o \notin {"null", ""}) /\ fdt' = fdt
          \/ Over.addr # 0 /\ o \notin {"null", ""} /\ fdt' = [fdt EXCEPT !.over = o, !.used = @ + 1]
          \/ fdt' = Lost("overlay") \/ fdt' = [fdt EXCEPT !.bad = IF @ = "none" THEN "no_overlay" ELSE @]
      BY <2>6, <3>2 DEF merge_dtbs
    <3>4. /\ Lost("overlay").bad # "none" /\ [fdt EXCEPT !.bad = IF @ = "none" THEN "no_overlay" ELSE @].bad # "none"
      BY <1>0 DEF BootTree, Lost
    <3>5. \/ ~(Over.addr # 0 /\ o \notin {"null", ""}) /\ fdt' = fdt
          \/ Over.addr # 0 /\ o \notin {"null", ""} /\ fdt' = [fdt EXCEPT !.over = o, !.used = @ + 1]
      BY <3>3, <3>4
    <3>6. /\ fdt.bad = "none" /\ fdt'.base = fdt.base
          /\ fdt'.over = IF o \in {"null", ""} \/ Over.addr = 0 THEN fdt.over ELSE o
      BY <1>0, <3>5 DEF BootTree
    <3>7. o = WantedOver /\ Over.addr = Wanted.dtbo_addr
      BY <2>3, <3>2 DEF AsTaken, Over
    <3> QED
      BY <2>2, <3>1, <3>6, <3>7, GoesTo DEF TreeInv
  <2>7. CASE modify_memory
    <3>1. pc' = <<"nodes", "">> /\ pc[1] = "memory"
      BY <2>7, From DEF modify_memory, At, Then
    <3>2. fdt'.base = fdt.base /\ fdt'.over = fdt.over /\ fdt.bad = "none"
      BY <2>7, MemoryEdit
    <3> QED
      BY <2>2, <3>1, <3>2, GoesTo DEF TreeInv
  <2>8. CASE modify_nodes
    <3>1. pc[1] = "nodes" /\ (pc' = <<"info", "">> \/ pc' = <<"props", "">>)
      BY <2>8, From DEF modify_nodes, At, Then
    <3>2. fdt'.base = fdt.base /\ fdt'.over = fdt.over /\ fdt.bad = "none"
      BY <2>8, NodeEdits
    <3>3. fdt.base # "nothing"
      BY <3>1, <3>2 DEF TreeInv
    <3>7. fdt'.room =>
            /\ fdt'.initrd = (cfg.files["ramfs"].name # "null")
            /\ Is44 => fdt'.args = cfg.args /\ fdt'.cppc = cfg.op
      BY <2>8, <3>3, NodeEdits
    <3>8. pc'[1] \in {"props", "info"}
      BY <3>1, GoesTo
    <3>9. fdt'.room =>
            /\ fdt'.initrd = (Wanted.ramfs # "null")
            /\ Is44 => fdt'.args = Wanted.args /\ (fdt'.cppc = "soc" <=> hw.rms > 0)
      BY <2>3, <3>7 DEF AsTaken
    <3> QED
      BY <2>1, <2>2, <3>1, <3>2, <3>8, <3>9 DEF TreeInv
  <2>9. CASE modify_props
    <3>1. pc[1] = "props" /\ pc' = <<"info", "">>
      BY <2>9, From DEF modify_props, At, Then
    <3>2. fdt' = fdt \/ fdt' = Lost("truncated")
      BY <2>9 DEF modify_props, of_modify_prop
    <3>3. Lost("truncated").bad # "none"
      BY <1>0 DEF BootTree, Lost
    <3>4. fdt' = fdt
      BY <3>2, <3>3
    <3> QED
      BY <2>1, <2>2, <3>1, <3>4, GoesTo DEF TreeInv
  <2>10. CASE fill_info \/ HartSteps
    <3>1. fdt' = fdt /\ pc[1] \in {"info", "wake", "gone"} /\ pc'[1] \in {"wake", "gone"}
      BY <2>10, HartCases, From, GoesTo DEF fill_info, InfoFilled, At, Then
    <3> QED
      BY <2>1, <2>2, <3>1 DEF TreeInv
  <2> QED
    BY <1>3, <2>4, <2>5, <2>6, <2>7, <2>8, <2>9, <2>10 DEF TreeSteps
<1>4. CASE UNCHANGED bootVars
  <2>1. hw' = hw /\ cfg' = cfg /\ fresh' = fresh /\ applied' = applied /\ pc' = pc /\ fdt' = fdt
    BY <1>4 DEF bootVars
  <2> QED
    BY <2>1, AskedSame DEF TreeInv
<1> QED
  BY <1>1, <1>2, <1>3, <1>4, StepKinds DEF ConfigSteps

LEMMA TreeReported == TypeInv /\ FlowInv /\ TreeInv => TreeComplete
<1> SUFFICES ASSUME TypeInv, FlowInv, TreeInv, Booting, ~Hosted, fdt.bad = "none"
             PROVE  /\ fdt.base = IF Own THEN Wanted.dtb ELSE "builtin"
                    /\ fdt.over = IF WantedOver \in {"null", ""} \/ Wanted.dtbo_addr = 0 THEN "none" ELSE WantedOver
                    /\ fdt.room =>
                         /\ fdt.initrd = (Wanted.ramfs # "null")
                         /\ Is44 => fdt.args = Wanted.args /\ (fdt.cppc = "soc") = (hw.rms > 0)
  BY Zenon DEF TreeComplete, Own, WantedOver, Wanted
<1>1. pc[1] \in {"wake", "gone"}
  BY DEF Booting, FlowInv
<1>2. /\ fdt.base = IF Own THEN Wanted.dtb ELSE "builtin"
      /\ fdt.over = IF WantedOver \in {"null", ""} \/ Wanted.dtbo_addr = 0 THEN "none" ELSE WantedOver
  BY <1>1 DEF TreeInv
<1>3. fdt.room =>
        /\ fdt.initrd = (Wanted.ramfs # "null")
        /\ Is44 => fdt.args = Wanted.args /\ (fdt.cppc = "soc" <=> hw.rms > 0)
  BY <1>1 DEF TreeInv
<1>4. fdt.room /\ Is44 => (fdt.cppc = "soc") = (hw.rms > 0)
  BY <1>3
<1> QED
  BY <1>2, <1>3, <1>4, Zenon

LEMMA AskInit == BootInit => AskInv /\ TreeInv
<1> SUFFICES ASSUME BootInit PROVE AskInv /\ TreeInv
  OBVIOUS
<1>1. pc = <<"init", "">>
  BY DEF BootInit
<1>2. pc[1] = "init"
  BY <1>1
<1> QED
  BY <1>2 DEF AskInv, TreeInv, Late

\* The tree the harts get is the one that was asked for, whatever conf.ini and
\* the EFI variable say and in whatever order the lines come, unless it was
\* lost on the way or, for what is added last, found no room (handler_img, load_images, load_dtbs to modify_bootargs).
THEOREM TreeAsAsked == BootSpec => []TreeComplete
<1> DEFINE Inv == TypeInv /\ FlowInv /\ KeptInv /\ AskInv /\ TreeInv
<1>1. BootInit => Inv
  BY TypeInit, FlowInit, KeptInit, AskInit
<1>2. Inv /\ [BootNext]_bootVars => Inv'
  BY TypeStep, FlowStep, KeptStep, AskStep, TreeInvStep
<1>3. Inv => TreeComplete
  BY TreeReported
<1> QED
  BY <1>1, <1>2, <1>3, PTL DEF BootSpec

-----------------------------------------------------------------------------
\* What plat_main hands over is verified where it has to be, intact and
\* complete, and all harts get the same: on every board, with any conf.ini,
\* files, fuses and registers, for any number of harts.
THEOREM HandOver == BootSpec => []HandOverSound
  BY BootTypes, NothingUnverified, LoadedStaysIntact, TreeAsAsked, MemoryToldIsThere, AllLeaveTogether, PTL
     DEF HandOverSound
=============================================================================
