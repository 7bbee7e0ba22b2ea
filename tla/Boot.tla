-------------------------------- MODULE Boot --------------------------------
(***************************************************************************)
(* What plat_main of the sg2042 and sg2044 boards does: the configuration  *)
(* is put together from defaults, fuses, conf.ini and EFI variables, the   *)
(* images are loaded (and verified in secure mode), the device tree is    *)
(* completed, and every hart is sent to the firmware.                      *)
(*                                                                         *)
(* Memory is a row of cells; an image of n cells loaded at a covers a ..   *)
(* a + n - 1.  Sizes of memory nodes are in GB.  A board is a record of    *)
(* everything plat_main finds: the files and their sizes, conf.ini, what   *)
(* lies in memory where conf.ini goes, the fuses, the EFI variable and the *)
(* DRAM registers.                                                         *)
(***************************************************************************)
EXTENDS Integers, Sequences, FiniteSets

CONSTANTS
    BootBoards,     \* the boards
    FileNames,      \* names of files, and of what is made in memory
    Harts,          \* the harts, 0 is the one that boots
    Cells,          \* size of the memory
    Space,          \* GB that 64 bits can count: 2^34
    TreeRoom        \* cells a tree grows by when it is moved

ASSUME BootAssumption ==
    /\ Harts = 0 .. Cardinality(Harts) - 1 /\ IsFiniteSet(Harts) /\ 0 \in Harts
    /\ Cells \in Nat /\ TreeRoom \in Nat /\ Space \in Nat /\ Space > 128
    /\ {"fw", "efi", "null", "", "evb.dtbo", "board.dtb", "fdt", "builtin", "nothing", "none"} \subseteq FileNames

Images == {"sbi", "kernel", "dtb", "dtbo", "ramfs"}

\* A line of conf.ini: section, field and value; strtoul makes a number of an
\* address, whatever is written there.
ConfLines ==
    Seq((STRING \X {"name"} \X FileNames) \cup (STRING \X {"addr"} \X Nat)
        \cup (STRING \X (STRING \ {"name", "addr"}) \X STRING))

\* What the hardware and the media can hold: any sizes, any lines, any fuses
\* ("nothing" stands for a tree that was lost, and names no file).
ASSUME BoardAssumption == \A b \in BootBoards :
    /\ b.plat \in {"sg2042", "sg2044"} /\ b.mode \in {"cpu", "pcie"}
    /\ b.rms \in Nat /\ b.builtin \in Nat /\ b.pad \in Nat
    /\ \A f \in DOMAIN b.files : f # "nothing" /\ b.files[f] \in Nat
    /\ b.conf.lines \in ConfLines /\ b.stale.lines \in ConfLines
    /\ b.efuse.cap \in 0 .. 3 /\ b.efuse.channels \in 0 .. 3 /\ b.efuse.corner \in Nat
    /\ b.efuse.found \in BOOLEAN /\ b.efuse.secure \in BOOLEAN
    /\ \A i \in 1 .. 2, j \in 1 .. 4 : b.ddr[i][j] \in 3 .. 10 \cup {41}

VARIABLES
    hw,             \* the board
    pc,             \* where plat_main is, "hung" if it stopped
    cfg,            \* struct config
    fresh,          \* conf.ini that is applied: "none", "loaded" or "stale"
    applied,        \* how many of its lines handler_img has had
    memory,         \* what is in every cell
    key,            \* the public key has been accepted
    verified,       \* images whose signature was good
    fdt,            \* the tree at cfg.dtb.addr
    info,           \* dynamic_info is complete
    woken,          \* harts that were sent a function
    jumped          \* what harts jumped with

bootVars == <<hw, pc, cfg, fresh, applied, memory, key, verified, fdt, info, woken, jumped>>

NoTree == [base |-> "nothing", used |-> 0, over |-> "none", nodes |-> {}, cppc |-> "none",
           initrd |-> FALSE, args |-> FALSE, room |-> TRUE, bad |-> "none"]
Is44 == hw.plat = "sg2044"
SizeOf(f) == IF f \in DOMAIN hw.files THEN hw.files[f] ELSE 0
Put(f, a, n) == [c \in 0 .. Cells - 1 |-> IF c \in a .. a + n - 1 THEN <<f, c - a>> ELSE memory[c]]
Intact(f, a, n) == \A c \in 0 .. n - 1 : a + c < Cells /\ memory[a + c] = <<f, c>>

\* A step of plat_main.
At(p) == pc = <<p, "">>
Then(p) == pc' = <<p, "">>

-----------------------------------------------------------------------------
(* Configuration.                                                          *)

File(n, a) == [name |-> n, addr |-> a, size |-> 0]

\* config_init: names and addresses.  The firmware of sg2042 is at address 0.
DefaultFiles == [i \in Images |->
    CASE i = "sbi" -> File("fw", IF Is44 THEN 1 ELSE 0)
      [] i = "kernel" -> File("efi", 3)
      [] i = "dtb" -> File("null", 6)
      [] i = "dtbo" -> File("evb.dtbo", 10)
      [] i = "ramfs" -> File("null", IF Is44 THEN 0 ELSE 12)]

\* get_info_in_efuse: secure boot is looked at only when the second fuse block
\* is there; a table index that stands for nothing gives no DRAM.
DramOf(e) ==
    CASE ~e.found -> 0
      [] e.found /\ (e.sn \/ e.valid \in {0, 3}) -> 16 * 8
      [] OTHER -> (<<16, 8, 0, 0>>[e.cap + 1]) * (<<8, 4, 0, 0>>[e.channels + 1])
CornerOf(e) == IF e.found /\ e.corner < 5 THEN e.corner ELSE 0

\* get_op_point, condition_match: the first point whose condition holds.
OpPoints == <<
    [name |-> "cpu",     modes |-> {"cpu"},               corners |-> 0 .. 3],
    [name |-> "cpu_ss",  modes |-> {"cpu"},               corners |-> {4}],
    [name |-> "soc",     modes |-> {"soc", "pcie"},        corners |-> 0 .. 4],
    [name |-> "default", modes |-> {"cpu", "soc", "pcie"}, corners |-> 0 .. 4] >>
FittingPoints(corner, mode) ==
    {i \in 1 .. Len(OpPoints) : mode \in OpPoints[i].modes /\ corner \in OpPoints[i].corners}

get_op_point(corner, mode) ==
    LET fits == FittingPoints(corner, mode) IN OpPoints[CHOOSE i \in fits : \A j \in fits : i <= j].name

\* build_board_info of sg2042: a board that is known has its own device tree.
build_board_info(f) == IF ~Is44 /\ hw.known THEN [f EXCEPT !["dtb"].name = "board.dtb"] ELSE f

config_init ==
    /\ At("init")
    /\ cfg' = [files   |-> build_board_info(DefaultFiles),
               mode    |-> IF Is44 THEN hw.mode ELSE "cpu",
               secure  |-> Is44 /\ hw.efuse.found /\ hw.efuse.secure,
               dram    |-> IF Is44 THEN DramOf(hw.efuse) ELSE 0,
               corner  |-> IF Is44 THEN CornerOf(hw.efuse) ELSE 0,
               reserved |-> 0, op |-> "none", args |-> FALSE, mac |-> FALSE]
    /\ Then(IF Is44 /\ hw.mode = "pcie" THEN "info" ELSE "config")
    /\ UNCHANGED <<hw, fresh, applied, memory, key, verified, fdt, info, woken, jumped>>

\* What handler_img makes of a line.
Cmdline(line) == line[1] = "boot" /\ line[2] = "cmdline"
Apply(c, line) ==
    CASE line[1] \in Images /\ line[2] = "name" -> [c EXCEPT !.files[line[1]].name = line[3]]
      [] line[1] \in Images /\ line[2] = "addr" -> [c EXCEPT !.files[line[1]].addr = line[3]]
      [] Cmdline(line) -> [c EXCEPT !.args = TRUE]
      [] line[1] = "mac-address" /\ line[2] \in {"mac0", "mac1"} /\ ~Is44 -> [c EXCEPT !.mac = TRUE]
      [] OTHER -> c

\* parse_config_file goes on only if some device says it has the file.
ConfigFound == SizeOf("conf.ini") > 0

\* The result of bdm_load is not looked at: after a failing read sg2044 parses
\* what is in memory, sg2042 a fresh buffer.
parse_config_file ==
    /\ At("config")
    /\ \/ /\ ~ConfigFound \/ ~hw.conf.valid
          /\ UNCHANGED fresh
       \/ ConfigFound /\ hw.conf.valid /\ fresh' = "loaded"
       \/ ConfigFound /\ fresh' = IF Is44 /\ hw.stale.valid THEN "stale" ELSE fresh
    /\ Then("lines")
    /\ UNCHANGED <<hw, cfg, applied, memory, key, verified, fdt, info, woken, jumped>>

\* ini_parse_string: handler_img is called for one line after the other; what
\* it returns is not looked at.
FileLines == CASE fresh = "none" -> <<>> [] fresh = "loaded" -> hw.conf.lines [] fresh = "stale" -> hw.stale.lines

handler_img ==
    /\ At("lines") /\ applied < Len(FileLines)
    /\ cfg' = Apply(cfg, FileLines[applied + 1]) /\ applied' = applied + 1
    /\ UNCHANGED <<hw, pc, fresh, memory, key, verified, fdt, info, woken, jumped>>

config_parsed ==
    /\ At("lines") /\ applied = Len(FileLines)
    /\ Then(IF Is44 THEN "efi" ELSE "images")
    /\ UNCHANGED <<hw, cfg, fresh, applied, memory, key, verified, fdt, info, woken, jumped>>

\* parse_efi_variable: memory reserved for the TPU selects the SoC mode; then
\* the operating point is chosen.
parse_efi_variable ==
    /\ At("efi")
    /\ LET mode == IF hw.rms > 0 THEN "soc" ELSE cfg.mode
       IN  cfg' = [cfg EXCEPT !.reserved = hw.rms, !.mode = mode, !.op = get_op_point(cfg.corner, mode)]
    /\ Then("images")
    /\ UNCHANGED <<hw, fresh, applied, memory, key, verified, fdt, info, woken, jumped>>

-----------------------------------------------------------------------------
(* Images.                                                                 *)

\* file_is_dtbo goes by the extension.
file_is_dtbo(n) == n \in hw.overlays

\* The first lines of load_images: an overlay that is named as tree takes the
\* place of the overlay, and on sg2042 a tree of one's own has no overlay.
TreesOf(f) ==
    CASE file_is_dtbo(f["dtb"].name) -> [f EXCEPT !["dtbo"].name = f["dtb"].name, !["dtb"].name = "null"]
      [] ~file_is_dtbo(f["dtb"].name) /\ f["dtb"].name # "null" /\ ~Is44 -> [f EXCEPT !["dtbo"].name = "null"]
      [] OTHER -> f

Order == IF Is44 THEN <<"dtb", "dtbo", "sbi", "kernel", "ramfs">> ELSE <<"sbi", "kernel", "dtb", "dtbo", "ramfs">>
FirstImage == pc' = <<"load", Order[1]>>
NextImage(i) ==
    \/ i = Order[5] /\ Then("cli")
    \/ \E k \in 1 .. 4 : i = Order[k] /\ pc' = <<"load", Order[k + 1]>>

load_images ==
    /\ At("images")
    /\ cfg' = [cfg EXCEPT !.files = TreesOf(@)]
    /\ IF cfg.secure THEN Then("key") ELSE FirstImage
    /\ UNCHANGED <<hw, fresh, applied, memory, key, verified, fdt, info, woken, jumped>>

\* The public key is loaded and its digest compared; else the boot stops.
invoke_key ==
    /\ At("key")
    /\ \/ SizeOf("public_key.der") > 0 /\ hw.keyok /\ key' = TRUE /\ FirstImage
       \/ key' = key /\ Then("hung")
    /\ UNCHANGED <<hw, cfg, fresh, applied, memory, verified, fdt, info, woken, jumped>>

\* load skips what has no name, and on sg2044 no address.
Skipped(f) == f.name \in {"null", ""} \/ (Is44 /\ f.addr = 0)

\* An image that cannot be loaded stops the boot.
LoadFailed(i) == Then("hung")

LoadImage(i) ==
    /\ pc = <<"load", i>>
    /\ LET f == cfg.files[i]
           n == SizeOf(f.name)
       IN  \/ /\ Skipped(f)
              /\ NextImage(i) /\ UNCHANGED <<memory, cfg>>
           \/ /\ ~Skipped(f)
              /\ LoadFailed(i) /\ UNCHANGED <<memory, cfg>>
           \/ /\ ~Skipped(f) /\ n > 0
              /\ memory' = Put(f.name, f.addr, n)
              /\ cfg' = [cfg EXCEPT !.files[i].size = n]
              /\ IF cfg.secure THEN pc' = <<"verify", i>> ELSE NextImage(i)
    /\ UNCHANGED <<hw, fresh, applied, key, verified, fdt, info, woken, jumped>>

\* Mutant: a wrong signature is reported and the boot goes on.
GoodSignatureOr(i) == NextImage(i) /\ verified' = IF hw.good[i] THEN verified \cup {i} ELSE verified

\* The signature is loaded and verified, or the boot stops.
GoodSignature(i) == hw.good[i] /\ NextImage(i) /\ verified' = verified \cup {i}

VerifyImage(i) ==
    /\ pc = <<"verify", i>>
    /\ GoodSignature(i) \/ (Then("hung") /\ UNCHANGED verified)
    /\ UNCHANGED <<hw, cfg, fresh, applied, memory, key, fdt, info, woken, jumped>>

cli_loop == At("cli") /\ Then("dtbs") /\ UNCHANGED <<hw, cfg, fresh, applied, memory, key, verified, fdt, info, woken, jumped>>

-----------------------------------------------------------------------------
(* The device tree.                                                       *)

Base == cfg.files["dtb"]
Over == cfg.files["dtbo"]
Lost(why) == [fdt EXCEPT !.base = "nothing", !.bad = why]

\* load_dtbs: the tree that was loaded, or the one built in, is moved to its
\* place with room to grow.  The room is computed from what lies where the
\* overlay would be, also (sg2044) when none was loaded.
load_dtbs ==
    /\ At("dtbs")
    /\ LET n == IF Base.name = "null" THEN hw.builtin ELSE Base.size
           over == IF Skipped(Over) THEN 0 ELSE Over.size
           there == Base.name = "null" \/ (Base.size > 0 /\ Intact(Base.name, Base.addr, n))
           moved == [NoTree EXCEPT !.base = IF Base.name = "null" THEN "builtin" ELSE Base.name,
                                   !.used = n - hw.pad]
       IN  \/ /\ there
              /\ fdt' = moved /\ memory' = Put("fdt", Base.addr, n + over + TreeRoom)
           \/ /\ ~there \/ (Is44 /\ Skipped(Over))
              /\ fdt' = [NoTree EXCEPT !.bad = "no_tree"] /\ UNCHANGED memory
    /\ Then("merge")
    /\ UNCHANGED <<hw, cfg, fresh, applied, key, verified, info, woken, jumped>>

\* merge_dtbs: an overlay that is none is refused; one that fails half way
\* costs the tree its magic.
merge_dtbs ==
    /\ At("merge")
    /\ LET given == Over.addr # 0 /\ Over.name \notin {"null", ""}
           able == fdt.base # "nothing" /\ Intact(Over.name, Over.addr, Over.size)
       IN  \/ ~given /\ UNCHANGED fdt
           \/ given /\ able /\ fdt' \in {[fdt EXCEPT !.over = Over.name, !.used = @ + 1], Lost("overlay")}
           \/ given /\ ~able /\ fdt' = [fdt EXCEPT !.bad = IF @ = "none" THEN "no_overlay" ELSE @]
    /\ Then("memory")
    /\ UNCHANGED <<hw, cfg, fresh, applied, memory, key, verified, info, woken, jumped>>

\* get_ddr_size and build_ddr_info: channels of a chip follow one another.
GB == <<128, 64, 32, 16, 8, 4, 2, 1>>
get_ddr_size(code) == IF code = 41 THEN 0 ELSE GB[code - 2]
ChipSpace == 512
DdrSize(i, j) == get_ddr_size(hw.ddr[i][j])
Below(i, j, k) == IF k < j THEN DdrSize(i, k) ELSE 0
DdrBase(i, j) == ChipSpace * (i - 1) + Below(i, j, 1) + Below(i, j, 2) + Below(i, j, 3)
Chips == IF hw.multi THEN 1 .. 2 ELSE 1 .. 1

Hole == [start |-> 3, size |-> 1]

\* What is left of a channel that the hole lies in.
Split(s, n) ==
    {[start |-> s, size |-> Hole.start - s],
     [start |-> Hole.start + Hole.size, size |-> s + n - Hole.start - Hole.size]}

\* modify_ddr_node: the channels up to the first empty one; only the first
\* channel of the first chip is looked at for the hole.
DdrNodes ==
    UNION {LET s == DdrBase(i, j) n == DdrSize(i, j)
           IN  CASE \E k \in 1 .. j : DdrSize(i, k) = 0 -> {}
                 [] OTHER -> {m \in IF i = 1 /\ j = 1 /\ Hole.start >= s /\ Hole.start + Hole.size <= s + n
                                      THEN Split(s, n) ELSE {[start |-> s, size |-> n]} : m.size > 0} :
           i \in Chips, j \in 1 .. 4}

\* modify_memory_node of sg2044; a size has 64 bits.
DramNodes == {[start |-> 2, size |-> (cfg.dram - cfg.reserved) % Space]}

\* An edit that finds no room is reported, and modify_dtb goes on with the next.
NoRoom(t) == [t EXCEPT !.room = FALSE]

\* Nodes are added from the lowest up, and names of higher ones are no shorter:
\* where one finds no room, none above it does.
modify_memory ==
    /\ At("memory")
    /\ LET all == IF Is44 THEN DramNodes ELSE DdrNodes
           grown == [fdt EXCEPT !.used = @ + 1]
       IN  \/ fdt.base = "nothing" /\ fdt' = fdt
           \/ fdt.base # "nothing" /\ fdt' = [grown EXCEPT !.nodes = all]
           \/ fdt.base # "nothing" /\ \E n \in all :
                 fdt' = [NoRoom(grown) EXCEPT !.nodes = {m \in all : m.start < n.start}]
    /\ Then("nodes")
    /\ UNCHANGED <<hw, cfg, fresh, applied, memory, key, verified, info, woken, jumped>>

\* What the last steps of modify_dtb add: the operating point, the ramfs
\* (sg2042: in bootargs, unless those that are there are too long) and the
\* command line.
add_cppc_node(t) == IF Is44 THEN {[t EXCEPT !.cppc = cfg.op], NoRoom(t)} ELSE {t}
modify_initramfs(t) ==
    LET given == cfg.files["ramfs"].name # "null"
    IN  {[t EXCEPT !.initrd = given]} \cup IF given THEN {NoRoom(t)} ELSE {}
modify_bootargs(t) ==
    IF Is44 THEN {[t EXCEPT !.args = cfg.args]} \cup IF cfg.args THEN {NoRoom(t)} ELSE {} ELSE {t}

modify_nodes ==
    /\ At("nodes")
    /\ \/ fdt.base = "nothing" /\ fdt' = fdt
       \/ /\ fdt.base # "nothing"
          /\ \E t \in add_cppc_node([fdt EXCEPT !.used = @ + 1]) :
                \E u \in modify_initramfs(t) : fdt' \in modify_bootargs(u)
    /\ Then(IF Is44 THEN "info" ELSE "props")
    /\ UNCHANGED <<hw, cfg, fresh, applied, memory, key, verified, info, woken, jumped>>

\* of_modify_prop works on a copy of cfg.dtb.size bytes, the size of the file.
\* What the tree has grown by since is not in the copy: either the node is not
\* found in it, or the copy is packed and written back over the tree.
of_modify_prop ==
    IF fdt.base # "nothing" /\ Base.size > 0 /\ Base.size < fdt.used THEN {fdt, Lost("truncated")} ELSE {fdt}

\* modify_cpu_node, for clusters that are off, and modify_eth_node.
modify_props ==
    /\ At("props")
    /\ fdt' \in IF hw.off \/ cfg.mac THEN of_modify_prop ELSE {fdt}
    /\ Then("info")
    /\ UNCHANGED <<hw, cfg, fresh, applied, memory, key, verified, info, woken, jumped>>

-----------------------------------------------------------------------------
(* boot_next_img                                                           *)

InfoFilled == At("info") /\ info' = TRUE /\ Then("wake")

fill_info == InfoFilled /\ UNCHANGED <<hw, cfg, fresh, applied, memory, key, verified, fdt, woken, jumped>>

\* Mutant: the last hart is left out.
ToWakeShort == Harts \ {0, Cardinality(Harts) - 1}

ToWake == Harts \ {0}

wake_up(h) ==
    /\ At("wake") /\ h \in ToWake \ woken /\ \A g \in ToWake \ woken : h <= g
    /\ woken' = woken \cup {h}
    /\ UNCHANGED <<hw, pc, cfg, fresh, applied, memory, key, verified, fdt, info, jumped>>

Jump(h) ==
    jumped' = jumped \cup {[hart |-> h, to |-> cfg.files["sbi"].addr, dtb |-> Base.addr, info |-> info, fdt |-> fdt]}
Jumped == {j.hart : j \in jumped}

secondary_core_fun(h) ==
    /\ h \in woken \ Jumped
    /\ Jump(h)
    /\ UNCHANGED <<hw, pc, cfg, fresh, applied, memory, key, verified, fdt, info, woken>>

jump_to ==
    /\ At("wake") /\ ToWake \subseteq woken
    /\ Jump(0) /\ Then("gone")
    /\ UNCHANGED <<hw, cfg, fresh, applied, memory, key, verified, fdt, info, woken>>

-----------------------------------------------------------------------------
NoConfig == [files |-> [i \in Images |-> File("null", 0)], mode |-> "cpu", secure |-> FALSE, dram |-> 0, corner |-> 0,
             reserved |-> 0, op |-> "none", args |-> FALSE, mac |-> FALSE]

BootInit ==
    /\ hw \in BootBoards
    /\ pc = <<"init", "">> /\ cfg = NoConfig /\ fresh = "none" /\ applied = 0
    /\ memory = [c \in 0 .. Cells - 1 |-> <<"", 0>>]
    /\ key = FALSE /\ verified = {} /\ fdt = NoTree /\ info = FALSE
    /\ woken = {} /\ jumped = {}

PlatStep ==
    \/ config_init \/ parse_config_file \/ handler_img \/ config_parsed \/ parse_efi_variable \/ load_images \/ invoke_key
    \/ \E i \in Images : LoadImage(i) \/ VerifyImage(i)
    \/ cli_loop \/ load_dtbs \/ merge_dtbs \/ modify_memory \/ modify_nodes \/ modify_props \/ fill_info
    \/ (\E h \in Harts : wake_up(h)) \/ jump_to

BootNext == PlatStep \/ \E h \in Harts : secondary_core_fun(h)

BootFair == WF_bootVars(PlatStep) /\ \A h \in Harts : WF_bootVars(secondary_core_fun(h))
BootSpec == BootInit /\ [][BootNext]_bootVars /\ BootFair

-----------------------------------------------------------------------------
BootConfig == [files : [Images -> [name : FileNames, addr : Nat, size : Nat]], mode : {"cpu", "soc", "pcie"},
               secure : BOOLEAN, dram : 0 .. 128, corner : 0 .. 4, reserved : Nat,
               op : {"none", "cpu", "cpu_ss", "soc"}, args : BOOLEAN, mac : BOOLEAN]

BootTree == [base : FileNames, used : Int, over : FileNames, nodes : SUBSET [start : Int, size : Int],
             cppc : {"none", "cpu", "cpu_ss", "soc"}, initrd : BOOLEAN, args : BOOLEAN, room : BOOLEAN,
             bad : {"none", "no_tree", "no_overlay", "overlay", "truncated"}]

BootTypeOK ==
    /\ hw \in BootBoards /\ cfg \in BootConfig /\ fresh \in {"none", "loaded", "stale"} /\ applied \in 0 .. Len(FileLines)
    /\ memory \in [0 .. Cells - 1 -> FileNames \X Nat]
    /\ key \in BOOLEAN /\ verified \subseteq Images /\ info \in BOOLEAN
    /\ woken \subseteq Harts /\ Jumped \subseteq Harts
    /\ fdt \in BootTree

Loaded == {i \in Images : ~Skipped(cfg.files[i])}
Booting == woken # {} \/ pc[1] \in {"wake", "gone"}
Hosted == Is44 /\ hw.mode = "pcie"

\* In secure mode no hart leaves unless the public key and the signature of
\* every image that was loaded were good; any failure on the way stops.
SecureMeansVerified == Booting /\ cfg.secure /\ ~Hosted => key /\ Loaded \subseteq verified

\* The cells an image or, with its room, the tree takes.
Extent(i) ==
    LET f == cfg.files[i]
        n == IF i = "dtb" THEN (IF f.name = "null" THEN hw.builtin ELSE f.size) + cfg.files["dtbo"].size + TreeRoom ELSE f.size
    IN  f.addr .. f.addr + n - 1
Apart ==
    /\ \A i \in Loaded \cup {"dtb"} : Extent(i) \subseteq 0 .. Cells - 1
    /\ \A i, j \in Loaded \cup {"dtb"} : i # j => Extent(i) \cap Extent(j) = {}

\* What the harts are sent to is there: the firmware, the kernel and the ramfs
\* that the configuration names are in memory as they are on the medium,
\* whichever image was loaded last and wherever the tree went, unless the
\* configuration places images on one another.
HandedOverIntact ==
    Booting /\ ~Hosted /\ Apart
      => \A i \in Loaded \ {"dtb", "dtbo"} : SizeOf(cfg.files[i].name) > 0
             /\ Intact(cfg.files[i].name, cfg.files[i].addr, SizeOf(cfg.files[i].name))

\* The last of the first n lines that sets a field, or the default.
LastLine(n, i, f, d) ==
    LET at == {k \in 1 .. n : FileLines[k][1] = i /\ FileLines[k][2] = f}
    IN  IF at = {} THEN d ELSE FileLines[CHOOSE k \in at : \A m \in at : m <= k][3]

\* What n lines of conf.ini ask for.
Configured(n) ==
    [dtb |-> LastLine(n, "dtb", "name", IF ~Is44 /\ hw.known THEN "board.dtb" ELSE "null"),
     dtbo |-> LastLine(n, "dtbo", "name", "evb.dtbo"),
     dtbo_addr |-> LastLine(n, "dtbo", "addr", 10),
     ramfs |-> LastLine(n, "ramfs", "name", "null"),
     args |-> \E k \in 1 .. n : Cmdline(FileLines[k])]

\* The tree the harts get is the one that was asked for: base and overlay as
\* the configuration says (an overlay given as tree goes on the tree built in;
\* sg2042 puts none on a tree of its own; one with address 0 is none), the
\* operating point of the mode the EFI variable selects, ramfs and command
\* line; unless it was lost on the way, or an edit found no room, which costs
\* the last three only.
TreeComplete ==
    Booting /\ ~Hosted /\ fdt.bad = "none" =>
      LET c == Configured(Len(FileLines))
          own == c.dtb # "null" /\ c.dtb \notin hw.overlays
          over == IF c.dtb \in hw.overlays THEN c.dtb ELSE IF own /\ ~Is44 THEN "null" ELSE c.dtbo
      IN  /\ fdt.base = IF own THEN c.dtb ELSE "builtin"
          /\ fdt.over = IF over \in {"null", ""} \/ c.dtbo_addr = 0 THEN "none" ELSE over
          /\ fdt.room =>
               /\ fdt.initrd = (c.ramfs # "null")
               /\ Is44 => fdt.args = c.args /\ (fdt.cppc = "soc") = (hw.rms > 0)

\* The memory the operating system is told of: nodes do not overlap and lie in
\* DRAM that is there; the hole of the PCIe switch is left out when the first
\* channel reaches behind it; and nothing is left out unless an edit found no
\* room.  (More reserved memory than DRAM wraps around.)
Covers(m, g) == m.start <= g /\ g < m.start + m.size
MemoryHonest ==
    Booting /\ ~Hosted /\ fdt.base # "nothing" =>
      IF Is44
        THEN hw.rms <= cfg.dram => \A m \in fdt.nodes : m.start = 2 /\ m.size = cfg.dram - hw.rms
        ELSE /\ \A m, n \in fdt.nodes : m # n => m.start + m.size <= n.start \/ n.start + n.size <= m.start
             /\ \A i \in Chips, j \in 1 .. 4 : (\A k \in 1 .. j : DdrSize(i, k) > 0) =>
                  \A g \in DdrBase(i, j) .. DdrBase(i, j) + DdrSize(i, j) - 1 :
                      /\ (\E m \in fdt.nodes : Covers(m, g)) => g # Hole.start \/ DdrSize(1, 1) < 4
                      /\ fdt.room /\ (g # Hole.start \/ DdrSize(1, 1) < 4) => \E m \in fdt.nodes : Covers(m, g)

\* Harts leave for the same firmware with the same, final tree, and only when
\* dynamic_info is filled in, in whatever order they wake.
HartsTogether ==
    \A j \in jumped : j.info /\ j.to = cfg.files["sbi"].addr /\ j.dtb = Base.addr /\ j.fdt = fdt

\* What plat_main hands over: images that were verified where they have to be,
\* intact and complete, to harts that all get the same.
HandOverSound ==
    /\ BootTypeOK /\ SecureMeansVerified /\ HandedOverIntact /\ TreeComplete
    /\ MemoryHonest /\ HartsTogether

\* of_modify_prop keeps the tree: resize_dtb is there to keep cfg.dtb.size.
TreeKept == fdt.bad # "truncated"

\* The boot stops where it reports a failure, or all harts leave.
BootEnds == <>(pc[1] = "hung" \/ Jumped = Harts)
=============================================================================
