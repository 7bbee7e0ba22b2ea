------------------------------- MODULE MCBoot -------------------------------
(***************************************************************************)
(* The boot on small boards.  A behaviour is one of its parts: the walk    *)
(* over the device tree with interrupts, the devices files come from, the  *)
(* boot flow of the sg2042 and sg2044, the trees of the bm1690's cores, or *)
(* the fuses.                                                              *)
(***************************************************************************)
EXTENDS Devices, BootDev, Boot, TpDtb, Efuse

VARIABLE part       \* which part runs

vars == <<part, devVars, bdVars, bootVars, tpVars, efVars>>

Init ==
    /\ part \in {"devices", "files", "flow", "cores", "fuses"}
    /\ DevInit /\ BdInit /\ BootInit /\ TpInit /\ EfInit
    /\ part # "devices" => tree = CHOOSE t \in Trees : TRUE
    /\ part # "files" => board = CHOOSE b \in Boards : TRUE
    /\ part # "flow" => hw = CHOOSE b \in BootBoards : TRUE
    /\ part # "cores" => lacks = {}

DevDoes(A) == part = "devices" /\ A /\ UNCHANGED <<part, bdVars, bootVars, tpVars, efVars>>
BdDoes(A) == part = "files" /\ A /\ UNCHANGED <<part, devVars, bootVars, tpVars, efVars>>
FlowDoes(A) == part = "flow" /\ A /\ UNCHANGED <<part, devVars, bdVars, tpVars, efVars>>
TpDoes(A) == part = "cores" /\ A /\ UNCHANGED <<part, devVars, bdVars, bootVars, efVars>>
EfDoes(A) == part = "fuses" /\ A /\ UNCHANGED <<part, devVars, bdVars, bootVars, tpVars>>

Next == DevDoes(DevNext) \/ BdDoes(BdNext) \/ FlowDoes(BootNext) \/ TpDoes(TpNext) \/ EfDoes(EfNext)

Spec ==
    /\ Init /\ [][Next]_vars
    /\ WF_vars(DevDoes(platform_probe)) /\ WF_vars(DevDoes(irq_handler))
    /\ WF_vars(FlowDoes(PlatStep)) /\ \A h \in Harts : WF_vars(FlowDoes(secondary_core_fun(h)))
    /\ \A c \in TpCores : WF_vars(TpDoes(TpStep(c)))
    /\ WF_vars(EfDoes(Driver)) /\ WF_vars(EfDoes(Controller))

\* plat_main of sg2042 and sg2044 stops where it reports a failure, or all
\* harts leave for the firmware (BootEnds).
AllHartsLeave == part = "flow" => BootEnds

\* Every core of the bm1690 comes out of modify_tpu_dtb (TpEnds).
AllCoresLeave == part = "cores" => TpEnds

\* platform_probe reaches the end of the tree, interrupts or not (WalkEnds).
TreeWalked == part = "devices" => WalkEnds

\* Devices are probed once and interrupts reach their handler (platform_probe,
\* irq_handler); cores have devices and memory of their own (modify_tpu_dtb).
DevicesSound == ProbingSound /\ CoresApart

\* Booting gets on: files come from the best device that has them, the tree is
\* walked to its end, interrupts are handled, harts and cores leave, efuse
\* calls return.
BootCompletes ==
    /\ BestDevice /\ TreeWalked /\ RaisedIsHandled
    /\ AllHartsLeave /\ AllCoresLeave /\ EfReturns

-----------------------------------------------------------------------------
(* Device trees.                                                           *)
Node(c, i) == [compat |-> c, reg |-> "good", irq |-> i, stdio |-> (c # {"uart"})]
P == Node({"plic"}, <<>>)
SomeTrees == {
 <<P, Node({"mtli"}, <<1, 1>>), P, Node({"mtli"}, <<3, 1>>)>>,
 <<Node({"mtli"}, <<2, 1>>), P, Node({"mtli"}, <<2, 1>>), Node({"mtli"}, <<2, 1>>)>>,
 <<P, Node({"mtli"}, <<1, 1>>), Node({"mtli", "other"}, <<1, 1>>), Node({"mtli"}, <<1, 2>>)>>,
 <<Node({"uart", "other"}, <<>>), [P EXCEPT !.reg = "bad"], Node({"mtli"}, <<2, 1>>), Node({"uart"}, <<>>), Node({"none"}, <<>>)>>}
DriverOrder == <<"plic", "mtli", "uart", "other">>

-----------------------------------------------------------------------------
(* Disks and flashes.                                                      *)
F(a, b) == [f \in Files |-> IF f = Config THEN a ELSE b]
SomeBoards == {
 [disks |-> <<[alias |-> "sd0", fat |-> TRUE, files |-> F(2, 3)]>>,
  mtds |-> <<[alias |-> "flash0", boot |-> TRUE, cfg |-> 1, files |-> F(0, 4)], [alias |-> "flash1", boot |-> FALSE, cfg |-> 0, files |-> F(0, 0)]>>],
 [disks |-> <<[alias |-> "", fat |-> FALSE, files |-> F(0, 0)], [alias |-> "", fat |-> TRUE, files |-> F(1, 2)], [alias |-> "", fat |-> TRUE, files |-> F(0, 1)]>>,
  mtds |-> <<[alias |-> "flash", boot |-> TRUE, cfg |-> -1, files |-> F(3, 1)]>>]}

-----------------------------------------------------------------------------
(* Boards.                                                                 *)
Conf(l) == [valid |-> TRUE, lines |-> l]
NoConf == [valid |-> FALSE, lines |-> <<>>]
SomeConfs == {NoConf, Conf(<<<<"dtb", "name", "own.dtb">>, <<"ramfs", "name", "initrd">>, <<"ramfs", "addr", 14>>>>),
  Conf(<<<<"dtb", "name", "other.dtbo">>, <<"boot", "cmdline", "x">>>>),
  Conf(<<<<"dtb", "name", "">>>>), Conf(<<<<"dtbo", "name", "">>>>), Conf(<<<<"dtbo", "addr", 0>>, <<"mac-address", "mac0", "x">>>>), Conf(<<<<"kernel", "addr", 5>>, <<"kernel", "name", "big">>, <<"kernel", "addr", 4>>>>)}
SomeFiles == [f \in {"fw", "efi", "board.dtb", "evb.dtbo", "own.dtb", "other.dtbo", "initrd", "big", "conf.ini", "public_key.der"} |-> IF f = "big" THEN 3 ELSE IF f \in {"efi", "fw"} THEN 2 ELSE 1]
SomeNames == {"fw", "efi", "null", "", "evb.dtbo", "board.dtb", "fdt", "builtin", "nothing", "none",
  "own.dtb", "other.dtbo", "initrd", "big"}
Fuses == {[found |-> FALSE, sn |-> FALSE, valid |-> 1, cap |-> 0, channels |-> 0, corner |-> 4, secure |-> TRUE],
 [found |-> TRUE, sn |-> FALSE, valid |-> 1, cap |-> 1, channels |-> 1, corner |-> 4, secure |-> TRUE],
 [found |-> TRUE, sn |-> TRUE, valid |-> 2, cap |-> 2, channels |-> 1, corner |-> 9, secure |-> FALSE]}
Ddrs == { <<<<7, 7, 8, 41>>, <<9, 41, 9, 9>>>>, <<<<9, 9, 8, 8>>, <<8, 8, 8, 8>>>> }
Good == [i \in Images |-> TRUE]
B(p, c, st, fi, e, m, r, k, mu, d, off, g, ko, pad) ==
 [plat |-> p, conf |-> c, stale |-> st, files |-> fi, efuse |-> e, mode |-> m, rms |-> r, known |-> k, multi |-> mu, ddr |-> d, off |-> off,
  good |-> g, keyok |-> ko, pad |-> pad, builtin |-> 1, overlays |-> {"evb.dtbo", "other.dtbo"}]
SomeBootBoards ==
 LET D == CHOOSE d \in Ddrs : TRUE E == CHOOSE e \in Fuses : e.secure /\ e.found
 IN {B("sg2044", c, NoConf, SomeFiles, e, "cpu", 0, FALSE, FALSE, D, FALSE, Good, TRUE, 0) : c \in SomeConfs, e \in Fuses}
 \cup {B("sg2044", NoConf, c, SomeFiles, E, "cpu", r, FALSE, FALSE, D, FALSE, [Good EXCEPT !["kernel"] = FALSE], ko, 0) : c \in SomeConfs, r \in {2, 40}, ko \in BOOLEAN}
 \cup {B("sg2044", NoConf, NoConf, SomeFiles, E, "pcie", 0, FALSE, FALSE, D, FALSE, Good, TRUE, 0)}
 \cup {B("sg2042", c, NoConf, SomeFiles, E, "cpu", 0, k, w[1], w[2], w[3], Good, TRUE, 0) :
   c \in SomeConfs, k \in BOOLEAN, w \in {<<TRUE, D, FALSE>>, <<FALSE, D, TRUE>>} \cup {<<TRUE, e, FALSE>> : e \in Ddrs \ {D}}}

-----------------------------------------------------------------------------
SomeMissing == {{}, {"clr-irq"}, {"serial", "aliases"}, {"initrd"}, {"heap"}}
SomeBytes == {{}, {0, 1}}
SomeFuses == {[a \in 0 .. Total - 1 |-> IF a \in {1, 2} THEN {1} ELSE {}]}
=============================================================================
