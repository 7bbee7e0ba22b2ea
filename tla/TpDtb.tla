------------------------------- MODULE TpDtb --------------------------------
(***************************************************************************)
(* bm1690: every core of the tensor processor starts from a copy of one    *)
(* device tree, in memory of its own, and modify_tpu_dtb (plat/bm1690/tp/  *)
(* zsbl/tp_dtb.c) moves what the tree describes to that core's share.  Its *)
(* steps stop at the first error, which plat_main does not look at: the    *)
(* core goes on to the firmware with what it has.                          *)
(*                                                                         *)
(* Addresses are in units of a page of the vtty buffers; a property can be *)
(* missing from the tree, and a setting may need more room than is left.   *)
(***************************************************************************)
EXTENDS Integers, Sequences, FiniteSets

CONSTANTS
    TpCores,        \* core ids
    RamSize,        \* cfg.ram_size
    Stride,         \* TP_SYS_STRIDE
    TtyLen,         \* length of one vtty buffer
    Missing         \* what trees may lack: sets of nodes and properties, "initrd"
                    \* for bootargs without it, "heap" for memory to rewrite them

ASSUME TpAssumption ==
    /\ TpCores \subseteq Nat /\ RamSize \in Nat \ {0} /\ Stride \in Nat \ {0} /\ TtyLen \in Nat \ {0}

VARIABLES
    lacks,          \* what the tree lacks
    dt,             \* the tree of every core
    step            \* where every core is

tpVars == <<lacks, dt, step>>

\* The tree as it is built: memory, interrupt controller, transmit and receive
\* buffer, interrupt numbers, address that clears them, and initrd.
Base0 == [mem |-> 0, plic |-> 0, tx |-> 0, rx |-> TtyLen, msi |-> 0, clr |-> 0, initrd |-> RamSize \div 2,
          serial |-> TRUE, alias |-> 0, name |-> 0, stdout |-> "serial0"]

Steps == <<"open", "memory", "plic", "serial", "vtty_reg", "vtty_msi", "vtty_clr", "vtty_name", "alias", "bootargs",
           "stdout", "done", "go", "lost">>
Here(c, s) == Steps[step[c]] = s
Goes(c) == step' = [step EXCEPT ![c] = @ + 1]

\* An error: modify_tpu_dtb returns.
Fail(c) == step' = [step EXCEPT ![c] = Len(Steps) - 1]

\* A core that traps, or writes where nobody asked it to, is not heard of again.
Lose(c) == step' = [step EXCEPT ![c] = Len(Steps)]

\* A step needs a node or property; setting it may fail for want of room.
Modify(c, s, need, new) ==
    /\ Here(c, s)
    /\ \/ need \notin lacks /\ dt' = [dt EXCEPT ![c] = new] /\ Goes(c)
       \/ Fail(c) /\ UNCHANGED dt
    /\ UNCHANGED lacks

\* fdt_open_into and fdt_check_header.
open_into(c) == Modify(c, "open", "header", dt[c])

\* modify_node_reg: the first cell moves by core_id * offset.
modify_memory_reg(c) == Modify(c, "memory", "memory", [dt[c] EXCEPT !.mem = @ + c * RamSize])
modify_plic_reg(c) == Modify(c, "plic", "plic", [dt[c] EXCEPT !.plic = @ + c * Stride])

\* delete_node_serial, of every core but the first; its result is not used.
delete_node_serial(c) ==
    /\ Here(c, "serial")
    /\ dt' = IF c # 0 /\ "serial" \notin lacks THEN [dt EXCEPT ![c].serial = FALSE] ELSE dt
    /\ Goes(c) /\ UNCHANGED lacks

\* Both buffers move by two lengths of the first.
MovedTty(d, c) == [d EXCEPT !.tx = @ + 2 * c * TtyLen, !.rx = @ + 2 * c * TtyLen]

\* modify_node_vtty
vtty_reg(c) == Modify(c, "vtty_reg", "vtty", MovedTty(dt[c], c))
vtty_msi(c) == Modify(c, "vtty_msi", "virtaul-msi", [dt[c] EXCEPT !.msi = @ + c * 4])
vtty_clr(c) == Modify(c, "vtty_clr", "clr-irq", [dt[c] EXCEPT !.clr = @ + c * Stride])
vtty_name(c) == Modify(c, "vtty_name", "vtty", [dt[c] EXCEPT !.name = dt[c].tx])
vtty_alias(c) == Modify(c, "alias", "aliases", [dt[c] EXCEPT !.alias = dt[c].tx])

\* modify_node_chosen: initrd= in bootargs, then stdout-path.  Bootargs without
\* initrd= make a NULL of strstr, and what lies at address 7 is parsed; a number
\* found there, or a malloc that had nothing left, is used all the same.
chosen_bootargs(c) ==
    \/ "initrd" \notin lacks /\ Modify(c, "bootargs", "bootargs", [dt[c] EXCEPT !.initrd = @ + c * RamSize])
    \/ /\ Here(c, "bootargs") /\ UNCHANGED <<lacks, dt>>
       /\ \/ "initrd" \in lacks /\ Fail(c)
          \/ lacks \cap {"initrd", "heap"} # {} /\ "bootargs" \notin lacks /\ Lose(c)
chosen_stdout(c) == Modify(c, "stdout", "chosen", [dt[c] EXCEPT !.stdout = "vtty0"])

\* plat_main goes on.
Finish(c) == Here(c, "done") /\ Goes(c) /\ UNCHANGED <<lacks, dt>>

TpInit == lacks \in Missing /\ dt = [c \in TpCores |-> Base0] /\ step = [c \in TpCores |-> 1]

TpStep(c) ==
    \/ open_into(c) \/ modify_memory_reg(c) \/ modify_plic_reg(c) \/ delete_node_serial(c) \/ vtty_reg(c) \/ vtty_msi(c)
    \/ vtty_clr(c) \/ vtty_name(c) \/ vtty_alias(c) \/ chosen_bootargs(c) \/ chosen_stdout(c) \/ Finish(c)

TpNext == \E c \in TpCores : TpStep(c)
TpSpec == TpInit /\ [][TpNext]_tpVars /\ \A c \in TpCores : WF_tpVars(TpStep(c))

-----------------------------------------------------------------------------
Span(a, n) == a .. a + n - 1
Buffers(c) == Span(dt[c].tx, TtyLen) \cup Span(dt[c].rx, TtyLen)
Whole(c) == dt[c].stdout = "vtty0"

\* Cores whose trees were completed share no memory, no console buffer, no
\* interrupt and no interrupt controller, and each finds its ramfs in its own
\* memory and its console under the name the aliases give.
CoresApart ==
    /\ \A c, d \in TpCores : c # d /\ Whole(c) /\ Whole(d) =>
         /\ Span(dt[c].mem, RamSize) \cap Span(dt[d].mem, RamSize) = {}
         /\ Buffers(c) \cap Buffers(d) = {}
         /\ dt[c].msi # dt[d].msi /\ dt[c].plic # dt[d].plic /\ dt[c].clr # dt[d].clr
    /\ \A c \in TpCores : Whole(c) =>
         dt[c].initrd \in Span(dt[c].mem, RamSize) /\ dt[c].alias = dt[c].name /\ dt[c].name = dt[c].tx

\* Every core comes out of modify_tpu_dtb, but for one that got lost over
\* bootargs without initrd= or a heap that had nothing left.
TpEnds == <>(\A c \in TpCores : Here(c, "go") \/ (Here(c, "lost") /\ lacks \cap {"initrd", "heap"} # {}))
=============================================================================
