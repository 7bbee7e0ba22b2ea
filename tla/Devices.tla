------------------------------ MODULE Devices -------------------------------
(***************************************************************************)
(* The platform bus, drivers/platform/platform.c over base/device.c, which *)
(* walks the device tree once and binds drivers to nodes, together with    *)
(* the interrupt core, drivers/irqchip/interrupt.c, and the PLIC: probing  *)
(* a controller adds a chip, probing a client asks for an interrupt, and   *)
(* interrupts come in while the walk goes on.  The PLIC itself is external.*)
(*                                                                         *)
(* A node is [compat, reg, irq, stdio]: the drivers it is compatible with, *)
(* whether reg is usable, <<node of the controller, hwirq>>, and whether   *)
(* it has the property that makes a port the console.                      *)
(***************************************************************************)
EXTENDS Integers, Sequences, FiniteSets, SequencesExt

CONSTANTS
    Trees,          \* the device trees: sequences of nodes
    Drivers,        \* driver_list, in the order of the module_inits
    IrqCount,       \* interrupts of a chip: 1023
    HandledBy,      \* the nodes whose handlers return IRQ_HANDLED
    MaxRaise,       \* bound: interrupts raised
    MaxNoMem        \* bound: allocations that fail

ASSUME DevicesAssumption ==
    /\ IrqCount \in Nat \ {0} /\ MaxRaise \in Nat /\ MaxNoMem \in Nat
    /\ Drivers \in Seq({"plic", "mtli", "uart", "other"})
    /\ \A t \in Trees :
         /\ t \in Seq([compat : SUBSET STRING, reg : STRING, irq : {<<>>} \cup (Nat \X Nat), stdio : BOOLEAN])
         /\ \A i \in 1 .. Len(t) : t[i].irq # <<>> => t[i].irq[1] \in 1 .. Len(t) /\ t[i].irq[2] \in 1 .. IrqCount

VARIABLES
    tree,           \* the device tree
    at,             \* node the walk is at, and the next driver to try on it
    pdev,           \* the device of every node
    ports,          \* the nodes of the serial ports, in the order of registration
    stdio,          \* the port printf uses; 0 for none
    chips,          \* irq_chip_list: [node, irq_start]
    irq_end,        \* first number not yet given to a chip
    irqds,          \* irq_data_list: [irq, node]
    plic,           \* the registers of the controllers, by node
    calls,          \* handlers called so far, for each node
    raised,         \* interrupts raised, for each node
    nomem           \* allocations that have failed

devVars == <<tree, at, pdev, ports, stdio, chips, irq_end, irqds, plic, calls, raised, nomem>>
busVars == <<tree, at, pdev, ports, stdio>>
irqVars == <<chips, irq_end, irqds, plic>>

Nodes == 1 .. Len(tree)
hwirq_start == 1
NoIrq == <<>>
Gone == [status |-> "none", drv |-> 0]
Lines == hwirq_start .. hwirq_start + IrqCount - 1
Wire(n) == tree[n].irq
Lowest(S) == CHOOSE h \in S : \A g \in S : h <= g

-----------------------------------------------------------------------------
(* The interrupt core.                                                     *)

alloc_irq(count) == irq_end' = irq_end + count

\* irq_register_chip
RegisterChip(n) ==
    /\ chips' = Append(chips, [node |-> n, irq_start |-> irq_end])
    /\ alloc_irq(IrqCount)

irq_get(c, hwirq) == c.irq_start + hwirq - hwirq_start

\* Mutant: the end of a range belongs to it.
FindChipInclusive(irq) ==
    LET in(c) == irq >= c.irq_start /\ irq <= c.irq_start + IrqCount
    IN  IF \E i \in 1 .. Len(chips) : in(chips[i])
          THEN LET c == chips[Lowest({i \in 1 .. Len(chips) : in(chips[i])})]
               IN  <<c.node, hwirq_start + irq - c.irq_start>>
          ELSE NoIrq

\* find_irq_chip: the first chip whose range holds irq, and the line behind it.
find_irq_chip(irq) ==
    LET in(c) == irq >= c.irq_start /\ irq < c.irq_start + IrqCount
    IN  IF \E i \in 1 .. Len(chips) : in(chips[i])
          THEN LET c == chips[Lowest({i \in 1 .. Len(chips) : in(chips[i])})]
               IN  <<c.node, hwirq_start + irq - c.irq_start>>
          ELSE NoIrq

\* irq_request: an interrupt without a chip leaves the allocation behind.
irq_request(irq, n) ==
    LET w == find_irq_chip(irq)
    IN  IF w = NoIrq THEN UNCHANGED <<irqds, plic>>
        ELSE /\ irqds' = Append(irqds, [irq |-> irq, node |-> n])
             /\ plic' = [plic EXCEPT ![w[1]].en = @ \cup {w[2]}]

\* irq_free, of a handler that is registered: the interrupt stays enabled.
irq_free(n) ==
    /\ \E i \in 1 .. Len(irqds) : irqds[i].node = n
    /\ irqds' = RemoveAt(irqds, Lowest({i \in 1 .. Len(irqds) : irqds[i].node = n}))
    /\ UNCHANGED <<busVars, chips, irq_end, plic, calls, raised, nomem>>

irq_enable(irq) ==
    /\ find_irq_chip(irq) # NoIrq
    /\ LET w == find_irq_chip(irq) IN plic' = [plic EXCEPT ![w[1]].en = @ \cup {w[2]}]
    /\ UNCHANGED <<busVars, chips, irq_end, irqds, calls, raised, nomem>>

irq_disable(irq) ==
    /\ find_irq_chip(irq) # NoIrq
    /\ LET w == find_irq_chip(irq) IN plic' = [plic EXCEPT ![w[1]].en = @ \ {w[2]}]
    /\ UNCHANGED <<busVars, chips, irq_end, irqds, calls, raised, nomem>>

\* What plic_claim_irq can return: the lowest line that is pending and enabled.
Claimable(n) == {h \in plic[n].pend \cap plic[n].en : h \notin plic[n].act}

\* The chip irq_handler finds: the first in the list that has something.
Claiming == {i \in 1 .. Len(chips) : Claimable(chips[i].node) # {}}

\* The handlers that run: those of the line, up to the first IRQ_HANDLED.
Called(irq) ==
    LET mine == {i \in 1 .. Len(irqds) : irqds[i].irq = irq}
        stop == {i \in mine : irqds[i].node \in HandledBy}
    IN  {i \in mine : stop = {} \/ i <= Lowest(stop)}

\* irq_eoi is reached when no handler has returned IRQ_HANDLED.
Eoi(ran) == \A i \in ran : irqds[i].node \notin HandledBy

irq_handler ==
    /\ Claiming # {}
    /\ LET c == chips[Lowest(Claiming)]
           h == Lowest(Claimable(c.node))
           ran == Called(irq_get(c, h))
       IN  /\ plic' = [plic EXCEPT ![c.node].pend = @ \ {h},
                                   ![c.node].act = IF Eoi(ran) THEN @ \ {h} ELSE @ \cup {h}]
           /\ calls' = [n \in Nodes |-> calls[n] + Cardinality({i \in ran : irqds[i].node = n})]
    /\ UNCHANGED <<busVars, chips, irq_end, irqds, raised, nomem>>

\* A device raises its interrupt; the gateway of a line in service or pending
\* does not pass on another one.  External.
Raise(n) ==
    /\ Wire(n) # NoIrq /\ raised[n] < MaxRaise
    /\ LET w == Wire(n) IN w[2] \notin plic[w[1]].pend /\ plic' = [plic EXCEPT ![w[1]].pend = @ \cup {w[2]}]
    /\ raised' = [raised EXCEPT ![n] = @ + 1]
    /\ UNCHANGED <<busVars, chips, irq_end, irqds, calls, nomem>>

-----------------------------------------------------------------------------
(* The platform bus.                                                       *)

\* platform_device_find_by_of and irq_get_chip_by_name: a chip whose device is
\* there, whatever its status, and whose probe has registered it.
ChipOf(n) == {i \in 1 .. Len(chips) : chips[i].node = n /\ pdev[n].status # "none"}

\* platform_get_irq(pdev, 0): -ENODEV when the controller is not there yet.
platform_get_irq(n) ==
    IF Wire(n) = NoIrq \/ ChipOf(Wire(n)[1]) = {} THEN -19
    ELSE irq_get(chips[Lowest(ChipOf(Wire(n)[1]))], Wire(n)[2])

\* The probes of the drivers, which end in success or in failure.
plic_probe(n, ok) ==
    /\ IF ok THEN RegisterChip(n) ELSE UNCHANGED <<chips, irq_end>>
    /\ UNCHANGED <<irqds, plic, ports, stdio>>

\* The probe of mtli ignores what platform_get_irq and irq_request return.
mtli_probe(n, ok) ==
    /\ IF ok THEN irq_request(platform_get_irq(n), n) ELSE UNCHANGED <<irqds, plic>>
    /\ UNCHANGED <<chips, irq_end, ports, stdio>>

\* The probe of ns16550 and serial_register.
uart_probe(n, ok) ==
    /\ IF ok THEN ports' = Append(ports, n) /\ stdio' = IF tree[n].stdio THEN n ELSE stdio
             ELSE UNCHANGED <<ports, stdio>>
    /\ UNCHANGED irqVars

other_probe(n, ok) == UNCHANGED <<irqVars, ports, stdio>>

\* mtli allocates in irq_request only, and succeeds all the same.
Probe(d, n, ok) ==
    CASE d = "plic" -> plic_probe(n, ok)
      [] d = "mtli" -> mtli_probe(n, ok)
      [] d = "uart" -> uart_probe(n, ok)
      [] OTHER -> other_probe(n, ok)

\* platform_device_create: a node without reg is passed over, one with a bad
\* reg, or without memory for it (~served), gives no device.
platform_device_create(served) ==
    /\ at.node < Len(tree)
    /\ at.drv = 0
    /\ LET n == at.node + 1
           fits == tree[n].reg = "good" /\ tree[n].compat # {}
       IN  /\ served \/ (fits /\ nomem < MaxNoMem)
           /\ nomem' = IF served THEN nomem ELSE nomem + 1
           /\ at' = [node |-> n, drv |-> IF fits /\ served THEN 1 ELSE 0]
           /\ pdev' = IF fits /\ served THEN [pdev EXCEPT ![n].status = "new"] ELSE pdev
    /\ UNCHANGED <<tree, ports, stdio, irqVars, calls, raised>>

\* No driver was left: platform_probe destroys a device that is still new.
MatchFails ==
    /\ at.drv > Len(Drivers)
    /\ pdev' = IF pdev[at.node].status = "new" THEN [pdev EXCEPT ![at.node] = Gone] ELSE pdev
    /\ at' = [at EXCEPT !.drv = 0]
    /\ UNCHANGED <<tree, ports, stdio, irqVars, calls, raised, nomem>>

\* bind_driver of a driver that does not match.
BindNot ==
    /\ at.drv \in 1 .. Len(Drivers) /\ Drivers[at.drv] \notin tree[at.node].compat
    /\ at' = [at EXCEPT !.drv = @ + 1]
    /\ UNCHANGED <<tree, pdev, ports, stdio, irqVars, calls, raised, nomem>>

\* bind_driver of one that does; after a failing probe the next driver is tried.
bind_driver(ok) ==
    /\ at.drv \in 1 .. Len(Drivers) /\ Drivers[at.drv] \in tree[at.node].compat
    /\ LET d == Drivers[at.drv]
       IN  /\ ok \/ nomem < MaxNoMem
           /\ nomem' = IF ok THEN nomem ELSE nomem + 1
           /\ Probe(d, at.node, ok)
           /\ LET good == ok \/ d = "mtli"
              IN  /\ pdev' = [pdev EXCEPT ![at.node] = [status |-> IF good THEN "ok" ELSE "error", drv |-> at.drv]]
                  /\ at' = [at EXCEPT !.drv = IF good THEN 0 ELSE @ + 1]
    /\ UNCHANGED <<tree, calls, raised>>

platform_probe ==
    \/ platform_device_create(TRUE) \/ platform_device_create(FALSE)
    \/ BindNot \/ bind_driver(TRUE) \/ bind_driver(FALSE) \/ MatchFails

-----------------------------------------------------------------------------
DevInit ==
    /\ tree \in Trees
    /\ at = [node |-> 0, drv |-> 0]
    /\ pdev = [n \in Nodes |-> Gone]
    /\ ports = <<>> /\ stdio = 0
    /\ chips = <<>> /\ irq_end = 0 /\ irqds = <<>>
    /\ plic = [n \in Nodes |-> [en |-> {}, pend |-> {}, act |-> {}]]
    /\ calls = [n \in Nodes |-> 0] /\ raised = [n \in Nodes |-> 0]
    /\ nomem = 0

DevNext ==
    \/ platform_probe
    \/ irq_handler
    \/ \E n \in Nodes : Raise(n) \/ irq_free(n)
    \/ \E irq \in 0 .. irq_end - 1 : irq_enable(irq) \/ irq_disable(irq)

DevSpec == DevInit /\ [][DevNext]_devVars
DevFairSpec == DevSpec /\ WF_devVars(platform_probe) /\ WF_devVars(irq_handler)

-----------------------------------------------------------------------------
DevTypeOK ==
    /\ at.node \in 0 .. Len(tree) /\ at.drv \in 0 .. Len(Drivers) + 1
    /\ \A n \in Nodes : pdev[n].status \in {"none", "new", "ok", "error"}
    /\ \A n \in Nodes : plic[n].act \subseteq hwirq_start .. IrqCount /\ plic[n].en \subseteq hwirq_start .. IrqCount
    /\ irq_end = IrqCount * Len(chips)

\* Numbers and lines correspond, for all chips: the number of a line leads back
\* to the line, which irq_request, irq_enable and irq_handler rely on.
RoutesBack ==
    \A i \in 1 .. Len(chips) : \A h \in Lines :
        find_irq_chip(irq_get(chips[i], h)) = <<chips[i].node, h>>

\* A handler is called for the line of its own device, never for another one.
CallsWereRaised ==
    \A n \in Nodes : calls[n] > 0 => \E m \in Nodes : Wire(m) = Wire(n) /\ Wire(n) # NoIrq /\ raised[m] > 0

\* A device of a client that is in order has its interrupt only if the node of
\* its controller comes earlier in the tree and was probed successfully.
EarlierController ==
    \A i \in 1 .. Len(irqds) :
        LET n == irqds[i].node
        IN  Wire(n)[1] < n /\ pdev[Wire(n)[1]].status = "ok"

\* A line stays in service only if its handler returned IRQ_HANDLED: the end of
\* interrupt is not written then, and the line never interrupts again.
StuckIfHandled ==
    \A n \in Nodes : \A h \in plic[n].act :
        \E m \in HandledBy \cap Nodes : Wire(m) = <<n, h>> /\ calls[m] > 0

\* At most one handler takes an interrupt: of the handlers that share a line,
\* those behind the one that returned IRQ_HANDLED have not been called as often.
OneTakes ==
    \A i, j \in 1 .. Len(irqds) : i < j /\ irqds[i].irq = irqds[j].irq /\ irqds[i].node \in HandledBy
        => calls[irqds[j].node] = 0

\* The chips in the list belong to devices that are there: the chip is part of
\* what the probe of the controller allocated.
ChipsAlive == \A i \in 1 .. Len(chips) : pdev[chips[i].node].status = "ok"

\* Ports are numbered in the order of registration and no two are one device;
\* printf goes to the last one that asked for it.
PortsOnce ==
    /\ IsInjective(ports)
    /\ LET console == {i \in 1 .. Len(ports) : tree[ports[i]].stdio}
       IN  \/ console = {} /\ stdio = 0
           \/ \E i \in console : stdio = ports[i] /\ \A j \in console : j <= i
    /\ \A i \in 1 .. Len(ports) : pdev[ports[i]].status = "ok"

\* The walk reaches the end of the tree, interrupts or not.
WalkEnds == <>(at.node = Len(tree) /\ at.drv = 0)

\* A line that could interrupt, of a controller that is in the list.
Waits(n, h) == n \in Nodes /\ h \in Claimable(n) /\ \E i \in 1 .. Len(chips) : chips[i].node = n

\* Interrupts that are raised are handled, whichever controller they are behind
\* and however many come: there is always a later moment when none waits.
RaisedIsHandled == []<>(\A n \in Nodes, h \in Lines : ~Waits(n, h))

\* Interrupts reach the handler that was asked for, devices are probed once.
ProbingSound ==
    /\ DevTypeOK /\ RoutesBack /\ CallsWereRaised /\ EarlierController
    /\ StuckIfHandled /\ OneTakes /\ ChipsAlive /\ PortsOnce
=============================================================================
