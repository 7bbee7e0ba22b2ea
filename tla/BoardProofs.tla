----------------------------- MODULE BoardProofs -----------------------------
(***************************************************************************)
(* The cores of the bm1690, the fuses, the devices files come from, and    *)
(* the walk over the device tree with its interrupts: for any number of    *)
(* cores and any size of their shares, any cells and accesses, any list of *)
(* disks and flashes, any tree, and for the composition of the parts.      *)
(***************************************************************************)
EXTENDS MCBoot, FiniteSetTheorems, WellFoundedInduction, TLAPS

-----------------------------------------------------------------------------
(* Cores.                                                                  *)

\* Shares of n that follow one another.
LEMMA SharesFollow ==
    ASSUME NEW n \in Nat, NEW c \in Nat, NEW d \in Nat, c < d
    PROVE  c * n \in Nat /\ d * n \in Nat /\ c * n + n <= d * n
<1>1. PICK k \in Nat : d = c + 1 + k
  <2>1. d - c - 1 \in Nat /\ d = c + 1 + (d - c - 1)
    OBVIOUS
  <2> QED
    BY <2>1
<1>2. (c + 1 + k) * n = c * n + n + k * n
  OBVIOUS
<1>3. c * n \in Nat /\ k * n \in Nat
  OBVIOUS
<1> QED
  BY <1>1, <1>2, <1>3

\* The shares of two cores have no byte in common.
LEMMA SharesApart ==
    ASSUME NEW n \in Nat \ {0}, NEW c \in Nat, NEW d \in Nat, c # d
    PROVE  /\ c * n # d * n /\ c * n \in Nat /\ d * n \in Nat
           /\ c * n + n <= d * n \/ d * n + n <= c * n
<1>1. CASE c < d
  BY <1>1, SharesFollow
<1>2. CASE d < c
  BY <1>2, SharesFollow
<1> QED
  BY <1>1, <1>2

\* What the first n steps have made of a core's tree.
MovedBy(t, c, n) ==
    /\ t.mem = (IF n > 2 THEN c * RamSize ELSE 0)
    /\ t.plic = (IF n > 3 THEN c * Stride ELSE 0)
    /\ t.tx = (IF n > 5 THEN 2 * c * TtyLen ELSE 0)
    /\ t.rx = TtyLen + (IF n > 5 THEN 2 * c * TtyLen ELSE 0)
    /\ t.msi = (IF n > 6 THEN c * 4 ELSE 0)
    /\ t.clr = (IF n > 7 THEN c * Stride ELSE 0)
    /\ n > 8 => t.name = 2 * c * TtyLen
    /\ n > 9 => t.alias = 2 * c * TtyLen
    /\ t.initrd = (RamSize \div 2) + (IF n > 10 THEN c * RamSize ELSE 0)

CoreTree == [mem : Int, plic : Int, tx : Int, rx : Int, msi : Int, clr : Int, initrd : Int,
             serial : BOOLEAN, alias : Int, name : Int, stdout : {"serial0", "vtty0"}]

\* The trees of the cores that got on without an error are moved as far as the
\* core has come; only a core that came to the end has the console of its own.
CoresInv ==
    /\ dt \in [TpCores -> CoreTree] /\ step \in [TpCores -> 1 .. 14]
    /\ \A c \in TpCores :
         /\ step[c] <= 12 => MovedBy(dt[c], c, step[c])
         /\ Whole(c) => step[c] >= 12 /\ MovedBy(dt[c], c, 12)

\* A core is at one of fourteen places: the last but one is the end of
\* modify_tpu_dtb, the last is where lost cores are.
LEMMA StepCount == Len(Steps) = 14
  BY DEF Steps

\* What each of the steps is.
LEMMA StepNames ==
    ASSUME NEW n \in 1 .. 14
    PROVE  /\ (Steps[n] = "open") = (n = 1) /\ (Steps[n] = "memory") = (n = 2) /\ (Steps[n] = "plic") = (n = 3)
           /\ (Steps[n] = "serial") = (n = 4) /\ (Steps[n] = "vtty_reg") = (n = 5) /\ (Steps[n] = "vtty_msi") = (n = 6)
           /\ (Steps[n] = "vtty_clr") = (n = 7) /\ (Steps[n] = "vtty_name") = (n = 8) /\ (Steps[n] = "alias") = (n = 9)
           /\ (Steps[n] = "bootargs") = (n = 10) /\ (Steps[n] = "stdout") = (n = 11) /\ (Steps[n] = "done") = (n = 12)
  BY DEF Steps

\* A step of one core leaves the others alone.
LEMMA CoreSteps ==
    ASSUME CoresInv, NEW c \in TpCores, NEW new \in CoreTree, NEW n \in 1 .. 14,
           dt' = [dt EXCEPT ![c] = new], step' = [step EXCEPT ![c] = n],
           n <= 12 => MovedBy(new, c, n),
           new.stdout = "vtty0" => n >= 12 /\ MovedBy(new, c, 12)
    PROVE  CoresInv'
<1>1. dt' \in [TpCores -> CoreTree] /\ step' \in [TpCores -> 1 .. 14]
  BY DEF CoresInv
<1>2. \A d \in TpCores \ {c} : dt'[d] = dt[d] /\ step'[d] = step[d]
  BY DEF CoresInv
<1>3. dt'[c] = new /\ step'[c] = n
  BY DEF CoresInv
<1>4. \A d \in TpCores : /\ step'[d] <= 12 => MovedBy(dt'[d], d, step'[d])
                         /\ dt'[d].stdout = "vtty0" => step'[d] >= 12 /\ MovedBy(dt'[d], d, 12)
  BY <1>2, <1>3 DEF CoresInv, Whole
<1> QED
  BY <1>1, <1>4 DEF CoresInv, Whole, MovedBy

\* An error, or getting lost, leaves the tree as it is.
LEMMA CoreFails ==
    ASSUME CoresInv, NEW c \in TpCores, Fail(c) \/ Lose(c), UNCHANGED dt
    PROVE  CoresInv'
<1>1. PICK n \in {13, 14} : step' = [step EXCEPT ![c] = n]
  BY StepCount DEF Fail, Lose
<1>2. dt[c] \in CoreTree /\ dt' = [dt EXCEPT ![c] = dt[c]]
  BY DEF CoresInv
<1>3. dt[c].stdout = "vtty0" => MovedBy(dt[c], c, 12)
  BY DEF CoresInv, Whole
<1>4. PICK t \in CoreTree : t = dt[c]
  BY <1>2
<1>5. dt' = [dt EXCEPT ![c] = t] /\ (t.stdout = "vtty0" => MovedBy(t, c, 12))
  BY <1>2, <1>3, <1>4, Zenon
<1>6. n \in 1 .. 14 /\ step' = [step EXCEPT ![c] = n] /\ ~(n <= 12) /\ n >= 12
  BY <1>1
<1> QED
  BY <1>5, <1>6, CoreSteps

\* What a step that goes well must do.
LEMMA CoreGoes ==
    ASSUME CoresInv, NEW c \in TpCores, NEW s, NEW need, NEW new, Modify(c, s, need, new),
           NEW n \in 1 .. 12, \A m \in 1 .. 14 : Steps[m] = s <=> m = n,
           n = step[c] => new \in CoreTree /\ MovedBy(new, c, n + 1),
           n = step[c] => new.stdout = IF n = 11 THEN "vtty0" ELSE dt[c].stdout
    PROVE  CoresInv'
<1>1. CASE Fail(c) /\ UNCHANGED dt
  BY <1>1, CoreFails
<1>2. CASE dt' = [dt EXCEPT ![c] = new] /\ Goes(c)
  <2>1. step[c] = n /\ step[c] \in 1 .. 14
    BY DEF Modify, Here, CoresInv
  <2>2. step' = [step EXCEPT ![c] = n + 1]
    BY <1>2, <2>1 DEF Goes, CoresInv
  <2>3. dt[c].stdout = "vtty0" => n >= 12
    BY <2>1 DEF CoresInv, Whole
  <2>4. new.stdout = "vtty0" => n + 1 >= 12 /\ MovedBy(new, c, 12)
    <3>1. CASE n = 12
      BY <2>1, <3>1 DEF MovedBy
    <3>2. CASE n <= 11
      BY <2>1, <2>3, <3>2
    <3> QED
      BY <3>1, <3>2
  <2>5. PICK t \in CoreTree, m \in 1 .. 14 : t = new /\ m = n + 1
    BY <2>1
  <2>6. /\ dt' = [dt EXCEPT ![c] = t] /\ step' = [step EXCEPT ![c] = m]
        /\ MovedBy(t, c, m) /\ (t.stdout = "vtty0" => m >= 12 /\ MovedBy(t, c, 12))
    BY <1>2, <2>1, <2>2, <2>4, <2>5
  <2> QED
    BY <2>6, CoreSteps
<1> QED
  BY <1>1, <1>2 DEF Modify

\* Every step of a core moves its own tree as far as the core has come.
LEMMA CoresStep == CoresInv /\ [TpNext]_tpVars => CoresInv'
<1> SUFFICES ASSUME CoresInv, [TpNext]_tpVars PROVE CoresInv'
  OBVIOUS
<1>1. CASE UNCHANGED tpVars
  BY <1>1 DEF tpVars, CoresInv, Whole, MovedBy
<1>2. CASE TpNext
  <2>1. PICK c \in TpCores : TpStep(c)
    BY <1>2 DEF TpNext
  <2>2. PICK t \in CoreTree, n \in 1 .. 14, id \in Nat : t = dt[c] /\ n = step[c] /\ id = c
    BY TpAssumption DEF CoresInv
  <2>3. /\ n <= 12 => MovedBy(t, c, n)
        /\ t.stdout = "vtty0" => n >= 12
    BY <2>2 DEF CoresInv, Whole
  <2>4. /\ c * RamSize \in Nat /\ c * Stride \in Nat /\ c * 4 \in Nat /\ 2 * c * TtyLen \in Nat
        /\ RamSize \div 2 \in Nat /\ TtyLen \in Nat
    BY <2>2, TpAssumption
  <2>5. CASE open_into(c)
    <3>1. n = 1 => MovedBy(t, c, 2)
      BY <2>3 DEF MovedBy
    <3>2. 1 \in 1 .. 12 /\ \A m \in 1 .. 14 : Steps[m] = "open" <=> m = 1
      BY StepNames
    <3> QED
      BY <2>2, <2>5, <3>1, <3>2, CoreGoes DEF open_into
  <2>6. CASE modify_memory_reg(c)
    <3>1. PICK u : u = [t EXCEPT !.mem = @ + c * RamSize]
      OBVIOUS
    <3>2. u \in CoreTree /\ u.stdout = t.stdout
      BY <2>4, <3>1 DEF CoreTree
    <3>3. n = 2 => MovedBy(u, c, 3)
      BY <2>3, <2>4, <3>1 DEF MovedBy, CoreTree
    <3>4. 2 \in 1 .. 12 /\ \A m \in 1 .. 14 : Steps[m] = "memory" <=> m = 2
      BY StepNames
    <3>5. Modify(c, "memory", "memory", u)
      BY <2>2, <2>6, <3>1 DEF modify_memory_reg
    <3> QED
      BY <2>2, <3>2, <3>3, <3>4, <3>5, CoreGoes
  <2>7. CASE modify_plic_reg(c)
    <3>1. PICK u : u = [t EXCEPT !.plic = @ + c * Stride]
      OBVIOUS
    <3>2. u \in CoreTree /\ u.stdout = t.stdout
      BY <2>4, <3>1 DEF CoreTree
    <3>3. n = 3 => MovedBy(u, c, 4)
      BY <2>3, <2>4, <3>1 DEF MovedBy, CoreTree
    <3>4. 3 \in 1 .. 12 /\ \A m \in 1 .. 14 : Steps[m] = "plic" <=> m = 3
      BY StepNames
    <3>5. Modify(c, "plic", "plic", u)
      BY <2>2, <2>7, <3>1 DEF modify_plic_reg
    <3> QED
      BY <2>2, <3>2, <3>3, <3>4, <3>5, CoreGoes
  <2>8. CASE vtty_reg(c)
    <3>1. PICK u : u = [t EXCEPT !.tx = @ + 2 * c * TtyLen, !.rx = @ + 2 * c * TtyLen]
      OBVIOUS
    <3>2. u \in CoreTree /\ u.stdout = t.stdout
      <4>1. PICK v \in Int, w \in Int : v = t.tx + 2 * c * TtyLen /\ w = t.rx + 2 * c * TtyLen
        BY <2>4 DEF CoreTree
      <4>2. u = [t EXCEPT !.tx = v, !.rx = w]
        BY <3>1, <4>1
      <4> QED
        BY <4>2 DEF CoreTree
    <3>3. n = 5 => MovedBy(u, c, 6)
      BY <2>3, <2>4, <3>1 DEF MovedBy, CoreTree
    <3>4. 5 \in 1 .. 12 /\ \A m \in 1 .. 14 : Steps[m] = "vtty_reg" <=> m = 5
      BY StepNames
    <3>5. Modify(c, "vtty_reg", "vtty", u)
      BY <2>2, <2>8, <3>1 DEF vtty_reg, MovedTty
    <3> QED
      BY <2>2, <3>2, <3>3, <3>4, <3>5, CoreGoes
  <2>9. CASE vtty_msi(c)
    <3>1. PICK u : u = [t EXCEPT !.msi = @ + c * 4]
      OBVIOUS
    <3>2. u \in CoreTree /\ u.stdout = t.stdout
      BY <2>4, <3>1 DEF CoreTree
    <3>3. n = 6 => MovedBy(u, c, 7)
      BY <2>3, <2>4, <3>1 DEF MovedBy, CoreTree
    <3>4. 6 \in 1 .. 12 /\ \A m \in 1 .. 14 : Steps[m] = "vtty_msi" <=> m = 6
      BY StepNames
    <3>5. Modify(c, "vtty_msi", "virtaul-msi", u)
      BY <2>2, <2>9, <3>1 DEF vtty_msi
    <3> QED
      BY <2>2, <3>2, <3>3, <3>4, <3>5, CoreGoes
  <2>10. CASE vtty_clr(c)
    <3>1. PICK u : u = [t EXCEPT !.clr = @ + c * Stride]
      OBVIOUS
    <3>2. u \in CoreTree /\ u.stdout = t.stdout
      BY <2>4, <3>1 DEF CoreTree
    <3>3. n = 7 => MovedBy(u, c, 8)
      BY <2>3, <2>4, <3>1 DEF MovedBy, CoreTree
    <3>4. 7 \in 1 .. 12 /\ \A m \in 1 .. 14 : Steps[m] = "vtty_clr" <=> m = 7
      BY StepNames
    <3>5. Modify(c, "vtty_clr", "clr-irq", u)
      BY <2>2, <2>10, <3>1 DEF vtty_clr
    <3> QED
      BY <2>2, <3>2, <3>3, <3>4, <3>5, CoreGoes
  <2>11. CASE vtty_name(c)
    <3>1. PICK u : u = [t EXCEPT !.name = t.tx]
      OBVIOUS
    <3>2. u \in CoreTree /\ u.stdout = t.stdout
      BY <2>4, <3>1 DEF CoreTree
    <3>3. n = 8 => MovedBy(u, c, 9)
      BY <2>3, <2>4, <3>1 DEF MovedBy, CoreTree
    <3>4. 8 \in 1 .. 12 /\ \A m \in 1 .. 14 : Steps[m] = "vtty_name" <=> m = 8
      BY StepNames
    <3>5. Modify(c, "vtty_name", "vtty", u)
      BY <2>2, <2>11, <3>1 DEF vtty_name
    <3> QED
      BY <2>2, <3>2, <3>3, <3>4, <3>5, CoreGoes
  <2>12. CASE vtty_alias(c)
    <3>1. PICK u : u = [t EXCEPT !.alias = t.tx]
      OBVIOUS
    <3>2. u \in CoreTree /\ u.stdout = t.stdout
      BY <2>4, <3>1 DEF CoreTree
    <3>3. n = 9 => MovedBy(u, c, 10)
      BY <2>3, <2>4, <3>1 DEF MovedBy, CoreTree
    <3>4. 9 \in 1 .. 12 /\ \A m \in 1 .. 14 : Steps[m] = "alias" <=> m = 9
      BY StepNames
    <3>5. Modify(c, "alias", "aliases", u)
      BY <2>2, <2>12, <3>1 DEF vtty_alias
    <3> QED
      BY <2>2, <3>2, <3>3, <3>4, <3>5, CoreGoes
  <2>13. CASE chosen_bootargs(c)
    <3>1. PICK u : u = [t EXCEPT !.initrd = @ + c * RamSize]
      OBVIOUS
    <3>2. u \in CoreTree /\ u.stdout = t.stdout
      BY <2>4, <3>1 DEF CoreTree
    <3>3. n = 10 => MovedBy(u, c, 11)
      BY <2>3, <2>4, <3>1 DEF MovedBy, CoreTree
    <3>4. 10 \in 1 .. 12 /\ \A m \in 1 .. 14 : Steps[m] = "bootargs" <=> m = 10
      BY StepNames
    <3>5. Modify(c, "bootargs", "bootargs", u) \/ ((Fail(c) \/ Lose(c)) /\ UNCHANGED dt)
      BY <2>2, <2>13, <3>1 DEF chosen_bootargs
    <3>6. CASE Modify(c, "bootargs", "bootargs", u)
      BY <2>2, <3>2, <3>3, <3>4, <3>6, CoreGoes
    <3> QED
      BY <3>5, <3>6, CoreFails
  <2>14. CASE chosen_stdout(c)
    <3>1. PICK u : u = [t EXCEPT !.stdout = "vtty0"]
      OBVIOUS
    <3>2. u \in CoreTree /\ u.stdout = "vtty0"
      BY <2>4, <3>1 DEF CoreTree
    <3>3. n = 11 => MovedBy(u, c, 12)
      BY <2>3, <2>4, <3>1 DEF MovedBy, CoreTree
    <3>4. 11 \in 1 .. 12 /\ \A m \in 1 .. 14 : Steps[m] = "stdout" <=> m = 11
      BY StepNames
    <3>5. Modify(c, "stdout", "chosen", u)
      BY <2>2, <2>14, <3>1 DEF chosen_stdout
    <3> QED
      BY <2>2, <3>2, <3>3, <3>4, <3>5, CoreGoes
  <2>15. CASE delete_node_serial(c)
    <3>1. n = 4 /\ step' = [step EXCEPT ![c] = 5]
      <4>1. Steps[n] = "serial" /\ step' = [step EXCEPT ![c] = n + 1]
        BY <2>2, <2>15 DEF delete_node_serial, Here, Goes, CoresInv
      <4>2. n = 4
        BY <4>1, StepNames
      <4> QED
        BY <4>1, <4>2
    <3>2. PICK u \in CoreTree : dt' = [dt EXCEPT ![c] = u] /\ (u = t \/ u = [t EXCEPT !.serial = FALSE])
      <4>1. [t EXCEPT !.serial = FALSE] \in CoreTree
        BY DEF CoreTree
      <4>2. dt' = [dt EXCEPT ![c] = [t EXCEPT !.serial = FALSE]] \/ dt' = [dt EXCEPT ![c] = t]
        BY <2>2, <2>15 DEF delete_node_serial, CoresInv
      <4> QED
        BY <4>1, <4>2
    <3>3. MovedBy(u, c, 5) /\ u.stdout = t.stdout
      BY <2>3, <3>1, <3>2 DEF MovedBy, CoreTree
    <3>4. t.stdout # "vtty0"
      BY <2>3, <3>1
    <3>5. PICK m \in 1 .. 14 : m = 5
      OBVIOUS
    <3>6. step' = [step EXCEPT ![c] = m] /\ MovedBy(u, c, m) /\ u.stdout # "vtty0"
      BY <3>1, <3>3, <3>4, <3>5
    <3> QED
      BY <3>2, <3>6, CoreSteps
  <2>16. CASE Finish(c)
    <3>1. n = 12 /\ step' = [step EXCEPT ![c] = 13]
      <4>1. Steps[n] = "done" /\ step' = [step EXCEPT ![c] = n + 1]
        BY <2>2, <2>16 DEF Finish, Here, Goes, CoresInv
      <4>2. n = 12
        BY <4>1, StepNames
      <4> QED
        BY <4>1, <4>2
    <3>2. Fail(c) /\ UNCHANGED dt
      BY <2>16, <3>1, StepCount DEF Fail, Finish
    <3> QED
      BY <3>2, CoreFails
  <2> QED
    BY <2>1, <2>5, <2>6, <2>7, <2>8, <2>9, <2>10, <2>11, <2>12, <2>13, <2>14, <2>15, <2>16 DEF TpStep
<1> QED
  BY <1>1, <1>2

\* All the trees are the untouched one at first.
LEMMA CoresStart == TpInit => CoresInv
<1> SUFFICES ASSUME TpInit PROVE CoresInv
  OBVIOUS
<1>1. Base0 \in CoreTree /\ Base0.stdout = "serial0"
  BY TpAssumption DEF Base0, CoreTree
<1>2. \A c \in TpCores : MovedBy(Base0, c, 1)
  BY TpAssumption DEF Base0, MovedBy
<1> QED
  BY <1>1, <1>2 DEF TpInit, CoresInv, Whole

\* Trees moved by the number of their core describe shares of their own.
LEMMA CoresShareNothing == CoresInv => CoresApart
<1> SUFFICES ASSUME CoresInv PROVE CoresApart
  OBVIOUS
<1>1. ASSUME NEW c \in TpCores, Whole(c)
      PROVE  /\ dt[c].mem = c * RamSize /\ dt[c].plic = c * Stride /\ dt[c].msi = c * 4 /\ dt[c].clr = c * Stride
             /\ dt[c].tx = 2 * c * TtyLen /\ dt[c].rx = TtyLen + 2 * c * TtyLen
             /\ dt[c].name = 2 * c * TtyLen /\ dt[c].alias = 2 * c * TtyLen
             /\ dt[c].initrd = (RamSize \div 2) + c * RamSize
  BY <1>1 DEF CoresInv, MovedBy
<1>2. ASSUME NEW c \in TpCores, NEW d \in TpCores, c # d, Whole(c), Whole(d)
      PROVE  /\ Span(dt[c].mem, RamSize) \cap Span(dt[d].mem, RamSize) = {}
             /\ Buffers(c) \cap Buffers(d) = {}
             /\ dt[c].msi # dt[d].msi /\ dt[c].plic # dt[d].plic /\ dt[c].clr # dt[d].clr
  <2>1. c \in Nat /\ d \in Nat /\ RamSize \in Nat \ {0} /\ Stride \in Nat \ {0} /\ TtyLen \in Nat \ {0}
    BY TpAssumption
  <2>2. Span(dt[c].mem, RamSize) \cap Span(dt[d].mem, RamSize) = {}
    <3>1. PICK a \in Nat, b \in Nat : a = c * RamSize /\ b = d * RamSize /\ (a + RamSize <= b \/ b + RamSize <= a)
      BY <1>2, <2>1, SharesApart
    <3>2. dt[c].mem = a /\ dt[d].mem = b
      BY <1>1, <1>2, <3>1
    <3> QED
      BY <2>1, <3>1, <3>2 DEF Span
  <2>3. Buffers(c) \cap Buffers(d) = {}
    <3>1. PICK a \in Nat, b \in Nat : /\ a = 2 * c * TtyLen /\ b = 2 * d * TtyLen
                                      /\ a + 2 * TtyLen <= b \/ b + 2 * TtyLen <= a
      <4>1. 2 * c \in Nat /\ 2 * d \in Nat /\ 2 * TtyLen \in Nat \ {0}
        BY <2>1
      <4>2. c * (2 * TtyLen) = 2 * c * TtyLen /\ d * (2 * TtyLen) = 2 * d * TtyLen
        BY <2>1
      <4> QED
        BY <1>2, <2>1, <4>1, <4>2, SharesApart
    <3>2. dt[c].tx = a /\ dt[c].rx = TtyLen + a /\ dt[d].tx = b /\ dt[d].rx = TtyLen + b
      BY <1>1, <1>2, <3>1
    <3> QED
      BY <2>1, <3>1, <3>2 DEF Buffers, Span
  <2>4. c * Stride # d * Stride /\ c * 4 # d * 4
    BY <1>2, <2>1, SharesApart
  <2> QED
    BY <1>1, <1>2, <2>2, <2>3, <2>4
<1>3. ASSUME NEW c \in TpCores, Whole(c)
      PROVE  dt[c].initrd \in Span(dt[c].mem, RamSize) /\ dt[c].alias = dt[c].name /\ dt[c].name = dt[c].tx
  <2>1. PICK a \in Nat : a = c * RamSize
    BY TpAssumption
  <2>2. RamSize \div 2 \in 0 .. RamSize - 1
    BY TpAssumption
  <2> QED
    BY <1>1, <1>3, <2>1, <2>2, TpAssumption DEF Span
<1> QED
  BY <1>2, <1>3 DEF CoresApart

\* For any cores and any size of their shares, cores whose trees were completed
\* have memory, console, interrupts and interrupt controller of their own,
\* wherever the edits of the others failed (modify_tpu_dtb).
THEOREM CoresHaveTheirOwn == TpSpec => []CoresApart
<1>1. TpInit => CoresInv
  BY CoresStart
<1>2. CoresInv /\ [TpNext]_tpVars => CoresInv'
  BY CoresStep
<1>3. CoresInv => CoresApart
  BY CoresShareNothing
<1> QED
  BY <1>1, <1>2, <1>3, PTL DEF TpSpec

-----------------------------------------------------------------------------
(* Fuses: the bytes of a cell.                                             *)

\* The sizes.
LEMMA FuseSizes ==
    /\ Word \in Nat \ {0} /\ CellCount \in Nat \ {0} /\ MaxFuse \in Nat /\ Bits \subseteq Nat
    /\ Total \in Nat \ {0} /\ Total = CellCount * Word
  BY EfuseAssumption DEF Total

\* A piece of a sequence.
LEMMA PieceAt ==
    ASSUME NEW D, NEW x \in Seq(D), NEW s \in Nat, NEW n \in Nat, s + n <= Len(x), NEW i \in 1 .. n
    PROVE  SubSeq(x, s + 1, s + n)[i] = x[s + i]
  OBVIOUS

\* A nonempty set of naturals has a least element.
LEMMA LeastNatural ==
    ASSUME NEW T, T \subseteq Nat, T # {}
    PROVE  \E x \in T : \A y \in T : x <= y
<1> DEFINE R == {p \in Nat \X Nat : p[1] < p[2]}
<1>1. IsWellFoundedOn(R, Nat)
  BY NatLessThanWellFounded DEF OpToRel
<1>2. \A x \in Nat, y \in Nat : y < x => <<y, x>> \in R
  OBVIOUS
<1> HIDE DEF R
<1>3. PICK x \in T : \A y \in T : ~(<<y, x>> \in R)
  BY <1>1, WFMin
<1>4. \A y \in T : x \in Nat /\ y \in Nat /\ ~(y < x)
  BY <1>2, <1>3
<1> QED
  BY <1>4

\* efuse_embedded_write finds a bit as long as one is left.
LEMMA NextBit ==
    ASSUME NEW T, T \subseteq (0 .. Word - 1) \X Bits, T # {}
    PROVE  (CHOOSE x \in T : \A y \in T : x[1] < y[1] \/ (x[1] = y[1] /\ x[2] <= y[2])) \in T
<1>1. \A x \in T : x[1] \in Nat /\ x[2] \in Nat /\ x = <<x[1], x[2]>>
  <2>1. \A x \in (0 .. Word - 1) \X Bits : x[1] \in 0 .. Word - 1 /\ x[2] \in Bits /\ x = <<x[1], x[2]>>
    OBVIOUS
  <2>2. 0 .. Word - 1 \subseteq Nat /\ Bits \subseteq Nat
    BY FuseSizes
  <2> QED
    BY <2>1, <2>2
<1>2. PICK i \in {x[1] : x \in T} : \A j \in {x[1] : x \in T} : i <= j
  <2>1. {x[1] : x \in T} \subseteq Nat /\ {x[1] : x \in T} # {}
    BY <1>1
  <2> QED
    BY <2>1, LeastNatural
<1>3. PICK b \in {x[2] : x \in {y \in T : y[1] = i}} : \A c \in {x[2] : x \in {y \in T : y[1] = i}} : b <= c
  <2>1. {x[2] : x \in {y \in T : y[1] = i}} \subseteq Nat /\ {x[2] : x \in {y \in T : y[1] = i}} # {}
    BY <1>1, <1>2
  <2> QED
    BY <2>1, LeastNatural
<1>4. PICK x \in T : x[1] = i /\ x[2] = b
  BY <1>3
<1>5. \A y \in T : i <= y[1] /\ (y[1] = i => b <= y[2])
  BY <1>2, <1>3
<1>6. \A y \in T : x[1] < y[1] \/ (x[1] = y[1] /\ x[2] <= y[2])
  BY <1>1, <1>2, <1>4, <1>5
<1> QED
  BY <1>6

\* Quotient and remainder are what they must be.
LEMMA DivisionUnique ==
    ASSUME NEW n \in Nat \ {0}, NEW q \in Nat, NEW r \in 0 .. n - 1, NEW x, x = q * n + r
    PROVE  x \in Nat /\ x \div n = q /\ x % n = r
<1>1. q * n \in Nat /\ x \in Nat
  OBVIOUS
<1>2. PICK p \in Nat, s \in 0 .. n - 1 : p = x \div n /\ s = x % n /\ x = p * n + s
  <2>1. x \div n \in Nat /\ x % n \in 0 .. n - 1 /\ x = n * (x \div n) + (x % n)
    BY <1>1
  <2>2. \A p \in Nat : n * p = p * n
    OBVIOUS
  <2> QED
    BY <2>1, <2>2
<1>3. ~(p < q)
  <2> SUFFICES ASSUME p < q PROVE FALSE
    OBVIOUS
  <2>1. p * n + n <= q * n /\ p * n \in Nat
    BY SharesFollow
  <2> QED
    BY <1>1, <1>2, <2>1
<1>4. ~(q < p)
  <2> SUFFICES ASSUME q < p PROVE FALSE
    OBVIOUS
  <2>1. q * n + n <= p * n /\ p * n \in Nat
    BY SharesFollow
  <2> QED
    BY <1>1, <1>2, <2>1
<1>5. p = q
  BY <1>3, <1>4
<1>6. s = r
  BY <1>1, <1>2, <1>5
<1> QED
  BY <1>1, <1>2, <1>5, <1>6

\* The cell of an offset and the byte in it are the byte the offset stands for,
\* also behind the last cell; the bytes behind it are those of the same cell.
LEMMA CellOfByte ==
    ASSUME NEW off \in Nat, NEW i \in Nat, (off % Word) + i < Word
    PROVE  /\ off % Word \in 0 .. Word - 1
           /\ Wrapped(off + i) = ByteAt(Cell(off), (off % Word) + i)
           /\ Wrapped(off + i) \in 0 .. Total - 1
<1>1. PICK q \in Nat, s \in 0 .. Word - 1 : q = off \div Word /\ s = off % Word /\ off = Word * q + s
  BY EfuseAssumption
<1>2. PICK p \in Nat, c \in 0 .. CellCount - 1 : c = q % CellCount /\ q = CellCount * p + c
  <2>1. q \div CellCount \in Nat /\ q % CellCount \in 0 .. CellCount - 1 /\ q = CellCount * (q \div CellCount) + (q % CellCount)
    BY FuseSizes
  <2> QED
    BY <2>1
<1>3. Cell(off) = c
  BY <1>1, <1>2 DEF Cell
<1>4. PICK t \in Nat : t = c * Word + s + i /\ t < Total /\ 0 <= t
  <2>1. c * Word \in Nat /\ c * Word + Word <= CellCount * Word
    <3>1. c \in Nat /\ Word \in Nat /\ CellCount \in Nat /\ c < CellCount
      BY EfuseAssumption
    <3> QED
      BY <3>1, SharesFollow
  <2>2. PICK a \in Nat, b \in Nat : a = c * Word /\ b = CellCount * Word /\ a + Word <= b
    BY <2>1, FuseSizes
  <2>3. s + i < Word /\ Total = b
    BY <1>1, <2>2, FuseSizes
  <2>4. a + s + i \in Nat /\ a + s + i < Total /\ 0 <= a + s + i
    BY <1>1, <2>2, <2>3, FuseSizes
  <2> QED
    BY <2>2, <2>4
<1>5. off + i = p * Total + t
  <2>1. Word * (CellCount * p + c) = p * (Word * CellCount) + c * Word
    BY EfuseAssumption
  <2>2. Word * q = p * Total + c * Word
    BY <1>2, <2>1 DEF Total
  <2>3. PICK a \in Nat, b \in Nat : a = p * Total /\ b = c * Word
    BY FuseSizes
  <2>4. PICK d \in Nat : d = Word * q /\ d = a + b
    BY <2>2, <2>3
  <2>5. off = d + s /\ t = b + s + i
    BY <1>1, <1>4, <2>3, <2>4
  <2> QED
    BY <2>3, <2>4, <2>5
<1>6. Total \in Nat \ {0}
  BY FuseSizes
<1>7. (off + i) % Total = t
  <2>1. t \in 0 .. Total - 1
    BY <1>4, <1>6
  <2> QED
    <3>1. PICK n \in Nat \ {0} : n = Total
      BY <1>6
    <3>2. PICK r \in 0 .. n - 1 : r = t
      BY <2>1, <3>1
    <3>3. PICK x : x = off + i
      OBVIOUS
    <3>4. x = p * n + r
      BY <1>5, <3>1, <3>2, <3>3
    <3>5. x % n = r
      BY <3>4, DivisionUnique
    <3> QED
      BY <3>1, <3>2, <3>3, <3>5
<1>8. ByteAt(Cell(off), (off % Word) + i) = t
  <2>1. PICK b \in Nat : b = c * Word
    BY FuseSizes
  <2>2. t = b + (s + i)
    BY <1>1, <1>4, <2>1, FuseSizes
  <2>3. ByteAt(Cell(off), (off % Word) + i) = b + (s + i)
    BY <1>1, <1>3, <2>1 DEF ByteAt
  <2> QED
    BY <2>2, <2>3
<1> QED
  BY <1>1, <1>4, <1>7, <1>8, FuseSizes DEF Wrapped

-----------------------------------------------------------------------------
(* Fuses: the invariant.                                                   *)

FuseStates == [0 .. Total - 1 -> SUBSET Bits]
BitPlaces == (0 .. Word - 1) \X Bits

EfTypes ==
    /\ fuse \in FuseStates
    /\ ctl \in [mode : {0, 2, 3}, adr : [cell : 0 .. CellCount - 1, bit : (0 .. Word - 1) \X Nat],
                data : [1 .. Word -> SUBSET Bits]]
    /\ job \in [op : {"none", "read", "write"}, off : Nat, left : 0 .. MaxFuse, buf : Seq(SUBSET Bits),
                at : {"idle", "cell", "reset", "wait", "bits", "burn"}, todo : SUBSET BitPlaces, first : Nat,
                was : {<<>>} \cup FuseStates]
    /\ done \in [op : {"none", "read", "write"}, off : Nat, buf : Seq(SUBSET Bits), was : {<<>>} \cup FuseStates]

\* Where an access is, and when the controller is busy.
EfFlow ==
    /\ done.op # "none" => job.op = "none"
    /\ job.op = "none" <=> job.at = "idle"
    /\ job.at \in {"reset", "wait"} => job.op = "read" /\ job.left > 0
    /\ job.at \in {"bits", "burn"} => job.op = "write" /\ job.left > 0
    /\ ctl.mode = 2 => job.at = "wait"
    /\ ctl.mode = 3 => job.at = "burn"

\* What has been read so far, and what the data register holds.
EfReading ==
    job.op = "read" =>
      /\ job.off = job.first + Len(job.buf)
      /\ \A i \in 1 .. Len(job.buf) : job.buf[i] = fuse[Wrapped(job.first + i - 1)]
      /\ job.at = "wait" =>
           /\ ctl.adr.cell = Cell(job.off)
           /\ ctl.mode = 0 => \A i \in 1 .. Word : ctl.data[i] = fuse[ByteAt(Cell(job.off), i - 1)]

\* The bits that the first k bytes of a buffer burn at byte a.
Burnt(first, buf, k, a) == {b \in Bits : \E i \in 1 .. k : Wrapped(first + i - 1) = a /\ b \in buf[i]}

\* The bits of the cell that are still to be burnt.
Pending == IF ctl.mode = 3 THEN job.todo \cup {ctl.adr.bit} ELSE job.todo
PendingAt(a) == {b \in Bits : \E i \in 0 .. Word - 1 : ByteAt(Cell(job.off), i) = a /\ <<i, b>> \in Pending}

\* What has been burnt so far: whole pieces, and of the piece under way what is
\* not pending.
EfWriting ==
    job.op = "write" =>
      /\ job.was \in FuseStates
      /\ job.off >= job.first /\ job.off - job.first + job.left = Len(job.buf)
      /\ job.at = "cell" => \A a \in 0 .. Total - 1 :
           fuse[a] = job.was[a] \cup Burnt(job.first, job.buf, job.off - job.first, a)
      /\ job.at \in {"bits", "burn"} => \A a \in 0 .. Total - 1 :
           fuse[a] \cup PendingAt(a) =
             job.was[a] \cup Burnt(job.first, job.buf, job.off - job.first + WritePiece(job.off, job.left), a)
      /\ Pending \subseteq BitPlaces
      /\ job.at = "burn" => ctl.adr.cell = Cell(job.off)

EfInv == EfTypes /\ EfFlow /\ EfReading /\ EfWriting /\ EfReadExact /\ EfWriteExact

\* A piece is not empty, not more than is left, and inside its cell.
LEMMA PieceFits ==
    ASSUME NEW off \in Nat, NEW left \in Nat \ {0}
    PROVE  /\ off % Word \in 0 .. Word - 1
           /\ WritePiece(off, left) \in 1 .. left /\ (off % Word) + WritePiece(off, left) <= Word
           /\ ReadPiece(off, left) = WritePiece(off, left)
<1>1. off % Word \in 0 .. Word - 1
  BY FuseSizes
<1> QED
  BY <1>1, FuseSizes DEF WritePiece, ReadPiece, Min2

\* The byte that a place in a cell selects is one of the fuses.
LEMMA ByteInside ==
    ASSUME NEW c \in 0 .. CellCount - 1, NEW i \in 0 .. Word - 1
    PROVE  ByteAt(c, i) \in 0 .. Total - 1
<1>1. c \in Nat /\ CellCount \in Nat /\ Word \in Nat /\ c < CellCount
  BY FuseSizes
<1>2. PICK a \in Nat, b \in Nat : a = c * Word /\ b = CellCount * Word /\ a + Word <= b
  BY <1>1, SharesFollow
<1> QED
  BY <1>2, FuseSizes DEF ByteAt

\* make_adr_val gives the number of a cell there is, for every offset.
LEMMA CellNumber == \A off \in Nat : Cell(off) \in 0 .. CellCount - 1
<1> TAKE off \in Nat
<1>1. off \div Word \in Nat
  BY FuseSizes
<1> QED
  BY <1>1, FuseSizes DEF Cell

\* The controller is idle and no access is under way.
LEMMA EfStart == EfInit => EfInv
<1> SUFFICES ASSUME EfInit PROVE EfInv
  OBVIOUS
<1>1. fuse \in FuseStates
  BY EfuseAssumption DEF EfInit, FuseStates, Total
<1>2. /\ ctl \in [mode : {0, 2, 3}, adr : [cell : 0 .. CellCount - 1, bit : (0 .. Word - 1) \X Nat],
                  data : [1 .. Word -> SUBSET Bits]]
      /\ ctl.mode = 0
  BY FuseSizes DEF EfInit
<1>3. <<>> \in Seq(SUBSET Bits) /\ 0 \in 0 .. MaxFuse
  BY FuseSizes
<1>4. job \in [op : {"none", "read", "write"}, off : Nat, left : 0 .. MaxFuse, buf : Seq(SUBSET Bits),
               at : {"idle", "cell", "reset", "wait", "bits", "burn"}, todo : SUBSET BitPlaces, first : Nat,
               was : {<<>>} \cup FuseStates]
  BY <1>3 DEF EfInit, NoJob
<1>5. done \in [op : {"none", "read", "write"}, off : Nat, buf : Seq(SUBSET Bits), was : {<<>>} \cup FuseStates]
  BY <1>3 DEF EfInit, NoResult
<1>6. job.op = "none" /\ job.at = "idle" /\ done.op = "none"
  BY DEF EfInit, NoJob, NoResult
<1> QED
  BY <1>1, <1>2, <1>4, <1>5, <1>6 DEF EfInv, EfTypes, EfFlow, EfReading, EfWriting, EfReadExact, EfWriteExact

\* An access begins.
LEMMA EfAccess ==
    ASSUME EfInv, NEW op \in {"read", "write"}, NEW off \in Nat, NEW n \in 0 .. MaxFuse, NEW data \in Seq(SUBSET Bits),
           Len(data) = IF op = "write" THEN n ELSE 0,
           Access(op, off, n, data)
    PROVE  EfInv'
<1>1. /\ job' = [op |-> op, off |-> off, left |-> n, buf |-> data, at |-> "cell", todo |-> {}, first |-> off, was |-> fuse]
      /\ done' = NoResult /\ fuse' = fuse /\ ctl' = ctl /\ job.op = "none"
  BY DEF Access
<1>2. ctl.mode = 0
  BY <1>1 DEF EfInv, EfTypes, EfFlow
<1>3. /\ job'.op = op /\ job'.off = off /\ job'.left = n /\ job'.buf = data /\ job'.at = "cell"
      /\ job'.todo = {} /\ job'.first = off /\ job'.was = fuse /\ done'.op = "none"
  BY <1>1 DEF NoResult
<1>4. EfTypes'
  <2>1. <<>> \in Seq(SUBSET Bits)
    OBVIOUS
  <2>2. job' \in [op : {"none", "read", "write"}, off : Nat, left : 0 .. MaxFuse, buf : Seq(SUBSET Bits),
                  at : {"idle", "cell", "reset", "wait", "bits", "burn"}, todo : SUBSET BitPlaces, first : Nat,
                  was : {<<>>} \cup FuseStates]
    BY <1>1 DEF EfInv, EfTypes
  <2>3. done' \in [op : {"none", "read", "write"}, off : Nat, buf : Seq(SUBSET Bits), was : {<<>>} \cup FuseStates]
    BY <1>1, <2>1 DEF NoResult
  <2> QED
    BY <1>1, <2>2, <2>3 DEF EfInv, EfTypes, FuseStates, BitPlaces, Total
<1>5. EfFlow'
  BY <1>1, <1>2, <1>3 DEF EfFlow
<1>6. EfReading'
  BY <1>3 DEF EfReading
<1>7. EfWriting'
  <2>1. \A a : Burnt(off, data, 0, a) = {}
    BY DEF Burnt
  <2>2. Pending' = {}
    BY <1>1, <1>2, <1>3 DEF Pending
  <2>3. \A a \in 0 .. Total - 1 : fuse'[a] = job'.was[a] \cup Burnt(off, data, 0, a)
    BY <1>1, <1>3, <2>1
  <2>4. job'.op = "write" => job'.off - job'.first + job'.left = Len(job'.buf)
    BY <1>3
  <2>5. job'.was \in FuseStates
    BY <1>3 DEF EfInv, EfTypes
  <2> QED
    BY <1>3, <2>2, <2>3, <2>4, <2>5 DEF EfWriting, Burnt, Wrapped, FuseStates, Total, BitPlaces
<1> QED
  BY <1>3, <1>4, <1>5, <1>6, <1>7 DEF EfInv, EfReadExact, EfWriteExact

\* An access returns.
LEMMA EfReturn == EfInv /\ AccessReturns => EfInv'
<1> SUFFICES ASSUME EfInv, AccessReturns PROVE EfInv'
  OBVIOUS
<1>1. /\ job.at = "cell" /\ job.left = 0 /\ fuse' = fuse /\ ctl' = ctl
      /\ done' = [op |-> job.op, off |-> job.first, buf |-> job.buf, was |-> job.was]
      /\ job' = NoJob
  BY DEF AccessReturns
<1>2. ctl.mode = 0
  BY <1>1 DEF EfInv, EfTypes, EfFlow
<1>3. /\ job'.op = "none" /\ job'.at = "idle"
      /\ done'.op = job.op /\ done'.off = job.first /\ done'.buf = job.buf /\ done'.was = job.was
  BY <1>1 DEF NoJob
<1>4. EfTypes'
  <2>1. <<>> \in Seq(SUBSET Bits) /\ 0 \in 0 .. MaxFuse
    BY FuseSizes
  <2>2. job' \in [op : {"none", "read", "write"}, off : Nat, left : 0 .. MaxFuse, buf : Seq(SUBSET Bits),
                  at : {"idle", "cell", "reset", "wait", "bits", "burn"}, todo : SUBSET BitPlaces, first : Nat,
                  was : {<<>>} \cup FuseStates]
    BY <1>1, <2>1 DEF NoJob
  <2>3. done' \in [op : {"none", "read", "write"}, off : Nat, buf : Seq(SUBSET Bits), was : {<<>>} \cup FuseStates]
    BY <1>1 DEF EfInv, EfTypes
  <2> QED
    BY <1>1, <2>2, <2>3 DEF EfInv, EfTypes, FuseStates, BitPlaces, Total
<1>5. EfReadExact'
  <2> SUFFICES ASSUME job.op = "read" PROVE \A i \in 1 .. Len(job.buf) : job.buf[i] = fuse[Wrapped(job.first + i - 1)]
    BY <1>1, <1>3 DEF EfReadExact, Wrapped, Total
  <2> QED
    BY DEF EfInv, EfReading
<1>6. EfWriteExact'
  <2>1. \A a \in 0 .. Total - 1, n \in Nat : job.buf \in Seq(SUBSET Bits) /\ n = Len(job.buf) =>
          Burnt(job.first, job.buf, n, a) =
            UNION {job.buf[i] : i \in {k \in 1 .. Len(job.buf) : Wrapped(job.first + k - 1) = a}}
    BY DEF Burnt
  <2>2. ASSUME job.op = "write"
        PROVE  \A a \in 0 .. Total - 1 : fuse[a] = job.was[a] \cup
                 UNION {job.buf[i] : i \in {k \in 1 .. Len(job.buf) : Wrapped(job.first + k - 1) = a}}
    <3>1. job.off - job.first = Len(job.buf) /\ Len(job.buf) \in Nat /\ job.buf \in Seq(SUBSET Bits)
      BY <1>1, <2>2 DEF EfInv, EfTypes, EfWriting
    <3>2. \A a \in 0 .. Total - 1 : fuse[a] = job.was[a] \cup Burnt(job.first, job.buf, job.off - job.first, a)
      BY <1>1, <2>2 DEF EfInv, EfWriting
    <3> QED
      BY <2>1, <3>1, <3>2
  <2> QED
    BY <1>1, <1>3, <2>2 DEF EfWriteExact, Wrapped, Total
<1> QED
  BY <1>1, <1>2, <1>3, <1>4, <1>5, <1>6 DEF EfInv, EfFlow, EfReading, EfWriting

\* The controller is reset and told which cell to read.
LEMMA EfAsk == EfInv /\ (ReadCell \/ StartRead) => EfInv'
<1> SUFFICES ASSUME EfInv, ReadCell \/ StartRead PROVE EfInv'
  OBVIOUS
<1>1. PICK now \in {"reset", "wait"} : job' = [job EXCEPT !.at = now] /\ (now = "wait") = (job.at = "reset")
  BY DEF ReadCell, StartRead
<1>2. /\ fuse' = fuse /\ done' = done /\ job.op = "read" /\ job.left > 0 /\ job.at \in {"cell", "reset"}
  BY DEF ReadCell, StartRead, EfInv, EfFlow
<1>3. /\ job'.op = job.op /\ job'.off = job.off /\ job'.left = job.left /\ job'.buf = job.buf /\ job'.at = now
      /\ job'.todo = job.todo /\ job'.first = job.first /\ job'.was = job.was
  BY <1>1 DEF EfInv, EfTypes
<1>4. ctl' \in [mode : {0, 2, 3}, adr : [cell : 0 .. CellCount - 1, bit : (0 .. Word - 1) \X Nat],
                data : [1 .. Word -> SUBSET Bits]]
      /\ (now = "wait" => ctl'.mode = 2 /\ ctl'.adr.cell = Cell(job.off)) /\ (now = "reset" => ctl'.mode = 0)
  <2>1. CASE ReadCell
    <3>1. ctl' = [ctl EXCEPT !.mode = 0] /\ now = "reset"
      BY <1>1, <2>1 DEF ReadCell
    <3> QED
      BY <3>1 DEF EfInv, EfTypes
  <2>2. CASE StartRead
    <3>1. PICK adr : adr = [cell |-> Cell(job.off), bit |-> <<0, 0>>]
      OBVIOUS
    <3>2. adr \in [cell : 0 .. CellCount - 1, bit : (0 .. Word - 1) \X Nat] /\ adr.cell = Cell(job.off)
      <4>1. job.off \in Nat
        BY DEF EfInv, EfTypes
      <4> QED
        BY <3>1, <4>1, CellNumber, FuseSizes
    <3>3. ctl' = [ctl EXCEPT !.adr = adr, !.mode = 2] /\ now = "wait"
      BY <1>1, <2>2, <3>1 DEF StartRead
    <3> QED
      BY <3>2, <3>3 DEF EfInv, EfTypes
  <2> QED
    BY <2>1, <2>2
<1>5. EfTypes'
  <2>1. job' \in [op : {"none", "read", "write"}, off : Nat, left : 0 .. MaxFuse, buf : Seq(SUBSET Bits),
                  at : {"idle", "cell", "reset", "wait", "bits", "burn"}, todo : SUBSET BitPlaces, first : Nat,
                  was : {<<>>} \cup FuseStates]
    BY <1>1 DEF EfInv, EfTypes
  <2> QED
    BY <1>2, <1>4, <2>1 DEF EfInv, EfTypes, FuseStates, BitPlaces, Total
<1>6. EfFlow'
  BY <1>2, <1>3, <1>4 DEF EfInv, EfFlow
<1>7. EfReading'
  <2>1. /\ job.off = job.first + Len(job.buf)
        /\ \A i \in 1 .. Len(job.buf) : job.buf[i] = fuse[Wrapped(job.first + i - 1)]
    BY <1>2 DEF EfInv, EfReading
  <2>2. now = "wait" => ctl'.adr.cell = Cell(job.off) /\ ctl'.mode = 2
    BY <1>4
  <2> QED
    BY <1>2, <1>3, <2>1, <2>2 DEF EfReading
<1>8. EfReadExact' /\ EfWriteExact'
  BY <1>2 DEF EfInv, EfFlow, EfReadExact, EfWriteExact
<1>9. EfWriting'
  BY <1>2, <1>3 DEF EfWriting
<1> QED
  BY <1>5, <1>6, <1>7, <1>8, <1>9 DEF EfInv

\* A piece of the cell that was read is appended.
LEMMA EfTake == EfInv /\ TakeData => EfInv'
<1> SUFFICES ASSUME EfInv, TakeData PROVE EfInv'
  OBVIOUS
<1>1. /\ job.op = "read" /\ job.at = "wait" /\ ctl.mode = 0 /\ fuse' = fuse /\ ctl' = ctl /\ done' = done /\ job.left > 0
  BY DEF TakeData, Ready, EfInv, EfFlow
<1>2. PICK off \in Nat, left \in Nat \ {0}, first \in Nat, buf \in Seq(SUBSET Bits), data \in Seq(SUBSET Bits) :
        /\ off = job.off /\ left = job.left /\ first = job.first /\ buf = job.buf /\ data = ctl.data /\ Len(data) = Word /\ left <= MaxFuse
  <2>1. ctl.data \in Seq(SUBSET Bits) /\ Len(ctl.data) = Word
    <3>1. ctl.data \in [1 .. Word -> SUBSET Bits]
      BY DEF EfInv, EfTypes
    <3> QED
      BY <3>1, FuseSizes
  <2>2. job.left \in Nat \ {0} /\ job.left <= MaxFuse
    BY <1>1, FuseSizes DEF EfInv, EfTypes
  <2> QED
    BY <2>1, <2>2 DEF EfInv, EfTypes
<1>3. PICK n \in Nat \ {0}, s \in Nat :
        n = ReadPiece(off, left) /\ s = off % Word /\ n <= left /\ s + n <= Word
  <2>1. /\ off % Word \in 0 .. Word - 1 /\ ReadPiece(off, left) \in 1 .. left
        /\ (off % Word) + ReadPiece(off, left) <= Word
    BY PieceFits
  <2>2. off % Word \in Nat /\ ReadPiece(off, left) \in Nat \ {0} /\ ReadPiece(off, left) <= left
    BY <2>1, FuseSizes
  <2> QED
    BY <2>1, <2>2
<1>4. s + n <= Word /\ n <= left /\ left <= MaxFuse /\ Len(data) = Word /\ Word \in Nat /\ MaxFuse \in Nat
  BY <1>2, <1>3, FuseSizes
<1>5. PICK new \in Seq(SUBSET Bits) :
        /\ new = buf \o SubSeq(data, s + 1, s + n) /\ Len(new) = Len(buf) + n
        /\ \A i \in 1 .. Len(buf) : new[i] = buf[i]
        /\ \A i \in 1 .. n : new[Len(buf) + i] = data[s + i]
  <2>1. PICK piece \in Seq(SUBSET Bits) : piece = SubSeq(data, s + 1, s + n) /\ Len(piece) = n /\ \A i \in 1 .. n : piece[i] = data[s + i]
    <3>1. s + 1 \in 1 .. Len(data) /\ s + n \in 1 .. Len(data)
      BY <1>4, FuseSizes
    <3>2. SubSeq(data, s + 1, s + n) \in Seq(SUBSET Bits) /\ Len(SubSeq(data, s + 1, s + n)) = n
      BY <1>4, <3>1
    <3>3. ASSUME NEW i \in 1 .. n PROVE SubSeq(data, s + 1, s + n)[i] = data[s + i]
      <4>1. data \in Seq(SUBSET Bits) /\ s \in Nat /\ n \in Nat /\ s + n <= Len(data)
        BY <1>4, <3>1
      <4> QED
        BY <4>1, PieceAt
    <3> QED
      BY <1>4, <3>2, <3>3
  <2>2. PICK new \in Seq(SUBSET Bits) : new = buf \o piece
    <3>1. buf \o piece \in Seq(SUBSET Bits)
      OBVIOUS
    <3> QED
      BY <3>1
  <2>3. Len(new) = Len(buf) + n /\ \A i \in 1 .. Len(buf) : new[i] = buf[i]
    BY <1>4, <2>1, <2>2
  <2>4. \A i \in 1 .. n : new[Len(buf) + i] = data[s + i]
    BY <1>4, <2>1, <2>2
  <2> QED
    BY <1>4, <2>1, <2>2, <2>3, <2>4
<1>6. /\ job' = [job EXCEPT !.buf = new, !.left = left - n, !.off = off + n, !.at = "cell"]
  BY <1>2, <1>3, <1>5 DEF TakeData
<1>7. /\ job'.op = "read" /\ job'.off = off + n /\ job'.left = left - n /\ job'.buf = new /\ job'.at = "cell"
      /\ job'.todo = job.todo /\ job'.first = first /\ job'.was = job.was
  BY <1>3, <1>1, <1>2, <1>6 DEF EfInv, EfTypes
<1>8. EfTypes'
  <2>1. left - n \in 0 .. MaxFuse /\ off + n \in Nat
    BY <1>4, FuseSizes
  <2>2. job' \in [op : {"none", "read", "write"}, off : Nat, left : 0 .. MaxFuse, buf : Seq(SUBSET Bits),
                  at : {"idle", "cell", "reset", "wait", "bits", "burn"}, todo : SUBSET BitPlaces, first : Nat,
                  was : {<<>>} \cup FuseStates]
    BY <1>4, <1>6, <2>1 DEF EfInv, EfTypes
  <2> QED
    BY <1>4, <1>1, <2>2 DEF EfInv, EfTypes, FuseStates, BitPlaces, Total
<1>9. EfFlow'
  BY <1>4, <1>1, <1>7 DEF EfInv, EfFlow
<1>10. EfReading'
  <2>1. off = first + Len(buf) /\ Len(buf) \in Nat
    BY <1>3, <1>1, <1>2 DEF EfInv, EfReading
  <2>2. \A i \in 1 .. Len(buf) : buf[i] = fuse[Wrapped(first + i - 1)]
    BY <1>3, <1>1, <1>2 DEF EfInv, EfReading
  <2>3. \A i \in 1 .. Word : data[i] = fuse[ByteAt(Cell(off), i - 1)]
    BY <1>3, <1>1, <1>2 DEF EfInv, EfReading
  <2>4. ASSUME NEW i \in 1 .. n
        PROVE  data[s + i] = fuse[Wrapped(first + (Len(buf) + i) - 1)]
    <3>1. PICK j \in Nat : j = i - 1 /\ s + j < Word /\ s + i \in 1 .. Word /\ s + i - 1 = s + j
      BY <1>4, FuseSizes
    <3>2. Wrapped(off + j) = ByteAt(Cell(off), s + j)
      <4>1. (off % Word) + j < Word
        BY <1>3, <3>1
      <4> QED
        BY <1>3, <4>1, CellOfByte
    <3>3. first + (Len(buf) + i) - 1 = off + j
      BY <1>4, <2>1, <3>1
    <3> QED
      <4>1. data[s + i] = fuse[ByteAt(Cell(off), s + j)]
        BY <2>3, <3>1
      <4> QED
        BY <3>2, <3>3, <4>1
  <2>5. \A i \in 1 .. Len(new) : new[i] = fuse[Wrapped(first + i - 1)]
    <3> TAKE i \in 1 .. Len(new)
    <3>1. CASE i <= Len(buf)
      BY <1>4, <1>5, <2>1, <2>2, <3>1
    <3>2. CASE i > Len(buf)
      <4>1. PICK j \in 1 .. n : i = Len(buf) + j
        <5>1. i - Len(buf) \in 1 .. n /\ i = Len(buf) + (i - Len(buf))
          BY <1>4, <1>5, <2>1, <3>2
        <5> QED
          BY <1>4, <5>1
      <4> QED
        BY <1>4, <1>5, <2>4, <4>1
    <3> QED
      BY <1>4, <2>1, <3>1, <3>2
  <2>6. off + n = first + Len(new)
    BY <1>4, <1>5, <2>1
  <2> QED
    BY <1>4, <1>1, <1>7, <2>5, <2>6 DEF EfReading, Wrapped, Total
<1>11. EfReadExact' /\ EfWriteExact'
  BY <1>1 DEF EfInv, EfFlow, EfReadExact, EfWriteExact
<1>12. EfWriting'
  BY <1>7 DEF EfWriting
<1> QED
  BY <1>8, <1>9, <1>10, <1>11, <1>12 DEF EfInv

\* The bits of the next piece are chosen.
LEMMA EfChoose == EfInv /\ WriteCell => EfInv'
<1> SUFFICES ASSUME EfInv, WriteCell PROVE EfInv'
  OBVIOUS
<1>1. /\ job.op = "write" /\ job.at = "cell" /\ job.left > 0 /\ fuse' = fuse /\ ctl' = ctl /\ done' = done
      /\ done.op = "none" /\ ctl.mode = 0
  BY DEF WriteCell, EfInv, EfFlow, EfTypes
<1>2. PICK off \in Nat, left \in Nat \ {0}, first \in Nat, buf \in Seq(SUBSET Bits) :
        off = job.off /\ left = job.left /\ first = job.first /\ buf = job.buf
  <2>1. job.left \in Nat \ {0}
    BY <1>1, FuseSizes DEF EfInv, EfTypes
  <2> QED
    BY <2>1 DEF EfInv, EfTypes
<1>3. PICK d \in Nat : d = off - first /\ d + left = Len(buf)
  <2>1. job.off >= job.first /\ job.off - job.first + job.left = Len(job.buf)
    BY <1>1 DEF EfInv, EfWriting
  <2>2. off - first \in Nat
    BY <1>2, <2>1
  <2> QED
    BY <1>2, <2>1, <2>2
<1>4. PICK n \in Nat \ {0}, s \in Nat :
        n = WritePiece(off, left) /\ s = off % Word /\ n <= left /\ s + n <= Word
  <2>1. /\ off % Word \in 0 .. Word - 1 /\ WritePiece(off, left) \in 1 .. left
        /\ (off % Word) + WritePiece(off, left) <= Word
    BY PieceFits
  <2>2. off % Word \in Nat /\ WritePiece(off, left) \in Nat \ {0} /\ WritePiece(off, left) <= left
    BY <2>1, FuseSizes
  <2> QED
    BY <2>1, <2>2
<1>5. PICK todo \in SUBSET BitPlaces :
        /\ job' = [job EXCEPT !.todo = todo, !.at = "bits"]
        /\ \A i \in 0 .. Word - 1, b \in Bits : <<i, b>> \in todo <=> i \in s .. s + n - 1 /\ b \in buf[d + (i - s) + 1]
  <2>1. BitsOf(n, s) \in SUBSET BitPlaces
    BY DEF BitsOf, BitPlaces
  <2>2. job' = [job EXCEPT !.todo = BitsOf(n, s), !.at = "bits"]
    BY <1>2, <1>4 DEF WriteCell
  <2>3. \A i \in 0 .. Word - 1, b \in Bits :
          <<i, b>> \in BitsOf(n, s) <=> i \in s .. s + n - 1 /\ b \in job.buf[job.off - job.first + i - s + 1]
    BY DEF BitsOf
  <2>4. \A i \in 0 .. Word - 1 : job.off - job.first + i - s + 1 = d + (i - s) + 1
    <3>1. \A i \in Int : off - first + i - s + 1 = d + (i - s) + 1
      BY <1>3
    <3> QED
      BY <1>2, <3>1, FuseSizes
  <2> QED
    BY <1>2, <2>1, <2>2, <2>3, <2>4
<1>6. /\ job'.op = "write" /\ job'.off = off /\ job'.left = left /\ job'.buf = buf /\ job'.at = "bits"
      /\ job'.todo = todo /\ job'.first = first /\ job'.was = job.was
  BY <1>1, <1>2, <1>5 DEF EfInv, EfTypes
<1>7. EfTypes'
  <2>1. job' \in [op : {"none", "read", "write"}, off : Nat, left : 0 .. MaxFuse, buf : Seq(SUBSET Bits),
                  at : {"idle", "cell", "reset", "wait", "bits", "burn"}, todo : SUBSET BitPlaces, first : Nat,
                  was : {<<>>} \cup FuseStates]
    BY <1>5 DEF EfInv, EfTypes
  <2> QED
    BY <1>1, <2>1 DEF EfInv, EfTypes, FuseStates, BitPlaces, Total
<1>8. EfFlow'
  BY <1>1, <1>2, <1>6 DEF EfFlow
<1>9. EfReading' /\ EfReadExact' /\ EfWriteExact'
  BY <1>1, <1>6 DEF EfReading, EfReadExact, EfWriteExact
<1>10. Pending' = todo
  BY <1>1, <1>6 DEF Pending
<1>11. \A a \in 0 .. Total - 1 : Burnt(first, buf, d + n, a) = Burnt(first, buf, d, a) \cup PendingAt(a)'
  <2> TAKE a \in 0 .. Total - 1
  <2>1. \A b \in Bits : b \in PendingAt(a)' <=> \E i \in 0 .. Word - 1 : ByteAt(Cell(off), i) = a /\ <<i, b>> \in todo
    BY <1>6, <1>10 DEF PendingAt, ByteAt, Cell
  <2>2. ASSUME NEW j \in 0 .. n - 1
        PROVE  /\ Wrapped(first + (d + 1 + j) - 1) = ByteAt(Cell(off), s + j) /\ s + j \in 0 .. Word - 1
               /\ d + ((s + j) - s) + 1 = d + 1 + j /\ s + j \in s .. s + n - 1
    <3>1. j \in Nat /\ s + j < Word /\ s + j \in 0 .. Word - 1 /\ s + j \in s .. s + n - 1
      BY <1>4, FuseSizes
    <3>2. first + (d + 1 + j) - 1 = off + j /\ d + ((s + j) - s) + 1 = d + 1 + j
      BY <1>3, <3>1
    <3>3. (off % Word) + j < Word
      BY <1>4, <3>1
    <3>4. Wrapped(off + j) = ByteAt(Cell(off), s + j)
      BY <1>4, <3>1, <3>3, CellOfByte
    <3> QED
      BY <3>1, <3>2, <3>4
  <2>3. ASSUME NEW b \in Bits, b \in PendingAt(a)'
        PROVE  b \in Burnt(first, buf, d + n, a)
    <3>1. PICK i \in 0 .. Word - 1 : ByteAt(Cell(off), i) = a /\ <<i, b>> \in todo
      BY <2>1, <2>3
    <3>2. i \in s .. s + n - 1 /\ b \in buf[d + (i - s) + 1]
      BY <1>5, <3>1
    <3>3. PICK j \in 0 .. n - 1 : i = s + j
      <4>1. s \in Nat /\ n \in Nat /\ i \in s .. s + n - 1
        BY <1>4, <3>2, FuseSizes
      <4>2. i - s \in 0 .. n - 1 /\ i = s + (i - s)
        BY <4>1
      <4> QED
        BY <4>2
    <3>4. Wrapped(first + (d + 1 + j) - 1) = a /\ b \in buf[d + 1 + j]
      BY <2>2, <3>1, <3>2, <3>3
    <3>5. d + 1 + j \in 1 .. d + n
      BY <1>4
    <3> QED
      BY <3>4, <3>5 DEF Burnt
  <2>4. ASSUME NEW b \in Bits, b \in Burnt(first, buf, d + n, a), b \notin Burnt(first, buf, d, a)
        PROVE  b \in PendingAt(a)'
    <3>1. PICK k \in 1 .. d + n : Wrapped(first + k - 1) = a /\ b \in buf[k]
      BY <2>4 DEF Burnt
    <3>2. ~(k <= d)
      BY <2>4, <3>1 DEF Burnt
    <3>3. PICK j \in 0 .. n - 1 : k = d + 1 + j
      <4>1. k - d - 1 \in 0 .. n - 1 /\ k = d + 1 + (k - d - 1)
        BY <1>4, <3>2
      <4> QED
        BY <4>1
    <3>4. ByteAt(Cell(off), s + j) = a /\ s + j \in 0 .. Word - 1
      BY <2>2, <3>1, <3>3
    <3>5. <<s + j, b>> \in todo
      BY <1>5, <2>2, <3>1, <3>3, <3>4
    <3> QED
      BY <2>1, <3>4, <3>5
  <2>5. Burnt(first, buf, d, a) \subseteq Burnt(first, buf, d + n, a)
    <3>1. 1 .. d \subseteq 1 .. d + n
      BY <1>4
    <3> QED
      BY <3>1 DEF Burnt
  <2>6. Burnt(first, buf, d + n, a) \subseteq Bits /\ PendingAt(a)' \subseteq Bits
    BY DEF Burnt, PendingAt
  <2> QED
    BY <2>3, <2>4, <2>5, <2>6
<1>12. EfWriting'
  <2>1. job.was \in FuseStates
    BY <1>1 DEF EfInv, EfWriting
  <2>2. \A a \in 0 .. Total - 1 : fuse[a] = job.was[a] \cup Burnt(first, buf, d, a)
    BY <1>1, <1>2, <1>3 DEF EfInv, EfWriting
  <2>3. \A a \in 0 .. Total - 1 : fuse[a] \cup PendingAt(a)' = job.was[a] \cup Burnt(first, buf, d + n, a)
    BY <1>11, <2>2
  <2>4. off >= first /\ off - first + left = Len(buf) /\ off - first + WritePiece(off, left) = d + n
    <3>1. off \in Nat /\ first \in Nat /\ d \in Nat /\ d = off - first /\ d + left = Len(buf)
      BY <1>2, <1>3
    <3>2. off >= first /\ off - first + left = Len(buf)
      BY <3>1
    <3>3. off - first + WritePiece(off, left) = d + n
      BY <1>4, <3>1
    <3> QED
      BY <3>2, <3>3
  <2>5. \A a \in 0 .. Total - 1 : fuse'[a] \cup PendingAt(a)' =
          job'.was[a] \cup Burnt(job'.first, job'.buf, job'.off - job'.first + WritePiece(job'.off, job'.left), a)
    BY <1>1, <1>6, <2>3, <2>4
  <2>6. job'.was \in FuseStates /\ job'.off >= job'.first /\ job'.off - job'.first + job'.left = Len(job'.buf)
    BY <1>6, <2>1, <2>4
  <2>7. job'.at = "bits" /\ Pending' \subseteq BitPlaces
    BY <1>5, <1>6, <1>10
  <2> QED
    BY <2>5, <2>6, <2>7 DEF EfWriting
<1> QED
  BY <1>7, <1>8, <1>9, <1>12 DEF EfInv

\* As long as the same bits are pending, what is burnt is what it was.
LEMMA SamePending ==
    ASSUME EfInv, job.op = "write", job.at \in {"bits", "burn"}, fuse' = fuse, Pending' = Pending,
           job'.at \in {"bits", "burn"}, job'.op = job.op, job'.off = job.off, job'.left = job.left,
           job'.buf = job.buf, job'.first = job.first, job'.was = job.was,
           job'.at = "burn" => ctl'.adr.cell = Cell(job.off)
    PROVE  EfWriting'
<1>1. \A a : PendingAt(a)' = PendingAt(a)
  BY DEF PendingAt
<1>2. /\ job'.was \in FuseStates /\ job'.off >= job'.first /\ job'.off - job'.first + job'.left = Len(job'.buf)
      /\ Pending' \subseteq BitPlaces
  BY DEF EfInv, EfWriting
<1>3. \A a \in 0 .. Total - 1 : fuse'[a] \cup PendingAt(a)' =
        job'.was[a] \cup Burnt(job'.first, job'.buf, job'.off - job'.first + WritePiece(job'.off, job'.left), a)
  BY <1>1 DEF EfInv, EfWriting
<1> QED
  BY <1>2, <1>3 DEF EfWriting

\* A bit is given to the controller, and has been burnt.
LEMMA EfBit == EfInv /\ (efuse_set_bit \/ BitBurnt) => EfInv'
<1> SUFFICES ASSUME EfInv, efuse_set_bit \/ BitBurnt PROVE EfInv'
  OBVIOUS
<1>1. /\ job.op = "write" /\ job.left > 0 /\ job.at \in {"bits", "burn"} /\ fuse' = fuse /\ done' = done
      /\ ctl.mode = 0 /\ done.op = "none"
  BY DEF efuse_set_bit, BitBurnt, Ready, EfInv, EfFlow, EfTypes
<1>2. PICK now \in {"bits", "burn"}, todo \in SUBSET BitPlaces :
        /\ job' = [job EXCEPT !.todo = todo, !.at = now]
        /\ ctl' \in [mode : {0, 2, 3}, adr : [cell : 0 .. CellCount - 1, bit : (0 .. Word - 1) \X Nat],
                     data : [1 .. Word -> SUBSET Bits]]
        /\ Pending = (IF now = "burn" THEN todo \cup {ctl'.adr.bit} ELSE todo)
        /\ now = "burn" => ctl'.mode = 3 /\ ctl'.adr.cell = Cell(job.off)
        /\ now = "bits" => ctl'.mode = 0
  <2>1. CASE efuse_set_bit
    <3>1. PICK b : b = CHOOSE x \in job.todo : \A y \in job.todo : x[1] < y[1] \/ (x[1] = y[1] /\ x[2] <= y[2])
      OBVIOUS
    <3>2. job.todo \in SUBSET BitPlaces /\ b \in job.todo
      <4>1. job.todo \in SUBSET BitPlaces /\ job.todo # {}
        BY <2>1 DEF efuse_set_bit, EfInv, EfTypes
      <4> QED
        BY <3>1, <4>1, NextBit DEF BitPlaces
    <3>3. PICK adr : adr = [cell |-> Cell(job.off), bit |-> b]
      OBVIOUS
    <3>4. adr \in [cell : 0 .. CellCount - 1, bit : (0 .. Word - 1) \X Nat] /\ adr.cell = Cell(job.off) /\ adr.bit = b
      <4>1. job.off \in Nat /\ b \in (0 .. Word - 1) \X Nat
        <5>1. BitPlaces \subseteq (0 .. Word - 1) \X Nat
          BY FuseSizes DEF BitPlaces
        <5> QED
          BY <3>2, <5>1 DEF EfInv, EfTypes
      <4> QED
        BY <3>3, <4>1, CellNumber
    <3>5. ctl' = [ctl EXCEPT !.adr = adr, !.mode = 3]
      BY <2>1, <3>1, <3>3 DEF efuse_set_bit
    <3>6. /\ ctl' \in [mode : {0, 2, 3}, adr : [cell : 0 .. CellCount - 1, bit : (0 .. Word - 1) \X Nat],
                       data : [1 .. Word -> SUBSET Bits]]
          /\ ctl'.mode = 3 /\ ctl'.adr = adr
      BY <3>4, <3>5 DEF EfInv, EfTypes
    <3>7. job' = [job EXCEPT !.todo = job.todo \ {b}, !.at = "burn"]
      BY <2>1, <3>1 DEF efuse_set_bit
    <3>8. Pending = (job.todo \ {b}) \cup {b}
      BY <1>1, <3>2 DEF Pending
    <3>9. PICK t \in SUBSET BitPlaces : t = job.todo \ {b}
      BY <3>2
    <3>10. /\ job' = [job EXCEPT !.todo = t, !.at = "burn"]
           /\ Pending = t \cup {ctl'.adr.bit} /\ ctl'.mode = 3 /\ ctl'.adr.cell = Cell(job.off)
      BY <3>4, <3>6, <3>7, <3>8, <3>9
    <3> QED
      BY <3>6, <3>10
  <2>2. CASE BitBurnt
    <3>1. job' = [job EXCEPT !.todo = job.todo, !.at = "bits"]
      BY <2>2 DEF BitBurnt, EfInv, EfTypes
    <3>2. job.todo \in SUBSET BitPlaces /\ Pending = job.todo
      BY <1>1 DEF EfInv, EfTypes, Pending
    <3>3. ctl' = ctl
      BY <2>2 DEF BitBurnt
    <3> QED
      BY <1>1, <3>1, <3>2, <3>3 DEF EfInv, EfTypes
  <2> QED
    BY <2>1, <2>2
<1>3. /\ job'.op = job.op /\ job'.off = job.off /\ job'.left = job.left /\ job'.buf = job.buf /\ job'.at = now
      /\ job'.todo = todo /\ job'.first = job.first /\ job'.was = job.was
  BY <1>2 DEF EfInv, EfTypes
<1>4. EfTypes'
  <2>1. job' \in [op : {"none", "read", "write"}, off : Nat, left : 0 .. MaxFuse, buf : Seq(SUBSET Bits),
                  at : {"idle", "cell", "reset", "wait", "bits", "burn"}, todo : SUBSET BitPlaces, first : Nat,
                  was : {<<>>} \cup FuseStates]
    BY <1>2 DEF EfInv, EfTypes
  <2> QED
    BY <1>1, <1>2, <2>1 DEF EfInv, EfTypes, FuseStates, BitPlaces, Total
<1>5. EfFlow'
  BY <1>1, <1>2, <1>3 DEF EfFlow
<1>6. EfReading' /\ EfReadExact' /\ EfWriteExact'
  BY <1>1, <1>3 DEF EfReading, EfReadExact, EfWriteExact
<1>7. Pending' = Pending
  BY <1>2, <1>3 DEF Pending
<1>8. EfWriting'
  BY <1>1, <1>2, <1>3, <1>7, SamePending
<1> QED
  BY <1>4, <1>5, <1>6, <1>8 DEF EfInv

\* A piece is done.
LEMMA EfPiece == EfInv /\ CellWritten => EfInv'
<1> SUFFICES ASSUME EfInv, CellWritten PROVE EfInv'
  OBVIOUS
<1>1. /\ job.op = "write" /\ job.at = "bits" /\ job.todo = {} /\ job.left > 0
      /\ fuse' = fuse /\ ctl' = ctl /\ done' = done /\ ctl.mode = 0 /\ done.op = "none"
  BY DEF CellWritten, EfInv, EfFlow, EfTypes
<1>2. PICK off \in Nat, left \in Nat \ {0}, first \in Nat, buf \in Seq(SUBSET Bits) :
        off = job.off /\ left = job.left /\ first = job.first /\ buf = job.buf
  <2>1. job.left \in Nat \ {0}
    BY <1>1, FuseSizes DEF EfInv, EfTypes
  <2> QED
    BY <2>1 DEF EfInv, EfTypes
<1>3. PICK n \in Nat \ {0} : n = WritePiece(off, left) /\ n <= left
  <2>1. WritePiece(off, left) \in 1 .. left
    BY PieceFits
  <2>2. WritePiece(off, left) \in Nat \ {0} /\ WritePiece(off, left) <= left
    BY <2>1
  <2> QED
    BY <2>2
<1>4. job' = [job EXCEPT !.left = left - n, !.off = off + n, !.at = "cell"]
  BY <1>2, <1>3 DEF CellWritten
<1>5. left - n \in 0 .. MaxFuse /\ off + n \in Nat
  <2>1. left <= MaxFuse /\ MaxFuse \in Nat
    BY <1>2, FuseSizes DEF EfInv, EfTypes
  <2> QED
    BY <1>3, <2>1
<1>6. /\ job'.op = "write" /\ job'.off = off + n /\ job'.left = left - n /\ job'.buf = buf /\ job'.at = "cell"
      /\ job'.todo = {} /\ job'.first = first /\ job'.was = job.was
  BY <1>1, <1>2, <1>4 DEF EfInv, EfTypes
<1>7. EfTypes'
  <2>1. job' \in [op : {"none", "read", "write"}, off : Nat, left : 0 .. MaxFuse, buf : Seq(SUBSET Bits),
                  at : {"idle", "cell", "reset", "wait", "bits", "burn"}, todo : SUBSET BitPlaces, first : Nat,
                  was : {<<>>} \cup FuseStates]
    BY <1>4, <1>5 DEF EfInv, EfTypes
  <2> QED
    BY <1>1, <2>1 DEF EfInv, EfTypes, FuseStates, BitPlaces, Total
<1>8. EfFlow'
  BY <1>1, <1>6 DEF EfFlow
<1>9. EfReading' /\ EfReadExact' /\ EfWriteExact'
  BY <1>1, <1>6 DEF EfReading, EfReadExact, EfWriteExact
<1>10. EfWriting'
  <2>1. job.was \in FuseStates /\ off >= first /\ off - first + left = Len(buf)
    BY <1>1, <1>2 DEF EfInv, EfWriting
  <2>2. Pending = {} /\ Pending' = {}
    BY <1>1, <1>6 DEF Pending
  <2>3. \A a \in 0 .. Total - 1 : fuse[a] \cup PendingAt(a) = job.was[a] \cup Burnt(first, buf, off - first + n, a)
    BY <1>1, <1>2, <1>3 DEF EfInv, EfWriting
  <2>4. \A a : PendingAt(a) = {}
    BY <2>2 DEF PendingAt
  <2>5. off + n >= first /\ off + n - first = off - first + n /\ (off + n) - first + (left - n) = Len(buf)
    BY <1>3, <2>1
  <2>6. \A a \in 0 .. Total - 1 : fuse'[a] = job'.was[a] \cup Burnt(job'.first, job'.buf, job'.off - job'.first, a)
    <3>1. job'.off - job'.first = off - first + n
      BY <1>6, <2>5
    <3>2. \A a \in 0 .. Total - 1 : fuse[a] = job.was[a] \cup Burnt(first, buf, off - first + n, a)
      BY <2>3, <2>4
    <3> QED
      BY <1>1, <1>6, <3>1, <3>2
  <2>7. job'.was \in FuseStates /\ job'.off >= job'.first /\ job'.off - job'.first + job'.left = Len(job'.buf)
    BY <1>6, <2>1, <2>5
  <2> QED
    BY <1>6, <2>2, <2>6, <2>7 DEF EfWriting
<1> QED
  BY <1>7, <1>8, <1>9, <1>10 DEF EfInv

\* The controller has read a cell.
LEMMA EfCellRead == EfInv /\ ControllerReads => EfInv'
<1> SUFFICES ASSUME EfInv, ControllerReads PROVE EfInv'
  OBVIOUS
<1>1. /\ ctl.mode = 2 /\ job.at = "wait" /\ job.op = "read" /\ job' = job /\ fuse' = fuse /\ done' = done
  BY DEF ControllerReads, EfInv, EfFlow
<1>2. PICK c \in 0 .. CellCount - 1 : c = ctl.adr.cell /\ c = Cell(job.off)
  BY <1>1 DEF EfInv, EfTypes, EfReading
<1>3. PICK data \in [1 .. Word -> SUBSET Bits] :
        /\ ctl' = [ctl EXCEPT !.mode = 0, !.data = data]
        /\ \A i \in 1 .. Word : data[i] = fuse[ByteAt(c, i - 1)]
  <2>1. \A i \in 1 .. Word : fuse[ByteAt(c, i - 1)] \in SUBSET Bits
    <3> TAKE i \in 1 .. Word
    <3>1. i - 1 \in 0 .. Word - 1
      BY FuseSizes
    <3>2. ByteAt(c, i - 1) \in 0 .. Total - 1
      BY <3>1, ByteInside
    <3> QED
      BY <3>2 DEF EfInv, EfTypes, FuseStates
  <2>2. PICK data : data = [i \in 1 .. Word |-> fuse[ByteAt(c, i - 1)]]
    OBVIOUS
  <2>3. data \in [1 .. Word -> SUBSET Bits]
    BY <2>1, <2>2
  <2> QED
    BY <1>2, <2>2, <2>3 DEF ControllerReads
<1>4. /\ ctl' \in [mode : {0, 2, 3}, adr : [cell : 0 .. CellCount - 1, bit : (0 .. Word - 1) \X Nat],
                   data : [1 .. Word -> SUBSET Bits]]
      /\ ctl'.mode = 0 /\ ctl'.adr = ctl.adr /\ ctl'.data = data
  BY <1>3 DEF EfInv, EfTypes
<1>5. EfTypes' /\ EfFlow'
  BY <1>1, <1>4 DEF EfInv, EfTypes, EfFlow
<1>6. EfReading'
  BY <1>1, <1>2, <1>3, <1>4 DEF EfInv, EfReading
<1>7. EfWriting' /\ EfReadExact' /\ EfWriteExact'
  BY <1>1 DEF EfInv, EfFlow, EfWriting, EfReadExact, EfWriteExact
<1> QED
  BY <1>5, <1>6, <1>7 DEF EfInv

\* The controller has burnt a bit: it is no longer pending.
LEMMA EfBurn == EfInv /\ ControllerBurns => EfInv'
<1> SUFFICES ASSUME EfInv, ControllerBurns PROVE EfInv'
  OBVIOUS
<1>1. /\ ctl.mode = 3 /\ job.at = "burn" /\ job.op = "write" /\ job' = job /\ done' = done /\ done.op = "none"
      /\ ctl' = [ctl EXCEPT !.mode = 0]
  BY DEF ControllerBurns, EfInv, EfFlow
<1>2. PICK c \in 0 .. CellCount - 1 : c = ctl.adr.cell /\ c = Cell(job.off)
  BY <1>1 DEF EfInv, EfTypes, EfWriting
<1>3. PICK i \in 0 .. Word - 1, b \in Bits : ctl.adr.bit = <<i, b>>
  <2>1. ctl.adr.bit \in BitPlaces
    BY <1>1 DEF EfInv, EfWriting, Pending
  <2> QED
    BY <2>1 DEF BitPlaces
<1>4. PICK p \in 0 .. Total - 1 : p = ByteAt(c, i)
  BY ByteInside
<1>5. fuse' = [fuse EXCEPT ![p] = @ \cup {b}]
  BY <1>2, <1>3, <1>4 DEF ControllerBurns
<1>6. /\ fuse' \in FuseStates /\ fuse'[p] = fuse[p] \cup {b} /\ \A a \in 0 .. Total - 1 : a # p => fuse'[a] = fuse[a]
  BY <1>5 DEF EfInv, EfTypes, FuseStates
<1>7. /\ ctl' \in [mode : {0, 2, 3}, adr : [cell : 0 .. CellCount - 1, bit : (0 .. Word - 1) \X Nat],
                   data : [1 .. Word -> SUBSET Bits]]
      /\ ctl'.mode = 0 /\ ctl'.adr = ctl.adr
  BY <1>1 DEF EfInv, EfTypes
<1>8. EfTypes' /\ EfFlow'
  <2>1. EfTypes'
    <3>1. job' = job /\ done' = done /\ EfTypes
      BY <1>1 DEF EfInv
    <3> QED
      BY <3>1, <1>6, <1>7 DEF EfTypes
  <2>2. EfFlow'
    <3>1. /\ job' = job /\ done' = done /\ done.op = "none" /\ ctl'.mode = 0
          /\ job.at = "burn" /\ job.op = "write" /\ job.left > 0
      BY <1>1, <1>7 DEF EfInv, EfFlow
    <3> QED
      BY <3>1 DEF EfFlow
  <2> QED
    BY <2>1, <2>2
<1>9. EfReading' /\ EfReadExact' /\ EfWriteExact'
  BY <1>1 DEF EfReading, EfReadExact, EfWriteExact
<1>10. Pending = Pending' \cup {<<i, b>>}
  BY <1>1, <1>3, <1>7 DEF Pending
<1>11. \A a \in 0 .. Total - 1 : PendingAt(a) = PendingAt(a)' \cup (IF a = p THEN {b} ELSE {})
  <2> TAKE a \in 0 .. Total - 1
  <2>1. \A x \in Bits : x \in PendingAt(a) <=> \E j \in 0 .. Word - 1 : ByteAt(c, j) = a /\ <<j, x>> \in Pending
    BY <1>2 DEF PendingAt
  <2>2. \A x \in Bits : x \in PendingAt(a)' <=> \E j \in 0 .. Word - 1 : ByteAt(c, j) = a /\ <<j, x>> \in Pending'
    BY <1>1, <1>2 DEF PendingAt
  <2>3. \A x \in Bits : x \in PendingAt(a) <=> x \in PendingAt(a)' \/ (a = p /\ x = b)
    <3> TAKE x \in Bits
    <3>1. \A j \in 0 .. Word - 1 : <<j, x>> \in Pending <=> <<j, x>> \in Pending' \/ (j = i /\ x = b)
      BY <1>10
    <3>2. CASE x = b
      BY <1>4, <2>1, <2>2, <3>1, <3>2
    <3>3. CASE x # b
      BY <2>1, <2>2, <3>1, <3>3
    <3> QED
      BY <3>2, <3>3
  <2>4. PendingAt(a) \subseteq Bits /\ PendingAt(a)' \subseteq Bits
    BY DEF PendingAt
  <2> QED
    BY <2>3, <2>4
<1>12. \A a \in 0 .. Total - 1 : fuse'[a] \cup PendingAt(a)' = fuse[a] \cup PendingAt(a)
  BY <1>6, <1>11
<1>13. EfWriting'
  <2>1. \A a \in 0 .. Total - 1 : fuse'[a] \cup PendingAt(a)' =
          job.was[a] \cup Burnt(job.first, job.buf, job.off - job.first + WritePiece(job.off, job.left), a)
    BY <1>1, <1>12 DEF EfInv, EfWriting
  <2>2. Pending' \subseteq BitPlaces /\ ctl'.adr.cell = Cell(job.off)
    BY <1>1, <1>2, <1>7, <1>10 DEF EfInv, EfWriting
  <2>3. job.was \in FuseStates /\ job.off >= job.first /\ job.off - job.first + job.left = Len(job.buf)
    BY <1>1 DEF EfInv, EfWriting
  <2> QED
    BY <1>1, <2>1, <2>2, <2>3 DEF EfWriting
<1> QED
  BY <1>8, <1>9, <1>13 DEF EfInv

\* Every step of the driver, of the controller and of a caller.
LEMMA EfStep == EfInv /\ [EfNext]_efVars => EfInv'
<1> SUFFICES ASSUME EfInv, [EfNext]_efVars PROVE EfInv'
  OBVIOUS
<1>1. CASE UNCHANGED efVars
  <2>1. fuse' = fuse /\ ctl' = ctl /\ job' = job /\ done' = done
    BY <1>1 DEF efVars
  <2>2. EfTypes' /\ EfFlow' /\ EfReading'
    BY <2>1 DEF EfInv, EfTypes, EfFlow, EfReading
  <2>3. Pending' = Pending /\ \A a : PendingAt(a)' = PendingAt(a)
    BY <2>1 DEF Pending, PendingAt
  <2>4. EfWriting'
    BY <2>1, <2>3 DEF EfInv, EfWriting
  <2>5. EfReadExact' /\ EfWriteExact'
    BY <2>1 DEF EfInv, EfReadExact, EfWriteExact
  <2> QED
    BY <2>2, <2>4, <2>5 DEF EfInv
<1>2. CASE \E off \in Offsets, n \in 0 .. MaxFuse : efuse_read(off, n) \/ \E d \in Data(n) : efuse_write(off, d)
  <2>1. PICK off \in Offsets, n \in 0 .. MaxFuse : efuse_read(off, n) \/ \E d \in Data(n) : efuse_write(off, d)
    BY <1>2
  <2>2. off \in Nat /\ n \in Nat
    BY FuseSizes DEF Offsets
  <2>3. CASE efuse_read(off, n)
    <3>1. <<>> \in Seq(SUBSET Bits) /\ Len(<<>>) = 0
      OBVIOUS
    <3>2. Access("read", off, n, <<>>)
      BY <2>3 DEF efuse_read
    <3>3. PICK op \in {"read", "write"}, data \in Seq(SUBSET Bits) : op = "read" /\ data = <<>>
      BY <3>1
    <3>4. Access(op, off, n, data) /\ Len(data) = IF op = "write" THEN n ELSE 0
      BY <3>1, <3>2, <3>3
    <3>5. off \in Nat /\ n \in 0 .. MaxFuse
      BY <2>1, <2>2
    <3> QED
      BY <3>3, <3>4, <3>5, EfAccess
  <2>4. CASE \E d \in Data(n) : efuse_write(off, d)
    <3>1. PICK d \in Data(n) : efuse_write(off, d)
      BY <2>4
    <3>2. d \in Seq(SUBSET Bits) /\ Len(d) = n
      <4>1. d \in [1 .. n -> SUBSET Bits]
        BY EfuseAssumption DEF Data
      <4> QED
        BY <2>2, <4>1
    <3>3. Access("write", off, n, d)
      BY <3>1, <3>2 DEF efuse_write
    <3>4. PICK op \in {"read", "write"}, data \in Seq(SUBSET Bits) : op = "write" /\ data = d
      BY <3>2
    <3>5. Access(op, off, n, data) /\ Len(data) = IF op = "write" THEN n ELSE 0
      BY <3>2, <3>3, <3>4
    <3>6. off \in Nat /\ n \in 0 .. MaxFuse
      BY <2>1, <2>2
    <3> QED
      BY <3>4, <3>5, <3>6, EfAccess
  <2> QED
    BY <2>1, <2>3, <2>4
<1>3. CASE Driver
  BY <1>3, EfReturn, EfAsk, EfTake, EfChoose, EfBit, EfPiece DEF Driver
<1>4. CASE Controller
  BY <1>4, EfCellRead, EfBurn DEF Controller
<1> QED
  BY <1>1, <1>2, <1>3, <1>4 DEF EfNext

\* Whatever the size of a cell and the number of cells, and however an access
\* lies over them: a read returns the bytes at its offset, and a write burns
\* exactly the bits it was given, at its offset (efuse_read, efuse_write).
THEOREM FusesExact == EfSpec => []EfuseExact
<1>1. EfInit => EfInv
  BY EfStart
<1>2. EfInv /\ [EfNext]_efVars => EfInv'
  BY EfStep
<1>3. EfInv => EfuseExact
  BY DEF EfInv, EfTypes, EfuseExact, EfTypeOK, FuseStates
<1> QED
  BY <1>1, <1>2, <1>3, PTL DEF EfSpec

-----------------------------------------------------------------------------
(* Boot devices: the order of the list.                                    *)

\* Induction, for sets of naturals.
LEMMA SetInduction ==
    ASSUME NEW T, T \subseteq Nat, 0 \in T, \A n \in T : n + 1 \in T
    PROVE  Nat \subseteq T
<1> SUFFICES ASSUME Nat \ T # {} PROVE FALSE
  OBVIOUS
<1>1. PICK x \in Nat \ T : \A y \in Nat \ T : x <= y
  <2>1. Nat \ T \subseteq Nat
    OBVIOUS
  <2> QED
    BY <2>1, LeastNatural
<1>2. x # 0 /\ x - 1 \in Nat
  BY <1>1
<1>3. x - 1 \in T
  BY <1>1, <1>2
<1>4. (x - 1) + 1 = x
  BY <1>2
<1> QED
  BY <1>1, <1>3, <1>4

\* Numbers taken from a sequence, and one more, have a greatest.
LEMMA HasGreatest ==
    ASSUME NEW N \in Nat, NEW g \in [1 .. N -> Int], NEW c \in Int, NEW D \in SUBSET (1 .. N)
    PROVE  \E x \in Int : (x = c \/ \E k \in D : x = g[k]) /\ c <= x /\ \A k \in D : g[k] <= x
<1> DEFINE All(E) == {g[k] : k \in E} \cup {c}
           Has(E) == \E x \in All(E) : \A y \in All(E) : y <= x
           T == {n \in Nat : n <= N => \A E \in SUBSET (1 .. n) : Has(E)}
<1>1. 0 \in T
  <2>1. \A E \in SUBSET (1 .. 0) : All(E) = {c}
    OBVIOUS
  <2> QED
    BY <2>1
<1>2. ASSUME NEW n \in T PROVE n + 1 \in T
  <2> SUFFICES ASSUME n + 1 <= N, NEW E \in SUBSET (1 .. n + 1)
               PROVE Has(E)
    <3> HIDE DEF Has
    <3> QED
      OBVIOUS
  <2>1. E \ {n + 1} \in SUBSET (1 .. n) /\ n \in Nat /\ n <= N
    OBVIOUS
  <2>2. Has(E \ {n + 1})
    <3> HIDE DEF Has
    <3> QED
      BY <2>1
  <2>3. PICK x \in All(E \ {n + 1}) : \A y \in All(E \ {n + 1}) : y <= x
    BY <2>2
  <2>4. g[n + 1] \in Int /\ \A y \in All(E) : y \in Int
    BY <2>1
  <2>5. All(E \ {n + 1}) \subseteq All(E) /\ x \in Int
    BY <2>4
  <2>6. \A y \in All(E) : y \in All(E \ {n + 1}) \/ (n + 1 \in E /\ y = g[n + 1])
    OBVIOUS
  <2>7. n + 1 \in E => g[n + 1] \in All(E)
    OBVIOUS
  <2> HIDE DEF All
  <2>8. CASE n + 1 \in E /\ x < g[n + 1]
    <3>1. ASSUME NEW y \in All(E) PROVE y <= g[n + 1]
      <4>1. y \in Int /\ (y <= x \/ y = g[n + 1])
        BY <2>3, <2>4, <2>6
      <4> QED
        BY <4>1, <2>4, <2>5, <2>8
    <3> QED
      BY <3>1, <2>7, <2>8
  <2>9. CASE ~(n + 1 \in E /\ x < g[n + 1])
    <3>1. ASSUME NEW y \in All(E) PROVE y <= x
      <4>1. y \in Int /\ (y <= x \/ (n + 1 \in E /\ y = g[n + 1]))
        BY <2>3, <2>4, <2>6
      <4> QED
        BY <4>1, <2>4, <2>5, <2>9
    <3> QED
      BY <3>1, <2>3, <2>5
  <2> QED
    BY <2>8, <2>9
<1> HIDE DEF Has
<1>3. N \in T
  <2>1. T \subseteq Nat
    OBVIOUS
  <2> HIDE DEF T
  <2> QED
    BY <1>1, <1>2, <2>1, SetInduction
<1>4. Has(D)
  BY <1>3
<1>5. PICK x \in All(D) : \A y \in All(D) : y <= x
  BY <1>4 DEF Has
<1>6. c \in All(D) /\ \A k \in D : g[k] \in All(D) /\ g[k] \in Int
  OBVIOUS
<1>7. c <= x /\ \A k \in D : g[k] <= x
  <2> HIDE DEF All
  <2> QED
    BY <1>5, <1>6
<1> QED
  BY <1>5, <1>7

\* The list in order of priorities.
Sorted(l) == \A j, k \in 1 .. Len(l) : j <= k => l[j].prio <= l[k].prio

\* A nonempty part of a list has a first device of smallest priority.
LEMMA HasSmallest ==
    ASSUME NEW n \in Nat, NEW g \in [1 .. n -> Nat], NEW i \in 1 .. n
    PROVE  \E j \in i .. n : \A k \in i .. n : g[j] < g[k] \/ (g[j] = g[k] /\ j <= k)
<1>1. PICK p \in {g[k] : k \in i .. n} : \A q \in {g[k] : k \in i .. n} : p <= q
  <2>1. {g[k] : k \in i .. n} \subseteq Nat /\ g[i] \in {g[k] : k \in i .. n}
    OBVIOUS
  <2> QED
    BY <2>1, LeastNatural
<1>2. PICK j \in {k \in i .. n : g[k] = p} : \A k \in {k \in i .. n : g[k] = p} : j <= k
  <2>1. {k \in i .. n : g[k] = p} \subseteq Nat /\ {k \in i .. n : g[k] = p} # {}
    BY <1>1
  <2> QED
    BY <2>1, LeastNatural
<1>3. p \in Nat /\ \A k \in i .. n : k \in Nat /\ g[k] \in Nat /\ p <= g[k]
  BY <1>1
<1>4. j \in i .. n /\ j \in Nat /\ g[j] = p
  BY <1>2
<1>5. ASSUME NEW k \in i .. n PROVE g[j] < g[k] \/ (g[j] = g[k] /\ j <= k)
  <2>1. CASE g[k] = p
    BY <2>1, <1>2, <1>4
  <2>2. CASE g[k] # p
    BY <2>2, <1>3, <1>4
  <2> QED
    BY <2>1, <2>2
<1> QED
  BY <1>4, <1>5

\* sort_device puts any list in order, and neither loses nor doubles a device: by
\* induction over its rounds.
THEOREM SortSorts ==
    ASSUME NEW D, \A d \in D : d.prio \in Nat, NEW l \in Seq(D)
    PROVE  /\ sort_device(l) \in Seq(D) /\ Len(sort_device(l)) = Len(l)
           /\ Sorted(sort_device(l))
           /\ \E p \in [1 .. Len(l) -> 1 .. Len(l)] :
                IsInjective(p) /\ \A k \in 1 .. Len(l) : sort_device(l)[k] = l[p[k]]
<1> DEFINE Swap(m, i, j) == [m EXCEPT ![i] = m[j], ![j] = m[i]]
           Smallest(m, i) == CHOOSE j \in i .. Len(m) :
               \A k \in i .. Len(m) : m[j].prio < m[k].prio \/ (m[j].prio = m[k].prio /\ j <= k)
           Step(m, i) == Swap(m, i, Smallest(m, i))
           S[i \in 0 .. Len(l)] == IF i = 0 THEN l ELSE Swap(S[i - 1], i, Smallest(S[i - 1], i))
           n == Len(l)
<1>1. sort_device(l) = S[Len(l)]
  BY DEF sort_device
<1>2. S = [i \in 0 .. Len(l) |-> IF i = 0 THEN l ELSE Step(S[i - 1], i)]
  <2> DEFINE Is(f, m) == f = [i \in 0 .. m |-> IF i = 0 THEN l ELSE Step(f[i - 1], i)]
             T == {m \in Nat : \E f : Is(f, m)}
  <2> HIDE DEF Step
  <2>1. 0 \in T
    <3>1. Is([i \in 0 .. 0 |-> l], 0)
      OBVIOUS
    <3> QED
      BY <3>1
  <2>2. ASSUME NEW m \in T PROVE m + 1 \in T
    <3>1. PICK f : Is(f, m)
      OBVIOUS
    <3> DEFINE h == [i \in 0 .. m + 1 |-> IF i = m + 1 THEN Step(f[m], i) ELSE f[i]]
    <3>2. \A i \in 0 .. m : h[i] = IF i = 0 THEN l ELSE Step(h[i - 1], i)
      BY <3>1
    <3>3. h[m + 1] = Step(h[(m + 1) - 1], m + 1)
      OBVIOUS
    <3>4. Is(h, m + 1)
      <4> HIDE DEF h
      <4>0. 0 .. m + 1 = (0 .. m) \cup {m + 1} /\ m + 1 # 0
        OBVIOUS
      <4>1. \A i \in 0 .. m + 1 : h[i] = IF i = 0 THEN l ELSE Step(h[i - 1], i)
        BY <4>0, <3>2, <3>3
      <4>2. h = [i \in 0 .. m + 1 |-> h[i]]
        BY DEF h
      <4> QED
        BY <4>1, <4>2
    <3> HIDE DEF h, Is
    <3> QED
      BY <3>4
  <2>3. PICK f : Is(f, Len(l))
    <3>1. T \subseteq Nat /\ Len(l) \in Nat
      OBVIOUS
    <3>2. Len(l) \in T
      <4> HIDE DEF T
      <4> QED
        BY <2>1, <2>2, <3>1, SetInduction
    <3> QED
      BY <3>2
  <2> QED
    BY <2>3 DEF Step
<1>3. S[0] = l /\ \A i \in 1 .. n : S[i] = Step(S[i - 1], i)
  <2> HIDE DEF S, Step
  <2>1. \A i \in 1 .. n : i \in 0 .. n /\ i # 0
    OBVIOUS
  <2> QED
    BY <1>2, <2>1
<1> HIDE DEF S
<1> DEFINE Permuted(m) == \E p \in [1 .. n -> 1 .. n] : IsInjective(p) /\ \A k \in 1 .. n : m[k] = l[p[k]]
           Least(m, i) == \A j \in 1 .. i, k \in 1 .. n : j <= k => m[j].prio <= m[k].prio
           Chosen(m, i) == m \in Seq(D) /\ Len(m) = n /\ Least(m, i) /\ Permuted(m)
           T == {i \in Nat : i <= n => Chosen(S[i], i)}
<1>4. 0 \in T
  <2>1. Permuted(l)
    <3> DEFINE p == [k \in 1 .. n |-> k]
    <3>1. p \in [1 .. n -> 1 .. n] /\ IsInjective(p) /\ \A k \in 1 .. n : l[k] = l[p[k]]
      BY DEF IsInjective
    <3> QED
      BY <3>1
  <2> HIDE DEF Permuted
  <2> QED
    BY <2>1, <1>3
<1>5. ASSUME NEW m, NEW i \in 1 .. n, Chosen(m, i - 1)
      PROVE  Chosen(Step(m, i), i)
  <2> DEFINE j == Smallest(m, i)
  <2>1. n \in Nat /\ m \in Seq(D) /\ Len(m) = n /\ DOMAIN m = 1 .. n /\ \A k \in 1 .. n : m[k] \in D /\ m[k].prio \in Nat
    BY <1>5
  <2>2. j \in i .. n /\ \A k \in i .. n : m[j].prio <= m[k].prio
    <3> DEFINE g == [k \in 1 .. n |-> m[k].prio]
    <3>1. g \in [1 .. n -> Nat] /\ \A k \in i .. n : k \in 1 .. n /\ g[k] = m[k].prio
      BY <2>1
    <3> HIDE DEF g
    <3>2. \E h \in i .. n : \A k \in i .. n : g[h] < g[k] \/ (g[h] = g[k] /\ h <= k)
      BY <2>1, <3>1, HasSmallest
    <3>3. \E h \in i .. Len(m) : \A k \in i .. Len(m) : m[h].prio < m[k].prio \/ (m[h].prio = m[k].prio /\ h <= k)
      <4>1. PICK h \in i .. n : \A k \in i .. n : g[h] < g[k] \/ (g[h] = g[k] /\ h <= k)
        BY <3>2
      <4>2. \A k \in i .. n : m[h].prio < m[k].prio \/ (m[h].prio = m[k].prio /\ h <= k)
        BY <3>1, <4>1
      <4>3. Len(m) = n
        BY <2>1
      <4> QED
        BY <4>2, <4>3
    <3>4. j \in i .. Len(m) /\ \A k \in i .. Len(m) : m[j].prio < m[k].prio \/ (m[j].prio = m[k].prio /\ j <= k)
      BY <3>3
    <3> HIDE DEF j
    <3> QED
      BY <2>1, <3>1, <3>4
  <2> HIDE DEF j
  <2> DEFINE t == [m EXCEPT ![i] = m[j], ![j] = m[i]]
  <2>3. Step(m, i) = t
    BY DEF j
  <2>4. i \in 1 .. n /\ j \in 1 .. n
    BY <2>1, <2>2
  <2>5. /\ t \in Seq(D) /\ Len(t) = n
        /\ t[i] = m[j] /\ t[j] = m[i] /\ \A k \in 1 .. n : k # i /\ k # j => t[k] = m[k]
    BY <2>1, <2>4
  <2> HIDE DEF t
  <2>6. Least(t, i)
    <3> SUFFICES ASSUME NEW a \in 1 .. i, NEW b \in 1 .. n, a <= b PROVE t[a].prio <= t[b].prio
      OBVIOUS
    <3>1. \A c \in 1 .. i - 1, k \in 1 .. n : c <= k => m[c].prio <= m[k].prio
      BY <1>5
    <3>2. a \in 1 .. n
      BY <2>1
    <3>3. CASE a < i
      <4>1. t[a] = m[a] /\ a \in 1 .. i - 1 /\ a <= i /\ a <= j
        BY <2>2, <2>5, <3>2, <3>3
      <4>2. t[b] = m[b] \/ t[b] = m[i] \/ t[b] = m[j]
        BY <2>5
      <4> QED
        BY <3>1, <4>1, <4>2, <2>4
    <3>4. CASE a = i
      <4>1. b \in i .. n
        BY <3>4
      <4>2. t[b] = m[b] \/ t[b] = m[i] \/ t[b] = m[j]
        BY <2>5
      <4>3. i \in i .. n
        BY <2>4
      <4> QED
        BY <3>4, <4>1, <4>2, <4>3, <2>2, <2>5
    <3> QED
      BY <3>3, <3>4
  <2>7. Permuted(t)
    <3>1. PICK p \in [1 .. n -> 1 .. n] : IsInjective(p) /\ \A k \in 1 .. n : m[k] = l[p[k]]
      BY <1>5
    <3> DEFINE q == [p EXCEPT ![i] = p[j], ![j] = p[i]]
    <3>2. /\ q \in [1 .. n -> 1 .. n] /\ q[i] = p[j] /\ q[j] = p[i]
          /\ \A k \in 1 .. n : k # i /\ k # j => q[k] = p[k]
      BY <2>4
    <3> HIDE DEF q
    <3>3. \A a, b \in 1 .. n : p[a] = p[b] => a = b
      BY <3>1 DEF IsInjective
    <3>4. \A a, b \in 1 .. n : q[a] = q[b] => a = b
      BY <3>2, <3>3, <2>4
    <3>5. IsInjective(q)
      BY <3>2, <3>4 DEF IsInjective
    <3>6. \A k \in 1 .. n : t[k] = l[q[k]]
      BY <3>1, <3>2, <2>4, <2>5
    <3> QED
      BY <3>2, <3>5, <3>6
  <2> QED
    BY <2>3, <2>5, <2>6, <2>7
<1>6. ASSUME NEW i \in T PROVE i + 1 \in T
  <2> HIDE DEF Chosen, Step
  <2> SUFFICES ASSUME i + 1 <= n PROVE Chosen(S[i + 1], i + 1)
    OBVIOUS
  <2>1. Chosen(S[i], i) /\ i \in Nat /\ i + 1 \in 1 .. n /\ (i + 1) - 1 = i
    OBVIOUS
  <2>2. S[i + 1] = Step(S[i], i + 1)
    BY <2>1, <1>3
  <2> QED
    BY <2>1, <2>2, <1>5
<1> HIDE DEF Chosen
<1>7. Chosen(S[n], n)
  <2>1. T \subseteq Nat /\ n \in Nat
    OBVIOUS
  <2>2. n \in T
    <3> HIDE DEF T
    <3> QED
      BY <2>1, <1>4, <1>6, SetInduction
  <2> QED
    BY <2>2
<1> QED
  BY <1>1, <1>7 DEF Chosen, Sorted

(* Boot devices: the invariant.                                            *)
OnDisk == [alias : STRING, fat : BOOLEAN, files : [Files -> Nat]]
OnMtd == [alias : STRING, boot : BOOLEAN, cfg : Int, files : [Files -> Nat]]
Block == [mtd : BOOLEAN, i : Nat]
Device == [type : {"fat", "mtd", "cfg"}, alias : STRING, i : Nat, vol : -1 .. Volumes, prio : Nat, disabled : BOOLEAN]

\* A block device wraps a disk or an MTD that is there.
Wraps(b) == b.i \in 1 .. Len(IF b.mtd THEN Mtds ELSE Disks)

\* The types.
BdTypes ==
    /\ board \in Boards
    /\ stage \in [at : 1 .. Len(Stages), i : Nat \ {0}]
    /\ blks \in Seq(Block)
    /\ \A k \in 1 .. Len(blks) : Wraps(blks[k])
    /\ fatio_list \in [Slots -> [by : {"nobody", "vfs", "sgfat", "freed"}, blk : Nat]]
    /\ \A m \in mounts : m.vol \in -1 .. Volumes - 1
    /\ anon \in Nat /\ prios \in Nat /\ faults \in 0 .. MaxFaults
    /\ list \in Seq(Device)
    /\ sizes \in [file : Files \cup {"none"}, size : Int, bad : BOOLEAN]
    /\ got \in [file : Files, dev : Nat, n : Int, size : Int] /\ (got.n = -5 \/ got.n > 0)

\* A boot device stands for a disk or an MTD that is there, and one on a volume
\* holds the volume it registered.
Backed(d) ==
    /\ d.i \in 1 .. Len(IF d.type = "fat" THEN blks ELSE Mtds)
    /\ d.type = "fat" => d.vol >= 0 /\ (d.vol < Volumes => fatio_list[d.vol] = [by |-> "sgfat", blk |-> d.i])

\* So does a mount.
MountsOwned == \A m \in mounts : m.vol >= 0 => fatio_list[m.vol] = [by |-> "vfs", blk |-> m.blk]

\* Before main no device has a priority.
NoPriorities == In("main") \/ \A k \in Devs : list[k].prio = 0

\* What bdm_get_file_size has said holds of all devices, unless one failed.
Told == sizes.file \in Files =>
    In("main") /\ (sizes.bad \/ \A k \in Devs : Size(list[k], sizes.file) <= sizes.size)

BdInv ==
    /\ BdTypes /\ \A k \in Devs : Backed(list[k])
    /\ MountsOwned /\ WrappedOnce /\ MountPoints
    /\ Sorted(list) /\ NoPriorities /\ Told /\ LoadFits

\* The disks and MTDs of a board.
LEMMA BoardTypes ==
    ASSUME BdTypes
    PROVE  Disks \in Seq(OnDisk) /\ Mtds \in Seq(OnMtd)
  BY BootDevAssumption DEF BdTypes, Disks, Mtds, OnDisk, OnMtd

\* The last stage is the boot code.
LEMMA StagesThere == DOMAIN Stages = 1 .. 7 /\ Len(Stages) = 7 /\ \A i \in 1 .. 7 : Stages[i] = "main" <=> i = 7
  BY DEF Stages

\* The size a device gives is a number.
LEMMA SizeNumber ==
    ASSUME BdTypes, NEW d \in Device, Backed(d), NEW f \in Files
    PROVE  Size(d, f) \in Int
<1>1. Disks \in Seq(OnDisk) /\ Mtds \in Seq(OnMtd)
  BY BoardTypes
<1>2. CASE d.type = "fat"
  <2>1. d.i \in 1 .. Len(blks)
    BY <1>2 DEF Backed
  <2>2. blks[d.i] \in Block /\ Wraps(blks[d.i])
    <3>1. blks \in Seq(Block) /\ \A k \in 1 .. Len(blks) : Wraps(blks[k])
      BY DEF BdTypes
    <3> QED
      BY <2>1, <3>1
  <2>3. IsFat(blks[d.i]) => Disks[blks[d.i].i] \in OnDisk
    BY <2>2, <1>1 DEF IsFat, Wraps
  <2>4. IsFat(blks[d.i]) => Disks[blks[d.i].i].files[f] \in Nat
    BY <2>3 DEF OnDisk
  <2> QED
    BY <2>4, <1>2 DEF Size, fat_size
<1>3. CASE d.type # "fat"
  <2>1. Mtds[d.i] \in OnMtd
    BY <1>1, <1>3 DEF Backed
  <2>2. Mtds[d.i].files[f] \in Nat /\ Mtds[d.i].cfg \in Int
    BY <2>1 DEF OnMtd
  <2> QED
    BY <2>2, <1>3 DEF Size, mtd_size, cfg_size, Device
<1> QED
  BY <1>2, <1>3

\* What the boot devices stand for, if the rest does not change.
LEMMA SameSize ==
    ASSUME NEW d, NEW e, d.type = e.type, d.i = e.i, d.vol = e.vol, NEW f
    PROVE  Size(d, f) = Size(e, f) /\ (Backed(d) <=> Backed(e))
  BY DEF Size, fat_size, mtd_size, cfg_size, Backed

\* A volume that is held stays with its holder.
LEMMA HeldStays ==
    ASSUME BdTypes, NEW by \in {"vfs", "sgfat", "freed"}, NEW k \in Nat, NEW s \in -1 .. Volumes, Registered(by, k, s)
    PROVE  /\ fatio_list' \in [Slots -> [by : {"nobody", "vfs", "sgfat", "freed"}, blk : Nat]]
           /\ \A v \in Slots : fatio_list[v].by # "nobody" => fatio_list'[v] = fatio_list[v]
           /\ s \in Slots => fatio_list'[s] = [by |-> by, blk |-> k]
<1>1. fatio_list \in [Slots -> [by : {"nobody", "vfs", "sgfat", "freed"}, blk : Nat]] /\ Volumes \in Nat
  BY BootDevAssumption DEF BdTypes
<1> DEFINE free == {v \in Slots : SlotFree(v)}
<1>2. CASE free # {}
  <2>1. free \subseteq Nat
    BY <1>1 DEF Slots
  <2>2. \E v \in free : \A w \in free : v <= w
    BY <2>1, <1>2, LeastNatural
  <2>3. s \in free /\ fatio_list' = [fatio_list EXCEPT ![s] = [by |-> by, blk |-> k]]
    <3>1. s = CHOOSE v \in free : \A w \in free : v <= w
      BY <1>2 DEF Registered
    <3>2. fatio_list' = [fatio_list EXCEPT ![s] = [by |-> by, blk |-> k]]
      BY <1>2 DEF Registered
    <3> HIDE DEF free
    <3> QED
      BY <2>2, <3>1, <3>2
  <2>4. s \in Slots /\ fatio_list[s].by = "nobody"
    BY <2>3 DEF SlotFree, Free
  <2> QED
    BY <1>1, <2>3, <2>4
<1>3. CASE free = {}
  <2>1. s \in {NoVolume, Outside} /\ fatio_list' = fatio_list
    BY <1>3 DEF Registered
  <2>2. s \notin Slots
    BY <2>1, <1>1 DEF NoVolume, Outside, Slots
  <2> QED
    BY <1>1, <2>1, <2>2
<1> QED
  BY <1>2, <1>3

\* Before main, sizes are not known and nothing is loaded: what the steps of the
\* late_inits leave alone.
LEMMA BeforeMain ==
    ASSUME BdInv, ~In("main"), UNCHANGED <<sizes, got>>
    PROVE  Told' /\ LoadFits'
<1>1. sizes.file \notin Files
  BY DEF BdInv, Told
<1>2. Told'
  BY <1>1 DEF Told
<1>3. LoadFits'
  BY DEF BdInv, LoadFits
<1> QED
  BY <1>2, <1>3

\* The list is left alone, or a device is added behind it.
LEMMA ListLeft ==
    ASSUME BdInv, ~In("main"), UNCHANGED list
    PROVE  Sorted(list)' /\ NoPriorities'
  BY DEF BdInv, Sorted, NoPriorities, Devs

\* The list after a device was added is still without priorities.
LEMMA ListGrows ==
    ASSUME BdInv, ~In("main"), NEW d \in Device, d.prio = 0, list' = Append(list, d)
    PROVE  /\ list' \in Seq(Device) /\ Sorted(list)' /\ NoPriorities'
           /\ \A k \in 1 .. Len(list') : list'[k] = d \/ (k \in Devs /\ list'[k] = list[k])
<1>1. list \in Seq(Device) /\ \A k \in Devs : list[k].prio = 0
  BY DEF BdInv, BdTypes, NoPriorities
<1>2. list' \in Seq(Device) /\ \A k \in 1 .. Len(list') : list'[k] = d \/ (k \in Devs /\ list'[k] = list[k])
  BY <1>1 DEF Devs
<1>3. \A k \in 1 .. Len(list') : list'[k].prio = 0
  BY <1>1, <1>2
<1>4. Sorted(list)' /\ NoPriorities'
  BY <1>3 DEF Sorted, NoPriorities, Devs
<1> QED
  BY <1>2, <1>4

\* Boot devices keep what they stand for when a step only adds block devices
\* and only fills slots that are free.
LEMMA BackedStays ==
    ASSUME BdInv, UNCHANGED board, blks' \in Seq(Block), Len(blks) <= Len(blks'),
           \A v \in Slots : fatio_list[v].by # "nobody" => fatio_list'[v] = fatio_list[v],
           NEW k \in Devs
    PROVE  LET d == list[k]
           IN  /\ d.i \in 1 .. Len(IF d.type = "fat" THEN blks' ELSE Mtds')
               /\ d.type = "fat" => d.vol >= 0 /\ (d.vol < Volumes => fatio_list'[d.vol] = [by |-> "sgfat", blk |-> d.i])
<1>1. list[k] \in Device /\ blks \in Seq(Block) /\ Volumes \in Nat
  BY BootDevAssumption DEF BdInv, BdTypes, Devs
<1>2. Backed(list[k])
  BY DEF BdInv
<1>3. Mtds' = Mtds
  BY DEF Mtds
<1>4. list[k].type = "fat" => list[k].i \in 1 .. Len(blks')
  BY <1>1, <1>2 DEF Backed
<1>5. list[k].type = "fat" /\ list[k].vol < Volumes => list[k].vol \in Slots /\ fatio_list[list[k].vol].by = "sgfat"
  BY <1>1, <1>2 DEF Backed, Slots, Device
<1>6. list[k].type = "fat" /\ list[k].vol < Volumes => fatio_list'[list[k].vol] = fatio_list[list[k].vol]
  BY <1>5
<1> QED
  BY <1>2, <1>3, <1>4, <1>6 DEF Backed

\* Mounts keep their volumes likewise.
LEMMA MountsStay ==
    ASSUME BdInv,
           \A v \in Slots : fatio_list[v].by # "nobody" => fatio_list'[v] = fatio_list[v],
           NEW m \in mounts, m.vol >= 0
    PROVE  fatio_list'[m.vol] = [by |-> "vfs", blk |-> m.blk]
<1>1. m.vol \in Slots /\ fatio_list[m.vol] = [by |-> "vfs", blk |-> m.blk]
  <2>1. m.vol \in -1 .. Volumes - 1 /\ Volumes \in Nat
    BY BootDevAssumption DEF BdInv, BdTypes
  <2> QED
    BY <2>1 DEF BdInv, MountsOwned, Slots
<1> QED
  BY <1>1

\* mtdblock_create: an MTD is wrapped once.
LEMMA Wrapping ==
    ASSUME BdInv, NEW i \in 1 .. Len(Mtds), UNCHANGED board, blks' = mtdblock_create(i)
    PROVE  /\ blks' \in Seq(Block) /\ Len(blks) <= Len(blks') /\ (\A k \in 1 .. Len(blks') : Wraps(blks'[k]))
           /\ WrappedOnce'
<1> DEFINE b == [mtd |-> TRUE, i |-> i]
<1>1. /\ blks \in Seq(Block) /\ (\A k \in 1 .. Len(blks) : Wraps(blks[k]))
      /\ \A j, k \in 1 .. Len(blks) : blks[j] = blks[k] => j = k
  <2>1. blks \in Seq(Block) /\ \A k \in 1 .. Len(blks) : Wraps(blks[k])
    BY DEF BdInv, BdTypes
  <2>2. \A j, k \in DOMAIN blks : blks[j] = blks[k] => j = k
    BY DEF BdInv, WrappedOnce, IsInjective
  <2>3. DOMAIN blks = 1 .. Len(blks)
    BY <2>1
  <2> QED
    BY <2>1, <2>2, <2>3
<1>2. Mtds \in Seq(OnMtd) /\ i \in Nat /\ b \in Block /\ Wraps(b)
  <2>1. Mtds \in Seq(OnMtd)
    BY BoardTypes DEF BdInv
  <2>2. i \in Nat
    BY <2>1
  <2> QED
    BY <2>1, <2>2 DEF Block, Wraps
<1>3. CASE blks' = blks
  BY <1>1, <1>3 DEF WrappedOnce, IsInjective
<1>4. CASE blks' # blks
  <2>1. blks' = Append(blks, b) /\ \A k \in 1 .. Len(blks) : blks[k] # b
    BY <1>4 DEF mtdblock_create
  <2> HIDE DEF b
  <2>2. /\ blks' \in Seq(Block) /\ Len(blks') = Len(blks) + 1 /\ DOMAIN blks' = 1 .. Len(blks) + 1
        /\ blks'[Len(blks) + 1] = b /\ \A k \in 1 .. Len(blks) : blks'[k] = blks[k]
    BY <1>1, <1>2, <2>1
  <2>3. \A j, k \in 1 .. Len(blks) + 1 : blks'[j] = blks'[k] => j = k
    <3> SUFFICES ASSUME NEW j \in 1 .. Len(blks) + 1, NEW k \in 1 .. Len(blks) + 1, blks'[j] = blks'[k]
                 PROVE j = k
      OBVIOUS
    <3>1. Len(blks) \in Nat
      BY <1>1
    <3>2. (j \in 1 .. Len(blks) \/ j = Len(blks) + 1) /\ (k \in 1 .. Len(blks) \/ k = Len(blks) + 1)
      BY <3>1
    <3> QED
      BY <3>2, <1>1, <2>1, <2>2
  <2>4. \A k \in 1 .. Len(blks') : Wraps(blks'[k])
    <3>1. Len(blks) \in Nat
      BY <1>1
    <3>2. \A k \in 1 .. Len(blks') : k \in 1 .. Len(blks) \/ k = Len(blks) + 1
      BY <2>2, <3>1
    <3> QED
      BY <3>2, <1>1, <1>2, <2>2
  <2>5. Len(blks) <= Len(blks')
    BY <1>1, <2>2
  <2> QED
    BY <2>2, <2>3, <2>4, <2>5 DEF WrappedOnce, IsInjective
<1> QED
  BY <1>3, <1>4

\* One more number.
LEMMA OneMore ==
    ASSUME NEW n \in Nat
    PROVE  n + 1 \in Nat /\ (0 .. n - 1) \cup {n} = 0 .. (n + 1) - 1
<1>1. \A x : x \in 0 .. n <=> x \in 0 .. n - 1 \/ x = n
  OBVIOUS
<1>2. (n + 1) - 1 = n
  OBVIOUS
<1> QED
  BY <1>1, <1>2

\* A mount point in use is refused, and anonymous mounts are counted.
LEMMA NewMount ==
    ASSUME BdInv, NEW m, ~Mounted(m.target), mounts' = mounts \cup {m},
           \/ m.target[1] # "" /\ anon' = anon
           \/ m.target[1] = "" /\ m.target[2] = anon /\ anon' = anon + 1
    PROVE  MountPoints' /\ anon' \in Nat
<1>1. anon \in Nat /\ \A p \in mounts : p.target # m.target
  BY DEF BdInv, BdTypes, Mounted
<1>2. /\ \A p, q \in mounts : p.target = q.target => p = q
      /\ {p.target[2] : p \in {x \in mounts : x.target[1] = ""}} = 0 .. anon - 1
  BY DEF BdInv, MountPoints
<1>3. \A p, q \in mounts' : p.target = q.target => p = q
  BY <1>1, <1>2
<1> DEFINE Numbers(M) == {p.target[2] : p \in {x \in M : x.target[1] = ""}}
<1>4. CASE m.target[1] # "" /\ anon' = anon
  <2>1. {x \in mounts' : x.target[1] = ""} = {x \in mounts : x.target[1] = ""}
    BY <1>4
  <2> QED
    BY <1>1, <1>2, <1>3, <1>4, <2>1 DEF MountPoints
<1>5. CASE m.target[1] = "" /\ m.target[2] = anon /\ anon' = anon + 1
  <2>1. m.target[1] = "" /\ m.target[2] = anon
    BY <1>5
  <2>2. Numbers(mounts') = Numbers(mounts) \cup {anon}
    <3>1. Numbers(mounts) \cup {anon} \subseteq Numbers(mounts')
      BY <2>1
    <3>2. Numbers(mounts') \subseteq Numbers(mounts) \cup {anon}
      BY <2>1
    <3> HIDE DEF Numbers
    <3> QED
      BY <3>1, <3>2
  <2>3. (0 .. anon - 1) \cup {anon} = 0 .. anon' - 1
    BY <1>1, <1>5, OneMore
  <2> QED
    <3>1. anon' \in Nat
      BY <1>1, <1>5, OneMore
    <3>2. Numbers(mounts') = 0 .. anon' - 1
      BY <1>2, <2>2, <2>3
    <3> QED
      BY <1>3, <3>1, <3>2 DEF MountPoints
<1> QED
  BY <1>4, <1>5

\* The invariant holds at the start.
LEMMA BdStart == BdInit => BdInv
<1> SUFFICES ASSUME BdInit PROVE BdInv
  OBVIOUS
<1> USE DEF BdInit
<1>1. Disks \in Seq(OnDisk) /\ Volumes \in Nat /\ MaxFaults \in Nat /\ MaxPrio \in Nat /\ Config \in Files /\ "none" \notin Files
  BY BootDevAssumption DEF Disks, OnDisk
<1>2. blks = [i \in 1 .. Len(Disks) |-> [mtd |-> FALSE, i |-> i]] /\ Len(Disks) \in Nat
  BY <1>1
<1>3. blks \in Seq(Block) /\ Len(blks) = Len(Disks)
  BY <1>1, <1>2 DEF Block
<1>4. \A k \in 1 .. Len(blks) : Wraps(blks[k])
  <2>1. \A k \in 1 .. Len(Disks) : blks[k].mtd = FALSE /\ blks[k].i = k
    BY <1>2
  <2> QED
    BY <2>1, <1>3 DEF Wraps
<1>5. stage \in [at : 1 .. Len(Stages), i : Nat \ {0}] /\ ~In("main")
  BY StagesThere DEF In
<1>6. fatio_list \in [Slots -> [by : {"nobody", "vfs", "sgfat", "freed"}, blk : Nat]]
  BY DEF Free
<1>7. list = <<>> /\ Len(list) = 0 /\ list \in Seq(Device) /\ Devs = {}
  BY DEF Devs
<1>8. sizes.file \notin Files /\ sizes \in [file : Files \cup {"none"}, size : Int, bad : BOOLEAN]
  BY <1>1
<1>9. got \in [file : Files, dev : Nat, n : Int, size : Int] /\ got.n = -5
  BY <1>1 DEF Nothing
<1>10. BdTypes
  <2>1. /\ board \in Boards /\ mounts = {} /\ anon \in Nat /\ prios \in Nat /\ faults \in 0 .. MaxFaults
    BY <1>1
  <2> QED
    BY <2>1, <1>1, <1>3, <1>4, <1>5, <1>6, <1>7, <1>8, <1>9 DEF BdTypes
<1>11. WrappedOnce
  BY <1>2 DEF WrappedOnce, IsInjective
<1>12. MountPoints
  <2>1. {m.target[2] : m \in {x \in mounts : x.target[1] = ""}} = {} /\ 0 .. anon - 1 = {}
    OBVIOUS
  <2> QED
    BY <2>1 DEF MountPoints
<1> QED
  BY <1>7, <1>8, <1>9, <1>10, <1>11, <1>12 DEF BdInv, MountsOwned, Sorted, NoPriorities, Told, LoadFits

\* A late_init that ends.
LEMMA StageSteps == ASSUME BdInv, StageEnds PROVE BdInv'
<1> USE DEF StageEnds
<1>1. BdTypes' /\ ~In("main")
  <2>1. stage.at \in 1 .. 7 /\ stage.at < 7
    BY StagesThere DEF BdInv, BdTypes
  <2>2. stage' \in [at : 1 .. Len(Stages), i : Nat \ {0}]
    BY <2>1, StagesThere
  <2>3. ~In("main")
    BY <2>1, StagesThere DEF In
  <2> QED
    BY <2>2, <2>3 DEF BdInv, BdTypes, Slots, Mtds, Disks, Wraps
<1>2. Told' /\ LoadFits'
  BY <1>1, BeforeMain
<1>3. Sorted(list)' /\ NoPriorities'
  BY <1>1, ListLeft
<1>4. (\A k \in Devs : Backed(list[k]))' /\ MountsOwned' /\ WrappedOnce' /\ MountPoints'
  BY DEF BdInv, Backed, Devs, Mtds, MountsOwned, WrappedOnce, MountPoints
<1> QED
  BY <1>1, <1>2, <1>3, <1>4 DEF BdInv

\* What a step of a late_init leaves alone.
LEMMA FaultsStay ==
    ASSUME BdInv, Ok \/ Fails
    PROVE  faults' \in 0 .. MaxFaults
  BY BootDevAssumption DEF BdInv, BdTypes, Ok, Fails

\* A late_init that goes on to its next item is not the boot code.
LEMMA ItemStays ==
    ASSUME BdInv, NextItem, NEW s, In(s), s # "main"
    PROVE  /\ stage' \in [at : 1 .. Len(Stages), i : Nat \ {0}] /\ ~In("main")
           /\ stage.i \in Nat \ {0}
<1>1. stage \in [at : 1 .. Len(Stages), i : Nat \ {0}]
  BY DEF BdInv, BdTypes
<1>2. stage' = [stage EXCEPT !.i = @ + 1]
  BY DEF NextItem
<1> QED
  BY <1>1, <1>2 DEF In

\* flash_mount_one, mtdblock_setup.
LEMMA FlashMountSteps == ASSUME BdInv, flash_mount_one \/ mtdblock_setup PROVE BdInv'
<1>1. /\ UNCHANGED <<board, fatio_list, anon, list, sizes, got, prios>> /\ (Ok \/ Fails) /\ NextItem
      /\ (In("flashmount") \/ In("mtdblock")) /\ stage.i <= Len(Mtds)
  BY DEF flash_mount_one, mtdblock_setup
<1>2. stage' \in [at : 1 .. Len(Stages), i : Nat \ {0}] /\ ~In("main") /\ stage.i \in Nat \ {0}
  BY <1>1, ItemStays
<1>3. stage.i \in 1 .. Len(Mtds)
  <2>1. Len(Mtds) \in Nat
    BY BoardTypes DEF BdInv
  <2> QED
    BY <1>1, <1>2, <2>1
<1>4. /\ blks' \in Seq(Block) /\ Len(blks) <= Len(blks') /\ (\A k \in 1 .. Len(blks') : Wraps(blks'[k]))
      /\ WrappedOnce'
  <2>1. CASE blks' = mtdblock_create(stage.i)
    BY <2>1, <1>1, <1>3, Wrapping
  <2>2. CASE blks' = blks
    BY <2>2 DEF BdInv, BdTypes, WrappedOnce, IsInjective
  <2> QED
    BY <2>1, <2>2 DEF flash_mount_one, mtdblock_setup
<1>5. /\ MountPoints' /\ \A m \in mounts' : m \in mounts \/ m.vol = -1
  <2>1. CASE mounts' = mounts
    BY <2>1, <1>1 DEF BdInv, MountPoints
  <2>2. CASE mounts' # mounts
    <3> DEFINE m == [target |-> FlashPoint, blk |-> stage.i, type |-> "sgpart", vol |-> NoVolume]
    <3>1. ~Mounted(FlashPoint) /\ mounts' = mounts \cup {m}
      BY <2>2 DEF flash_mount_one, mtdblock_setup
    <3>2. ~Mounted(m.target) /\ m.target[1] # "" /\ m.vol = -1
      BY <3>1 DEF FlashPoint, NoVolume
    <3> HIDE DEF m
    <3>3. MountPoints'
      BY <3>1, <3>2, <1>1, NewMount
    <3> QED
      BY <3>1, <3>2, <3>3
  <2> QED
    BY <2>1, <2>2
<1>6. BdTypes'
  <2>1. faults' \in 0 .. MaxFaults
    BY <1>1, FaultsStay
  <2>2. \A m \in mounts' : m.vol \in -1 .. Volumes - 1
    BY <1>5, BootDevAssumption DEF BdInv, BdTypes
  <2>3. (\A k \in 1 .. Len(blks) : Wraps(blks[k]))'
    BY <1>1, <1>4 DEF Wraps, Mtds, Disks
  <2> QED
    BY <1>1, <1>2, <1>4, <2>1, <2>2, <2>3 DEF BdInv, BdTypes, Slots
<1>7. Told' /\ LoadFits' /\ Sorted(list)' /\ NoPriorities'
  BY <1>1, <1>2, BeforeMain, ListLeft
<1>8. (\A k \in Devs : Backed(list[k]))'
  <2> SUFFICES ASSUME NEW k \in Devs PROVE Backed(list[k])'
    BY <1>1 DEF Devs
  <2> QED
    BY <1>1, <1>4, BackedStays DEF Backed
<1>9. MountsOwned'
  <2> SUFFICES ASSUME NEW m \in mounts', m.vol >= 0 PROVE fatio_list'[m.vol] = [by |-> "vfs", blk |-> m.blk]
    BY DEF MountsOwned
  <2>1. m \in mounts
    BY <1>5
  <2> QED
    BY <2>1, <1>1 DEF BdInv, MountsOwned
<1> QED
  BY <1>4, <1>5, <1>6, <1>7, <1>8, <1>9 DEF BdInv

\* The alias of a block device is a text.
LEMMA AliasText ==
    ASSUME BdInv, NEW k \in 1 .. Len(blks)
    PROVE  AliasOf(blks[k]) \in STRING
<1>1. Disks \in Seq(OnDisk) /\ Mtds \in Seq(OnMtd)
  BY BoardTypes DEF BdInv
<1>2. blks \in Seq(Block) /\ Wraps(blks[k])
  BY DEF BdInv, BdTypes
<1>3. blks[k] \in Block
  BY <1>2
<1>4. CASE blks[k].mtd
  <2>1. Mtds[blks[k].i] \in OnMtd
    BY <1>1, <1>2, <1>4 DEF Wraps
  <2> QED
    BY <2>1, <1>4 DEF AliasOf, OnMtd
<1>5. CASE ~blks[k].mtd
  <2>1. Disks[blks[k].i] \in OnDisk
    BY <1>1, <1>2, <1>5 DEF Wraps
  <2> QED
    BY <2>1, <1>5 DEF AliasOf, OnDisk
<1> QED
  BY <1>4, <1>5

\* The parts of a pair.
LEMMA PairParts == \A x, y : <<x, y>>[1] = x /\ <<x, y>>[2] = y
  OBVIOUS

\* The mount point of a device without alias.
LEMMA AnonymousParts == mount_anon[1] = "" /\ mount_anon[2] = anon
  BY DEF mount_anon

\* automount.
LEMMA AutomountSteps == ASSUME BdInv, automount PROVE BdInv'
<1>1. /\ UNCHANGED <<board, blks, list, sizes, got, prios>> /\ NextItem /\ In("automount") /\ stage.i <= Len(blks)
  BY DEF automount
<1>2. stage' \in [at : 1 .. Len(Stages), i : Nat \ {0}] /\ ~In("main") /\ stage.i \in Nat \ {0}
  BY <1>1, ItemStays
<1>3. blks \in Seq(Block) /\ Volumes \in Nat /\ stage.i \in Nat /\ anon \in Nat
  BY <1>2, BootDevAssumption DEF BdInv, BdTypes
<1>4. (Ok \/ Fails) /\
      \/ UNCHANGED <<fatio_list, mounts>> /\ anon' = NextAnon(stage.i, FALSE)
      \/ \E s \in -1 .. Volumes, good \in BOOLEAN :
           /\ good => s \in Slots
           /\ ~Mounted(Target(stage.i))
           /\ Registered(IF good THEN "vfs" ELSE "freed", stage.i, s)
           /\ mounts' = IF good THEN mounts \cup {[target |-> Target(stage.i), blk |-> stage.i, type |-> "fatfs", vol |-> s]}
                        ELSE mounts
           /\ anon' = NextAnon(stage.i, good)
  BY DEF automount
<1>5. /\ fatio_list' \in [Slots -> [by : {"nobody", "vfs", "sgfat", "freed"}, blk : Nat]]
      /\ \A v \in Slots : fatio_list[v].by # "nobody" => fatio_list'[v] = fatio_list[v]
      /\ MountPoints' /\ anon' \in Nat
      /\ \A m \in mounts' : m \in mounts \/ (m.vol \in Slots /\ fatio_list'[m.vol] = [by |-> "vfs", blk |-> m.blk])
  <2>1. CASE UNCHANGED <<fatio_list, mounts>> /\ anon' = NextAnon(stage.i, FALSE)
    BY <2>1, <1>3 DEF BdInv, BdTypes, MountPoints, NextAnon
  <2>2. ASSUME NEW s \in -1 .. Volumes, NEW good \in BOOLEAN,
               good => s \in Slots,
               ~Mounted(Target(stage.i)),
               Registered(IF good THEN "vfs" ELSE "freed", stage.i, s),
               mounts' = IF good THEN mounts \cup {[target |-> Target(stage.i), blk |-> stage.i, type |-> "fatfs", vol |-> s]}
                         ELSE mounts,
               anon' = NextAnon(stage.i, good)
        PROVE  /\ fatio_list' \in [Slots -> [by : {"nobody", "vfs", "sgfat", "freed"}, blk : Nat]]
               /\ \A v \in Slots : fatio_list[v].by # "nobody" => fatio_list'[v] = fatio_list[v]
               /\ MountPoints' /\ anon' \in Nat
               /\ \A m \in mounts' : m \in mounts \/ (m.vol \in Slots /\ fatio_list'[m.vol] = [by |-> "vfs", blk |-> m.blk])
    <3>1. /\ fatio_list' \in [Slots -> [by : {"nobody", "vfs", "sgfat", "freed"}, blk : Nat]]
          /\ \A v \in Slots : fatio_list[v].by # "nobody" => fatio_list'[v] = fatio_list[v]
          /\ s \in Slots => fatio_list'[s] = [by |-> IF good THEN "vfs" ELSE "freed", blk |-> stage.i]
      <4>1. BdTypes /\ (IF good THEN "vfs" ELSE "freed") \in {"vfs", "sgfat", "freed"}
        BY DEF BdInv
      <4> DEFINE w == IF good THEN "vfs" ELSE "freed"
      <4>2. Registered(w, stage.i, s) /\ w \in {"vfs", "sgfat", "freed"}
        BY <2>2, <4>1
      <4> HIDE DEF w
      <4>3. /\ fatio_list' \in [Slots -> [by : {"nobody", "vfs", "sgfat", "freed"}, blk : Nat]]
            /\ \A v \in Slots : fatio_list[v].by # "nobody" => fatio_list'[v] = fatio_list[v]
            /\ s \in Slots => fatio_list'[s] = [by |-> w, blk |-> stage.i]
        BY <4>1, <4>2, <1>3, HeldStays
      <4> QED
        BY <4>3 DEF w
    <3>2. CASE ~good
      <4>1. mounts' = mounts /\ anon' = anon
        BY <2>2, <3>2 DEF NextAnon
      <4> QED
        BY <3>1, <4>1 DEF BdInv, BdTypes, MountPoints
    <3>3. CASE good
      <4> DEFINE m == [target |-> Target(stage.i), blk |-> stage.i, type |-> "fatfs", vol |-> s]
      <4>1. mounts' = mounts \cup {m} /\ m.target = Target(stage.i) /\ m.vol = s /\ m.blk = stage.i
        BY <2>2, <3>3
      <4> HIDE DEF m
      <4>2. CASE AliasOf(blks[stage.i]) = ""
        <5>1. m.target[1] = "" /\ m.target[2] = anon /\ anon' = anon + 1
          <6>1. m.target = mount_anon
            BY <4>1, <4>2 DEF Target
          <6>2. anon' = anon + 1
            BY <2>2, <3>3, <4>2 DEF NextAnon
          <6>3. m.target[1] = "" /\ m.target[2] = anon
            BY <6>1, AnonymousParts
          <6> QED
            BY <6>2, <6>3
        <5>2. MountPoints' /\ anon' \in Nat
          BY <5>1, <4>1, <2>2, NewMount
        <5> QED
          BY <5>2, <3>1, <3>3, <4>1, <2>2
      <4>3. CASE AliasOf(blks[stage.i]) # ""
        <5>1. m.target[1] # "" /\ anon' = anon
          <6>1. m.target = <<AliasOf(blks[stage.i]), 0>>
            BY <4>1, <4>3 DEF Target, mount_named
          <6>2. anon' = anon
            BY <2>2, <3>3, <4>3 DEF NextAnon
          <6> QED
            BY <6>1, <6>2, <4>3, PairParts
        <5>2. MountPoints' /\ anon' \in Nat
          BY <5>1, <4>1, <2>2, NewMount
        <5> QED
          BY <5>2, <3>1, <3>3, <4>1, <2>2
      <4> QED
        BY <4>2, <4>3
    <3> QED
      BY <3>2, <3>3
  <2> QED
    BY <1>4, <2>1, <2>2
<1>6. BdTypes'
  <2>1. faults' \in 0 .. MaxFaults
    BY <1>4, FaultsStay
  <2>2. \A m \in mounts' : m.vol \in -1 .. Volumes - 1
    <3>1. \A m \in mounts : m.vol \in -1 .. Volumes - 1
      BY DEF BdInv, BdTypes
    <3>2. \A v \in Slots : v \in -1 .. Volumes - 1
      BY <1>3 DEF Slots
    <3> QED
      BY <1>5, <3>1, <3>2
  <2> QED
    BY <1>1, <1>2, <1>5, <2>1, <2>2 DEF BdInv, BdTypes, Slots, Wraps, Mtds, Disks
<1>7. Told' /\ LoadFits' /\ Sorted(list)' /\ NoPriorities'
  BY <1>1, <1>2, BeforeMain, ListLeft
<1>8. (\A k \in Devs : Backed(list[k]))'
  <2> SUFFICES ASSUME NEW k \in Devs PROVE Backed(list[k])'
    BY <1>1 DEF Devs
  <2>1. Len(blks) <= Len(blks') /\ blks' \in Seq(Block)
    BY <1>1, <1>3
  <2> QED
    BY <1>1, <1>5, <2>1, BackedStays DEF Backed
<1>9. MountsOwned'
  <2> SUFFICES ASSUME NEW m \in mounts', m.vol >= 0 PROVE fatio_list'[m.vol] = [by |-> "vfs", blk |-> m.blk]
    BY DEF MountsOwned
  <2> QED
    BY <1>5, MountsStay
<1> QED
  BY <1>1, <1>5, <1>6, <1>7, <1>8, <1>9 DEF BdInv, WrappedOnce, IsInjective

\* A late_init that makes boot devices: the new device, if there is one, stands
\* for something.
LEMMA AddSteps ==
    ASSUME BdInv, NEW s, In(s), s # "main", NextItem, Ok \/ Fails,
           UNCHANGED <<board, blks, mounts, anon, sizes, got, prios>>,
           fatio_list' \in [Slots -> [by : {"nobody", "vfs", "sgfat", "freed"}, blk : Nat]],
           \A v \in Slots : fatio_list[v].by # "nobody" => fatio_list'[v] = fatio_list[v],
           \/ UNCHANGED list
           \/ \E d \in Device :
                /\ d.prio = 0 /\ list' = Append(list, d)
                /\ d.i \in 1 .. Len(IF d.type = "fat" THEN blks ELSE Mtds)
                /\ d.type = "fat" => d.vol >= 0 /\ (d.vol < Volumes => fatio_list'[d.vol] = [by |-> "sgfat", blk |-> d.i])
    PROVE  BdInv'
<1>1. stage' \in [at : 1 .. Len(Stages), i : Nat \ {0}] /\ ~In("main") /\ stage.i \in Nat \ {0}
  BY ItemStays
<1>2. Told' /\ LoadFits'
  BY <1>1, BeforeMain
<1>3. \A k \in Devs : LET d == list[k] IN
        /\ d.i \in 1 .. Len(IF d.type = "fat" THEN blks' ELSE Mtds')
        /\ d.type = "fat" => d.vol >= 0 /\ (d.vol < Volumes => fatio_list'[d.vol] = [by |-> "sgfat", blk |-> d.i])
  <2>1. Len(blks) <= Len(blks') /\ blks' \in Seq(Block)
    BY DEF BdInv, BdTypes
  <2> QED
    BY <2>1, BackedStays
<1>4. list' \in Seq(Device) /\ Sorted(list)' /\ NoPriorities' /\ (\A k \in Devs : Backed(list[k]))'
  <2>1. CASE UNCHANGED list
    <3>1. Sorted(list)' /\ NoPriorities'
      BY <1>1, <2>1, ListLeft
    <3>2. (\A k \in Devs : Backed(list[k]))'
      BY <1>3, <2>1 DEF Backed, Devs
    <3> QED
      BY <2>1, <3>1, <3>2 DEF BdInv, BdTypes
  <2>2. ASSUME NEW d \in Device,
               d.prio = 0, list' = Append(list, d),
               d.i \in 1 .. Len(IF d.type = "fat" THEN blks ELSE Mtds),
               d.type = "fat" => d.vol >= 0 /\ (d.vol < Volumes => fatio_list'[d.vol] = [by |-> "sgfat", blk |-> d.i])
        PROVE  list' \in Seq(Device) /\ Sorted(list)' /\ NoPriorities' /\ (\A k \in Devs : Backed(list[k]))'
    <3>1. /\ list' \in Seq(Device) /\ Sorted(list)' /\ NoPriorities'
          /\ \A k \in 1 .. Len(list') : list'[k] = d \/ (k \in Devs /\ list'[k] = list[k])
      BY <1>1, <2>2, ListGrows
    <3>2. Mtds' = Mtds
      BY DEF Mtds
    <3>3. (\A k \in Devs : Backed(list[k]))'
      <4> SUFFICES ASSUME NEW k \in 1 .. Len(list') PROVE Backed(list[k])'
        BY DEF Devs
      <4>1. CASE list'[k] = d
        BY <4>1, <2>2, <3>2 DEF Backed
      <4>2. CASE k \in Devs /\ list'[k] = list[k]
        BY <4>2, <1>3 DEF Backed
      <4> QED
        BY <3>1, <4>1, <4>2
    <3> QED
      BY <3>1, <3>3
  <2> QED
    BY <2>1, <2>2
<1>5. BdTypes'
  <2>1. faults' \in 0 .. MaxFaults
    BY FaultsStay
  <2> QED
    BY <1>1, <1>4, <2>1 DEF BdInv, BdTypes, Slots, Wraps, Mtds, Disks
<1>6. MountsOwned'
  <2> SUFFICES ASSUME NEW m \in mounts', m.vol >= 0 PROVE fatio_list'[m.vol] = [by |-> "vfs", blk |-> m.blk]
    BY DEF MountsOwned
  <2> QED
    BY MountsStay
<1> QED
  BY <1>2, <1>4, <1>5, <1>6 DEF BdInv, WrappedOnce, IsInjective, MountPoints

\* create_fat_dev of sgfat.
LEMMA FatDevSteps == ASSUME BdInv, create_fat_dev PROVE BdInv'
<1>1. /\ UNCHANGED <<board, blks, mounts, anon, sizes, got, prios>> /\ NextItem /\ In("sgfat")
      /\ stage.i <= Len(blks) /\ (Ok \/ Fails)
  BY DEF create_fat_dev
<1>2. stage.i \in Nat \ {0}
  BY <1>1, ItemStays
<1>3. blks \in Seq(Block) /\ Volumes \in Nat /\ stage.i \in Nat /\ stage.i \in 1 .. Len(blks) /\ BdTypes
  BY <1>1, <1>2, BootDevAssumption DEF BdInv, BdTypes
<1>4. CASE UNCHANGED <<fatio_list, list>>
  <2>1. fatio_list' \in [Slots -> [by : {"nobody", "vfs", "sgfat", "freed"}, blk : Nat]]
    BY <1>4 DEF BdInv, BdTypes
  <2> QED
    BY <1>1, <1>4, <2>1, AddSteps
<1>5. ASSUME NEW s \in -1 .. Volumes, Registered("sgfat", stage.i, s),
             IF s = NoVolume THEN UNCHANGED list
             ELSE bootdev_add(BootDevice("fat", AliasOf(blks[stage.i]), stage.i, s))
      PROVE  BdInv'
  <2>1. /\ fatio_list' \in [Slots -> [by : {"nobody", "vfs", "sgfat", "freed"}, blk : Nat]]
        /\ \A v \in Slots : fatio_list[v].by # "nobody" => fatio_list'[v] = fatio_list[v]
        /\ s \in Slots => fatio_list'[s] = [by |-> "sgfat", blk |-> stage.i]
    BY <1>3, <1>5, HeldStays
  <2>2. CASE UNCHANGED list
    BY <1>1, <2>1, <2>2, AddSteps
  <2>3. CASE s # NoVolume
    <3> DEFINE d == BootDevice("fat", AliasOf(blks[stage.i]), stage.i, s)
    <3>1. d \in Device /\ d.prio = 0 /\ d.type = "fat" /\ d.i = stage.i /\ d.vol = s
      <4>1. AliasOf(blks[stage.i]) \in STRING
        BY <1>3, AliasText
      <4> QED
        BY <4>1, <1>3 DEF BootDevice, Device
    <3>2. list' = Append(list, d)
      BY <1>5, <2>3 DEF bootdev_add
    <3> HIDE DEF d
    <3>3. s >= 0 /\ (s < Volumes => s \in Slots)
      BY <1>3, <2>3 DEF NoVolume, Slots
    <3> QED
      BY <1>1, <1>3, <2>1, <3>1, <3>2, <3>3, AddSteps
  <2> QED
    BY <1>5, <2>2, <2>3
<1> QED
  BY <1>4, <1>5 DEF create_fat_dev

\* create_bootdev of sgcfg and of sgmtd.
LEMMA MtdDevSteps == ASSUME BdInv, sgcfg_init \/ sgmtd_init PROVE BdInv'
<1>1. /\ UNCHANGED <<board, blks, fatio_list, mounts, anon, sizes, got, prios>> /\ NextItem
      /\ (In("sgcfg") \/ In("sgmtd")) /\ stage.i <= Len(Mtds) /\ (Ok \/ Fails)
  BY DEF sgcfg_init, sgmtd_init
<1>2. stage.i \in Nat \ {0}
  BY <1>1, ItemStays
<1>3. Mtds \in Seq(OnMtd)
  BY BoardTypes DEF BdInv
<1>4. stage.i \in 1 .. Len(Mtds) /\ Mtds[stage.i] \in OnMtd
  BY <1>1, <1>2, <1>3
<1>5. \/ UNCHANGED list
      \/ \E t \in {"cfg", "mtd"} : list' = Append(list, BootDevice(t, Mtds[stage.i].alias, stage.i, NoVolume))
  BY DEF sgcfg_init, sgmtd_init, bootdev_add
<1>6. fatio_list' \in [Slots -> [by : {"nobody", "vfs", "sgfat", "freed"}, blk : Nat]]
  BY <1>1 DEF BdInv, BdTypes
<1>7. CASE UNCHANGED list
  BY <1>1, <1>6, <1>7, AddSteps
<1>8. ASSUME NEW t \in {"cfg", "mtd"}, list' = Append(list, BootDevice(t, Mtds[stage.i].alias, stage.i, NoVolume))
      PROVE  BdInv'
  <2> DEFINE d == BootDevice(t, Mtds[stage.i].alias, stage.i, NoVolume)
  <2>1. d \in Device /\ d.prio = 0 /\ d.type # "fat" /\ d.i \in 1 .. Len(Mtds)
    BY <1>2, <1>4, BootDevAssumption DEF BootDevice, Device, OnMtd, NoVolume
  <2>2. list' = Append(list, d)
    BY <1>8
  <2> HIDE DEF d
  <2> QED
    BY <1>1, <1>6, <2>1, <2>2, AddSteps
<1> QED
  BY <1>5, <1>7, <1>8

\* The boot code reorders and disables the devices, and changes nothing that
\* they stand for.
LEMMA MainList ==
    ASSUME BdInv, In("main"), list' \in Seq(Device), Sorted(list'),
           \A j \in 1 .. Len(list') : \E k \in Devs :
              list'[j].type = list[k].type /\ list'[j].i = list[k].i /\ list'[j].vol = list[k].vol,
           UNCHANGED <<board, stage, blks, fatio_list, mounts, anon, sizes, got, faults>>, prios' \in Nat
    PROVE  BdInv'
<1>1. BdTypes'
  BY DEF BdInv, BdTypes, Slots, Wraps, Mtds, Disks
<1>2. (\A k \in Devs : Backed(list[k]))'
  <2> SUFFICES ASSUME NEW j \in 1 .. Len(list') PROVE Backed(list[j])'
    BY DEF Devs
  <2>1. PICK k \in Devs : list'[j].type = list[k].type /\ list'[j].i = list[k].i /\ list'[j].vol = list[k].vol
    OBVIOUS
  <2>2. Backed(list[k]) /\ Mtds' = Mtds
    BY DEF BdInv, Mtds
  <2> QED
    BY <2>1, <2>2 DEF Backed
<1>3. Told'
  <2> SUFFICES ASSUME sizes.file \in Files, ~sizes.bad, NEW j \in 1 .. Len(list')
               PROVE  Size(list[j], sizes.file)' <= sizes.size
    BY DEF Told, In, Devs
  <2>1. PICK k \in Devs : list'[j].type = list[k].type /\ list'[j].i = list[k].i /\ list'[j].vol = list[k].vol
    OBVIOUS
  <2>2. Size(list[k], sizes.file) <= sizes.size
    BY DEF BdInv, Told
  <2>3. Size(list[j], sizes.file)' = Size(list[k], sizes.file)
    BY <2>1 DEF Size, fat_size, mtd_size, cfg_size, Mtds, Disks, IsFat
  <2> QED
    BY <2>2, <2>3
<1>4. MountsOwned' /\ WrappedOnce' /\ MountPoints' /\ NoPriorities' /\ LoadFits'
  BY DEF BdInv, MountsOwned, WrappedOnce, IsInjective, MountPoints, NoPriorities, In, LoadFits
<1> QED
  BY <1>1, <1>2, <1>3, <1>4 DEF BdInv, Sorted

\* Setting the priority or the state of a device leaves the rest of it alone.
LEMMA DeviceChanges ==
    ASSUME NEW d \in Device, NEW p \in Nat
    PROVE  /\ [d EXCEPT !.prio = p] \in Device /\ [d EXCEPT !.disabled = ~@] \in Device
           /\ [d EXCEPT !.prio = p].type = d.type /\ [d EXCEPT !.disabled = ~@].type = d.type
           /\ [d EXCEPT !.prio = p].i = d.i /\ [d EXCEPT !.disabled = ~@].i = d.i
           /\ [d EXCEPT !.prio = p].vol = d.vol /\ [d EXCEPT !.disabled = ~@].vol = d.vol
           /\ [d EXCEPT !.disabled = ~@].prio = d.prio
  BY DEF Device

\* bdm_set_priority.
LEMMA PrioritySteps == ASSUME BdInv, NEW alias, NEW p \in Priorities, bdm_set_priority(alias, p) PROVE BdInv'
<1>1. PICK k \in Named(alias) : list' = sort_device([list EXCEPT ![k].prio = p])
  BY DEF bdm_set_priority
<1>2. list \in Seq(Device) /\ k \in Devs /\ p \in Nat /\ prios \in Nat
  BY <1>1, BootDevAssumption DEF BdInv, BdTypes, Named, Devs
<1> DEFINE l == [list EXCEPT ![k].prio = p]
<1>3. list[k] \in Device /\ [list[k] EXCEPT !.prio = p] \in Device
  <2>1. list[k] \in Device
    BY <1>2 DEF Devs
  <2> QED
    BY <2>1, <1>2, DeviceChanges
<1>4. /\ l \in Seq(Device) /\ Len(l) = Len(list)
      /\ \A j \in Devs : l[j].type = list[j].type /\ l[j].i = list[j].i /\ l[j].vol = list[j].vol
  <2>1. l = [list EXCEPT ![k] = [list[k] EXCEPT !.prio = p]]
    BY <1>2 DEF Devs
  <2>2. \A j \in Devs : l[j] = IF j = k THEN [list[k] EXCEPT !.prio = p] ELSE list[j]
    BY <1>2, <2>1 DEF Devs
  <2>3. l \in Seq(Device) /\ Len(l) = Len(list)
    BY <1>2, <1>3, <2>1 DEF Devs
  <2> HIDE DEF l
  <2>4. /\ [list[k] EXCEPT !.prio = p].type = list[k].type
        /\ [list[k] EXCEPT !.prio = p].i = list[k].i
        /\ [list[k] EXCEPT !.prio = p].vol = list[k].vol
    BY <1>2, <1>3, DeviceChanges
  <2> QED
    BY <2>2, <2>3, <2>4
<1> HIDE DEF l
<1>5. \A d \in Device : d.prio \in Nat
  BY DEF Device
<1>6. /\ list' \in Seq(Device) /\ Len(list') = Len(list) /\ Sorted(list')
      /\ \E q \in [1 .. Len(list) -> 1 .. Len(list)] : \A j \in 1 .. Len(list) : list'[j] = l[q[j]]
  <2>1. list' = sort_device(l)
    BY <1>1 DEF l
  <2> QED
    BY <2>1, <1>4, <1>5, SortSorts
<1>7. \A j \in 1 .. Len(list') : \E i \in Devs :
          list'[j].type = list[i].type /\ list'[j].i = list[i].i /\ list'[j].vol = list[i].vol
  <2>1. PICK q \in [1 .. Len(list) -> 1 .. Len(list)] : \A j \in 1 .. Len(list) : list'[j] = l[q[j]]
    BY <1>6
  <2> SUFFICES ASSUME NEW j \in 1 .. Len(list')
               PROVE  \E i \in Devs : list'[j].type = list[i].type /\ list'[j].i = list[i].i /\ list'[j].vol = list[i].vol
    OBVIOUS
  <2>2. q[j] \in Devs /\ list'[j] = l[q[j]]
    BY <2>1, <1>6 DEF Devs
  <2> QED
    BY <2>2, <1>4
<1>8. /\ In("main") /\ UNCHANGED <<board, stage, blks, fatio_list, mounts, anon, sizes, got, faults>>
      /\ prios' \in Nat
  BY <1>2 DEF bdm_set_priority
<1> QED
  BY <1>6, <1>7, <1>8, MainList

\* bdm_set_disabled.
LEMMA DisabledSteps == ASSUME BdInv, NEW alias, bdm_set_disabled(alias) PROVE BdInv'
<1>1. PICK k \in Named(alias) : list' = [list EXCEPT ![k].disabled = ~@]
  BY DEF bdm_set_disabled
<1>2. list \in Seq(Device) /\ k \in Devs /\ prios \in Nat
  BY <1>1 DEF BdInv, BdTypes, Named, Devs
<1>3. list[k] \in Device /\ [list[k] EXCEPT !.disabled = ~@] \in Device
  <2>1. list[k] \in Device /\ 0 \in Nat
    BY <1>2 DEF Devs
  <2> QED
    BY <2>1, DeviceChanges
<1>4. list' = [list EXCEPT ![k] = [list[k] EXCEPT !.disabled = ~@]]
  BY <1>1, <1>2 DEF Devs
<1>5. /\ list' \in Seq(Device) /\ Len(list') = Len(list)
      /\ \A j \in Devs : list'[j] = IF j = k THEN [list[k] EXCEPT !.disabled = ~@] ELSE list[j]
  BY <1>2, <1>3, <1>4 DEF Devs
<1>6. \A j \in Devs : /\ list'[j].type = list[j].type /\ list'[j].i = list[j].i /\ list'[j].vol = list[j].vol
                      /\ list'[j].prio = list[j].prio
  <2>1. /\ [list[k] EXCEPT !.disabled = ~@].type = list[k].type
        /\ [list[k] EXCEPT !.disabled = ~@].i = list[k].i
        /\ [list[k] EXCEPT !.disabled = ~@].vol = list[k].vol
        /\ [list[k] EXCEPT !.disabled = ~@].prio = list[k].prio
    <3>1. 0 \in Nat
      OBVIOUS
    <3> QED
      BY <1>3, <3>1, DeviceChanges
  <2> QED
    BY <1>5, <2>1
<1>7. Sorted(list')
  BY <1>5, <1>6 DEF BdInv, Sorted, Devs
<1> QED
  BY <1>2, <1>5, <1>6, <1>7, MainList DEF bdm_set_disabled, Devs

\* bdm_get_file_size.
LEMMA SizeSteps == ASSUME BdInv, NEW f \in Files, bdm_get_file_size(f) PROVE BdInv'
<1>1. PICK bad \in {{}} \cup {{k} : k \in Devs} :
        /\ IF bad = {} THEN Ok ELSE Fails
        /\ LET all == SizesOf(f, bad) \cup {-2}
           IN  sizes' = [file |-> f, size |-> CHOOSE n \in all : \A m \in all : m <= n, bad |-> bad # {}]
  BY DEF bdm_get_file_size
<1>2. /\ UNCHANGED <<board, stage, blks, fatio_list, mounts, anon, list, prios>> /\ got' = Nothing /\ In("main")
  BY DEF bdm_get_file_size
<1> DEFINE g == [k \in 1 .. Len(list) |-> Size(list[k], f)]
           all == SizesOf(f, bad) \cup {-2}
<1>3. Len(list) \in Nat /\ g \in [1 .. Len(list) -> Int]
  <2>1. Len(list) \in Nat /\ \A k \in Devs : list[k] \in Device /\ Backed(list[k])
    BY DEF BdInv, BdTypes, Devs
  <2>2. \A k \in 1 .. Len(list) : Size(list[k], f) \in Int
    BY <2>1, SizeNumber DEF BdInv, Devs
  <2> QED
    BY <2>1, <2>2
<1>4. all = {g[k] : k \in (1 .. Len(list)) \ bad} \cup {-2} /\ all \subseteq Int
  <2>1. \A k \in (1 .. Len(list)) \ bad : g[k] = Size(list[k], f) /\ g[k] \in Int
    BY <1>3
  <2> HIDE DEF g
  <2> QED
    BY <2>1 DEF SizesOf, Devs
<1>5. \E n \in all : \A m \in all : m <= n
  <2> HIDE DEF g, all
  <2>1. (1 .. Len(list)) \ bad \in SUBSET (1 .. Len(list)) /\ -2 \in Int
    OBVIOUS
  <2>2. \E x \in {g[k] : k \in (1 .. Len(list)) \ bad} \cup {-2} :
          \A y \in {g[k] : k \in (1 .. Len(list)) \ bad} \cup {-2} : y <= x
    <3> DEFINE D == (1 .. Len(list)) \ bad
               c == -2
               N == Len(list)
    <3>1. N \in Nat /\ g \in [1 .. N -> Int] /\ c \in Int /\ D \in SUBSET (1 .. N)
      BY <1>3, <2>1
    <3> HIDE DEF D, c, N
    <3>2. PICK x \in Int : (x = c \/ \E k \in D : x = g[k]) /\ c <= x /\ \A k \in D : g[k] <= x
      BY <3>1, HasGreatest
    <3>3. x \in {g[k] : k \in D} \cup {c} /\ \A y \in {g[k] : k \in D} \cup {c} : y <= x
      BY <3>2
    <3> QED
      BY <3>3 DEF D, c
  <2> QED
    BY <1>4, <2>2
<1>6. sizes'.size \in all /\ (\A m \in all : m <= sizes'.size) /\ sizes'.file = f /\ sizes'.bad = (bad # {})
  <2>1. sizes' = [file |-> f, size |-> CHOOSE n \in all : \A m \in all : m <= n, bad |-> bad # {}]
    BY <1>1
  <2> HIDE DEF all
  <2> QED
    BY <1>5, <2>1
<1>7. sizes' \in [file : Files \cup {"none"}, size : Int, bad : BOOLEAN]
  <2> HIDE DEF all
  <2>1. sizes' = [file |-> f, size |-> sizes'.size, bad |-> (bad # {})]
    BY <1>1
  <2> QED
    BY <1>4, <1>6, <2>1
<1>8. BdTypes'
  <2>1. faults' \in 0 .. MaxFaults
    BY <1>1, FaultsStay
  <2>2. got' \in [file : Files, dev : Nat, n : Int, size : Int] /\ got'.n = -5
    BY <1>2, BootDevAssumption DEF Nothing
  <2> QED
    BY <1>2, <1>7, <2>1, <2>2 DEF BdInv, BdTypes, Slots, Wraps, Mtds, Disks
<1>9. Told'
  <2> SUFFICES ASSUME bad = {}, NEW k \in Devs PROVE Size(list[k], sizes.file)' <= sizes'.size
    BY <1>2, <1>6 DEF Told, In, Devs
  <2>1. Size(list[k], f) \in all
    BY DEF SizesOf
  <2>2. Size(list[k], sizes.file)' = Size(list[k], f)
    <3>1. sizes'.file = f
      BY <1>6
    <3> QED
      BY <3>1, <1>2 DEF Size, fat_size, mtd_size, cfg_size, Mtds, Disks, IsFat
  <2> QED
    BY <2>1, <2>2, <1>6
<1>10. LoadFits'
  BY <1>2 DEF LoadFits, Nothing
<1>11. (\A k \in Devs : Backed(list[k]))' /\ MountsOwned' /\ WrappedOnce' /\ MountPoints' /\ NoPriorities' /\ Sorted(list)'
  BY <1>2 DEF BdInv, Backed, Devs, Mtds, MountsOwned, WrappedOnce, IsInjective, MountPoints, NoPriorities, In, Sorted
<1> QED
  BY <1>8, <1>9, <1>10, <1>11 DEF BdInv

\* What bdm_load takes: the first device of those that have the file.
LEMMA LoadTakes ==
    ASSUME BdInv, NEW f \in Files, bdm_load(f)
    PROVE  \E bad \in {{}} \cup {{k} : k \in Devs} :
             /\ IF bad = {} THEN Ok ELSE Fails
             /\ \/ got' = [file |-> f, dev |-> 0, n |-> -5, size |-> sizes.size]
                \/ \E k \in Devs \ bad :
                     /\ Delivers(list[k], f)
                     /\ \A j \in Devs \ bad : Delivers(list[j], f) => k <= j
                     /\ got' = [file |-> f, dev |-> k, n |-> Size(list[k], f), size |-> sizes.size]
<1>1. PICK bad \in {{}} \cup {{k} : k \in Devs} :
        /\ IF bad = {} THEN Ok ELSE Fails
        /\ LET able == {k \in Devs \ bad : Delivers(list[k], f)}
               k == CHOOSE k \in able : \A j \in able : k <= j
           IN  got' = IF able = {} THEN [file |-> f, dev |-> 0, n |-> -5, size |-> sizes.size]
                      ELSE [file |-> f, dev |-> k, n |-> Size(list[k], f), size |-> sizes.size]
  BY DEF bdm_load
<1> DEFINE able == {k \in Devs \ bad : Delivers(list[k], f)}
           first == CHOOSE k \in able : \A j \in able : k <= j
<1>2. CASE able = {}
  BY <1>1, <1>2
<1>3. CASE able # {}
  <2>1. able \subseteq Nat
    BY DEF BdInv, BdTypes, Devs
  <2>2. first \in able /\ \A j \in able : first <= j
    <3>1. \E k \in able : \A j \in able : k <= j
      BY <2>1, <1>3, LeastNatural
    <3> QED
      BY <3>1
  <2>3. got' = [file |-> f, dev |-> first, n |-> Size(list[first], f), size |-> sizes.size]
    BY <1>1, <1>3
  <2> HIDE DEF first
  <2> QED
    BY <1>1, <2>2, <2>3
<1> QED
  BY <1>2, <1>3

\* bdm_load.
LEMMA LoadSteps == ASSUME BdInv, NEW f \in Files, bdm_load(f) PROVE BdInv'
<1>1. /\ UNCHANGED <<board, stage, blks, fatio_list, mounts, anon, list, sizes, prios>> /\ sizes.file = f /\ (Ok \/ Fails)
  BY DEF bdm_load
<1>2. /\ got' \in [file : Files, dev : Nat, n : Int, size : Int] /\ (got'.n = -5 \/ got'.n > 0)
      /\ got'.n <= got'.size \/ sizes.bad \/ got'.n <= 0
  <2>1. sizes.size \in Int /\ (sizes.bad \/ \A k \in Devs : Size(list[k], f) <= sizes.size)
    BY <1>1 DEF BdInv, BdTypes, Told
  <2>2. CASE got' = [file |-> f, dev |-> 0, n |-> -5, size |-> sizes.size]
    BY <2>1, <2>2
  <2>3. ASSUME NEW k \in Devs, Delivers(list[k], f),
               got' = [file |-> f, dev |-> k, n |-> Size(list[k], f), size |-> sizes.size]
        PROVE  /\ got' \in [file : Files, dev : Nat, n : Int, size : Int] /\ (got'.n = -5 \/ got'.n > 0)
               /\ got'.n <= got'.size \/ sizes.bad \/ got'.n <= 0
    <3>1. list[k] \in Device /\ Backed(list[k]) /\ k \in Nat
      BY DEF BdInv, BdTypes, Devs
    <3>2. Size(list[k], f) \in Int /\ Size(list[k], f) > 0
      BY <3>1, <2>3, SizeNumber DEF Delivers, BdInv
    <3>3. sizes.bad \/ Size(list[k], f) <= sizes.size
      BY <2>1
    <3> QED
      BY <3>1, <3>2, <3>3, <2>1, <2>3
  <2> QED
    BY <2>2, <2>3, LoadTakes
<1>3. BdTypes'
  <2>1. faults' \in 0 .. MaxFaults
    BY <1>1, FaultsStay
  <2> QED
    BY <1>1, <1>2, <2>1 DEF BdInv, BdTypes, Slots, Wraps, Mtds, Disks
<1>4. Told'
  BY <1>1 DEF BdInv, Told, In, Devs, Size, fat_size, mtd_size, cfg_size, Mtds, Disks, IsFat
<1>5. LoadFits'
  BY <1>1, <1>2 DEF LoadFits
<1>6. (\A k \in Devs : Backed(list[k]))' /\ MountsOwned' /\ WrappedOnce' /\ MountPoints' /\ NoPriorities' /\ Sorted(list)'
  BY <1>1 DEF BdInv, Backed, Devs, Mtds, MountsOwned, WrappedOnce, IsInjective, MountPoints, NoPriorities, In, Sorted
<1> QED
  BY <1>3, <1>4, <1>5, <1>6 DEF BdInv

\* Every step keeps the invariant.
LEMMA BdSteps == ASSUME BdInv, [BdNext]_bdVars PROVE BdInv'
<1>1. CASE UNCHANGED bdVars
  BY <1>1 DEF BdInv, BdTypes, Backed, MountsOwned, WrappedOnce, IsInjective, MountPoints, NoPriorities, Told, LoadFits,
              bdVars, Devs, Slots, Wraps, Mtds, Disks, In, Sorted, Size, fat_size, mtd_size, cfg_size, IsFat
<1>2. CASE BdNext
  BY <1>2, StageSteps, FlashMountSteps, AutomountSteps, FatDevSteps, MtdDevSteps, PrioritySteps, DisabledSteps,
     SizeSteps, LoadSteps DEF BdNext, LateInit
<1> QED
  BY <1>1, <1>2

\* Boot devices and mounts own the volumes they read through, an MTD is wrapped
\* once, mount points carry one filesystem, and what is loaded fits the size that
\* was told (fatio_register, mtdblock_create, mount_anon, bdm_load).
THEOREM BootDevicesStaySound == BdSpec => []BootDevicesSound
<1>1. BdInit => BdInv
  BY BdStart
<1>2. BdInv /\ [BdNext]_bdVars => BdInv'
  BY BdSteps
<1>3. BdInv => BootDevicesSound
  <2> SUFFICES ASSUME BdInv PROVE BootDevicesSound
    OBVIOUS
  <2>1. BdTypeOK
    <3>1. stage.at \in 1 .. Len(Stages) /\ stage.i \in Nat
      BY DEF BdInv, BdTypes
    <3>2. \A v \in Slots : fatio_list[v].by \in {"nobody", "vfs", "sgfat", "freed"}
      BY DEF BdInv, BdTypes
    <3>3. \A k \in Devs : list[k].prio \in Nat /\ list[k].vol \in -1 .. Volumes
      <4>1. \A k \in Devs : list[k] \in Device
        BY DEF BdInv, BdTypes, Devs
      <4> QED
        BY <4>1 DEF Device
    <3>4. (got.n = -5 \/ got.n \in Nat \ {0}) /\ faults \in 0 .. MaxFaults
      BY DEF BdInv, BdTypes
    <3> QED
      BY <3>1, <3>2, <3>3, <3>4 DEF BdTypeOK
  <2>2. VolumesOwned
    BY DEF BdInv, MountsOwned, Backed, VolumesOwned
  <2> QED
    BY <2>1, <2>2 DEF BdInv, BootDevicesSound
<1> QED
  BY <1>1, <1>2, <1>3, PTL DEF BdSpec

\* A file comes from a device of smallest priority among the enabled ones that
\* have it, in whatever order priorities were given (sort_device, bdm_load).
THEOREM FilesFromBest == BdSpec => BestDevice
<1> DEFINE Best == got' # got /\ got'.dev > 0 /\ faults' = faults
                     => \A k \in Devs : ~list[k].disabled /\ Size(list[k], got'.file) > 0
                                          => list[got'.dev].prio <= list[k].prio
<1>1. BdInv /\ [BdNext]_bdVars => [Best]_bdVars
  <2> SUFFICES ASSUME BdInv, BdNext, got' # got, got'.dev > 0, faults' = faults, NEW k \in Devs,
                      ~list[k].disabled, Size(list[k], got'.file) > 0
               PROVE  list[got'.dev].prio <= list[k].prio
    OBVIOUS
  <2>1. PICK f \in Files : bdm_load(f)
    <3>1. \E f \in Files : bdm_get_file_size(f) \/ bdm_load(f)
      BY DEF BdNext, LateInit, flash_mount_one, automount, mtdblock_setup, create_fat_dev, sgcfg_init, sgmtd_init,
             StageEnds, bdm_set_priority, bdm_set_disabled
    <3>2. \A f \in Files : ~bdm_get_file_size(f)
      BY DEF bdm_get_file_size, Nothing
    <3> QED
      BY <3>1, <3>2
  <2>2. PICK bad \in {{}} \cup {{i} : i \in Devs} :
             /\ IF bad = {} THEN Ok ELSE Fails
             /\ \/ got' = [file |-> f, dev |-> 0, n |-> -5, size |-> sizes.size]
                \/ \E i \in Devs \ bad :
                     /\ Delivers(list[i], f)
                     /\ \A j \in Devs \ bad : Delivers(list[j], f) => i <= j
                     /\ got' = [file |-> f, dev |-> i, n |-> Size(list[i], f), size |-> sizes.size]
    BY <2>1, LoadTakes
  <2>3. bad = {}
    <3>1. faults \in Nat
      BY BootDevAssumption DEF BdInv, BdTypes
    <3> QED
      BY <2>2, <3>1 DEF Fails
  <2>4. PICK i \in Devs : /\ \A j \in Devs : Delivers(list[j], f) => i <= j
                          /\ got' = [file |-> f, dev |-> i, n |-> Size(list[i], f), size |-> sizes.size]
    BY <2>2, <2>3
  <2>5. Delivers(list[k], f) /\ got'.dev = i
    BY <2>4 DEF Delivers
  <2>6. i <= k
    BY <2>4, <2>5
  <2> QED
    BY <2>5, <2>6 DEF BdInv, Sorted, Devs
<1>2. BdInit => BdInv
  BY BdStart
<1>3. BdInv /\ [BdNext]_bdVars => BdInv'
  BY BdSteps
<1> QED
  BY <1>1, <1>2, <1>3, PTL DEF BdSpec, BestDevice

-----------------------------------------------------------------------------
(* The walk over the device tree, and interrupts.                          *)

\* What a sequence holds.
LEMMA ElementOf ==
    ASSUME NEW D, NEW x \in Seq(D), NEW i \in 1 .. Len(x)
    PROVE  x[i] \in D
  OBVIOUS

\* The types.
Chip == [node : Nodes, irq_start : Nat]
Handler == [irq : Nat, node : Nodes]
DevTypes ==
    /\ tree \in Trees
    /\ at \in [node : 0 .. Len(tree), drv : 0 .. Len(Drivers) + 1] /\ (at.drv > 0 => at.node > 0)
    /\ pdev \in [Nodes -> [status : {"none", "new", "ok", "error"}, drv : Nat]]
    /\ ports \in Seq(Nodes)
    /\ chips \in Seq(Chip) /\ irq_end = IrqCount * Len(chips)
    /\ \A i \in 1 .. Len(chips) : chips[i].irq_start = IrqCount * (i - 1)
    /\ irqds \in Seq(Handler)
    /\ plic \in [Nodes -> [en : SUBSET Lines, pend : SUBSET Lines, act : SUBSET Lines]]
    /\ calls \in [Nodes -> Nat] /\ raised \in [Nodes -> Nat]
    /\ nomem \in Nat

\* The walk is past a node.
Done(n) == n < at.node \/ (n = at.node /\ at.drv = 0)

\* Only nodes the walk is past have chips, ports, handlers and calls.
OnlyDone ==
    /\ \A i \in 1 .. Len(chips) : Done(chips[i].node)
    /\ \A i \in 1 .. Len(ports) : Done(ports[i])
    /\ \A i \in 1 .. Len(irqds) : Done(irqds[i].node)
    /\ \A n \in Nodes : calls[n] > 0 => Done(n)

\* A handler is there for the line of its node, behind a chip.
Routed(d) ==
    /\ Wire(d.node) # NoIrq /\ Wire(d.node)[1] < d.node
    /\ \E k \in 1 .. Len(chips) : chips[k].node = Wire(d.node)[1] /\ d.irq = irq_get(chips[k], Wire(d.node)[2])

\* A node has one handler at most.
NodesOnce == \A i, j \in 1 .. Len(irqds) : irqds[i].node = irqds[j].node => i = j

\* What is pending was raised.
PendRaised == \A n \in Nodes : \A h \in plic[n].pend : \E m \in Nodes : Wire(m) = <<n, h>> /\ raised[m] > 0

DevInv ==
    /\ DevTypes /\ OnlyDone /\ (\A i \in 1 .. Len(irqds) : Routed(irqds[i])) /\ NodesOnce /\ PendRaised
    /\ CallsWereRaised /\ StuckIfHandled /\ OneTakes /\ ChipsAlive /\ PortsOnce

\* The sizes of the tree and of a chip.
LEMMA TreeTypes ==
    ASSUME tree \in Trees
    PROVE  /\ Len(tree) \in Nat /\ Nodes = 1 .. Len(tree) /\ IrqCount \in Nat \ {0} /\ Lines = 1 .. IrqCount
           /\ Len(Drivers) \in Nat /\ \A i \in 1 .. Len(Drivers) : Drivers[i] \in {"plic", "mtli", "uart", "other"}
           /\ \A n \in Nodes : tree[n].stdio \in BOOLEAN
           /\ \A n \in Nodes : Wire(n) # NoIrq => Wire(n) = <<Wire(n)[1], Wire(n)[2]>> /\ Wire(n)[1] \in Nodes /\ Wire(n)[2] \in Lines
<1>1. /\ tree \in Seq([compat : SUBSET STRING, reg : STRING, irq : {<<>>} \cup (Nat \X Nat), stdio : BOOLEAN])
      /\ \A i \in 1 .. Len(tree) : tree[i].irq # <<>> => tree[i].irq[1] \in 1 .. Len(tree) /\ tree[i].irq[2] \in 1 .. IrqCount
      /\ IrqCount \in Nat \ {0} /\ Drivers \in Seq({"plic", "mtli", "uart", "other"})
  BY DevicesAssumption
<1>2. Lines = 1 .. IrqCount
  <2>1. 1 + IrqCount - 1 = IrqCount
    BY <1>1
  <2> QED
    BY <2>1 DEF Lines, hwirq_start
<1>3. ASSUME NEW n \in Nodes, Wire(n) # NoIrq
      PROVE  Wire(n) = <<Wire(n)[1], Wire(n)[2]>> /\ Wire(n)[1] \in Nodes /\ Wire(n)[2] \in Lines
  <2>1. tree[n] \in [compat : SUBSET STRING, reg : STRING, irq : {<<>>} \cup (Nat \X Nat), stdio : BOOLEAN]
    BY <1>1, ElementOf DEF Nodes
  <2>2. Wire(n) \in Nat \X Nat
    BY <1>3, <2>1 DEF Wire, NoIrq
  <2> QED
    BY <2>2, <1>1, <1>2, <1>3 DEF Wire, NoIrq, Nodes
<1>4. ASSUME NEW n \in Nodes PROVE tree[n].stdio \in BOOLEAN
  <2>1. tree[n] \in [compat : SUBSET STRING, reg : STRING, irq : {<<>>} \cup (Nat \X Nat), stdio : BOOLEAN]
    BY <1>1, ElementOf DEF Nodes
  <2> QED
    BY <2>1
<1> QED
  BY <1>1, <1>2, <1>3, <1>4 DEF Nodes

\* The chips and their numbers.
LEMMA ChipTypes ==
    ASSUME DevTypes
    PROVE  /\ IrqCount \in Nat \ {0} /\ Lines = 1 .. IrqCount /\ Len(chips) \in Nat
           /\ \A i \in 1 .. Len(chips) : /\ i \in Nat /\ i - 1 \in Nat /\ chips[i].node \in Nodes
                                        /\ chips[i].irq_start \in Nat /\ chips[i].irq_start = IrqCount * (i - 1)
<1>1. chips \in Seq(Chip) /\ tree \in Trees /\ \A i \in 1 .. Len(chips) : chips[i].irq_start = IrqCount * (i - 1)
  BY DEF DevTypes
<1>2. IrqCount \in Nat \ {0} /\ Lines = 1 .. IrqCount
  BY <1>1, TreeTypes
<1>3. ASSUME NEW i \in 1 .. Len(chips) PROVE chips[i].node \in Nodes /\ chips[i].irq_start \in Nat
  <2>1. chips[i] \in Chip
    BY <1>1, ElementOf
  <2> QED
    BY <2>1 DEF Chip
<1>4. Len(chips) \in Nat /\ \A i \in 1 .. Len(chips) : i \in Nat /\ i - 1 \in Nat
  BY <1>1
<1> QED
  BY <1>1, <1>2, <1>3, <1>4

\* The numbers of different chips, and of different lines, are different.
LEMMA NumbersApart ==
    ASSUME DevTypes, NEW i \in 1 .. Len(chips), NEW j \in 1 .. Len(chips), NEW g \in Lines, NEW h \in Lines,
           irq_get(chips[i], g) = irq_get(chips[j], h)
    PROVE  i = j /\ g = h
<1>1. /\ IrqCount \in Nat \ {0} /\ g \in 1 .. IrqCount /\ h \in 1 .. IrqCount
      /\ i - 1 \in Nat /\ j - 1 \in Nat /\ i \in Nat /\ j \in Nat
      /\ chips[i].irq_start = IrqCount * (i - 1) /\ chips[j].irq_start = IrqCount * (j - 1)
  BY ChipTypes
<1> DEFINE a == IrqCount * (i - 1)
           b == IrqCount * (j - 1)
<1>2. a = (i - 1) * IrqCount /\ b = (j - 1) * IrqCount /\ a \in Nat /\ b \in Nat
  <2>1. ASSUME NEW x \in Nat, NEW y \in Nat PROVE x * y = y * x /\ x * y \in Nat
    OBVIOUS
  <2> QED
    BY <1>1, <2>1
<1>3. a + g - 1 = b + h - 1
  BY <1>1 DEF irq_get, hwirq_start
<1>4. i < j => a + IrqCount <= b
  <2> SUFFICES ASSUME i < j PROVE a + IrqCount <= b
    OBVIOUS
  <2>1. i - 1 < j - 1
    BY <1>1
  <2> QED
    BY <2>1, <1>1, <1>2, SharesFollow
<1>5. j < i => b + IrqCount <= a
  <2> SUFFICES ASSUME j < i PROVE b + IrqCount <= a
    OBVIOUS
  <2>1. j - 1 < i - 1
    BY <1>1
  <2> QED
    BY <2>1, <1>1, <1>2, SharesFollow
<1> HIDE DEF a, b
<1>6. i = j
  BY <1>1, <1>2, <1>3, <1>4, <1>5
<1>7. a = b
  BY <1>6 DEF a, b
<1> QED
  BY <1>1, <1>2, <1>3, <1>6, <1>7

\* find_irq_chip finds the chip whose range holds the number.
LEMMA Finds ==
    ASSUME DevTypes, NEW irq \in Int
    PROVE  find_irq_chip(irq) = NoIrq \/
           \E i \in 1 .. Len(chips) : \E h \in Lines :
              find_irq_chip(irq) = <<chips[i].node, h>> /\ irq = irq_get(chips[i], h)
<1> DEFINE in(c) == irq >= c.irq_start /\ irq < c.irq_start + IrqCount
           I == {i \in 1 .. Len(chips) : in(chips[i])}
<1>1. IrqCount \in Nat \ {0} /\ Lines = 1 .. IrqCount /\ Len(chips) \in Nat /\ \A i \in 1 .. Len(chips) : chips[i].irq_start \in Nat
  BY ChipTypes
<1>2. CASE I = {}
  <2>1. ~ \E i \in 1 .. Len(chips) : in(chips[i])
    BY <1>2
  <2> QED
    BY <2>1 DEF find_irq_chip
<1>3. CASE I # {}
  <2>1. I \subseteq Nat
    OBVIOUS
  <2>2. Lowest(I) \in I
    <3>1. \E i \in I : \A j \in I : i <= j
      BY <2>1, <1>3, LeastNatural
    <3> HIDE DEF I
    <3> QED
      BY <3>1 DEF Lowest
  <2> DEFINE i == Lowest(I)
             h == 1 + irq - chips[i].irq_start
  <2>3. i \in 1 .. Len(chips) /\ in(chips[i])
    BY <2>2
  <2>4. find_irq_chip(irq) = <<chips[i].node, h>>
    <3>1. \E k \in 1 .. Len(chips) : in(chips[k])
      BY <1>3
    <3> QED
      BY <3>1 DEF find_irq_chip, hwirq_start
  <2> HIDE DEF i
  <2>5. h \in Lines /\ irq = irq_get(chips[i], h)
    BY <1>1, <2>3 DEF irq_get, hwirq_start
  <2> HIDE DEF h
  <2> QED
    BY <2>3, <2>4, <2>5
<1> QED
  BY <1>2, <1>3

\* And for the number of a line, that line.
LEMMA FindsBack ==
    ASSUME DevTypes, NEW i \in 1 .. Len(chips), NEW h \in Lines
    PROVE  irq_get(chips[i], h) \in Nat /\ find_irq_chip(irq_get(chips[i], h)) = <<chips[i].node, h>>
<1> DEFINE irq == irq_get(chips[i], h)
<1>1. IrqCount \in Nat \ {0} /\ h \in 1 .. IrqCount /\ chips[i].irq_start \in Nat
  BY ChipTypes
<1>2. irq \in Nat /\ irq >= chips[i].irq_start /\ irq < chips[i].irq_start + IrqCount
  BY <1>1 DEF irq_get, hwirq_start
<1>3. find_irq_chip(irq) # NoIrq
  <2>1. \E k \in 1 .. Len(chips) : irq >= chips[k].irq_start /\ irq < chips[k].irq_start + IrqCount
    BY <1>2
  <2> HIDE DEF irq
  <2>2. \A x, y : <<x, y>> # NoIrq
    BY DEF NoIrq
  <2> QED
    BY <2>1, <2>2 DEF find_irq_chip
<1> HIDE DEF irq
<1>4. PICK j \in 1 .. Len(chips), g \in Lines : find_irq_chip(irq) = <<chips[j].node, g>> /\ irq = irq_get(chips[j], g)
  BY <1>2, <1>3, Finds
<1>5. i = j /\ h = g
  BY <1>4, NumbersApart DEF irq
<1> QED
  BY <1>2, <1>4, <1>5 DEF irq

\* The invariant holds at the start.
LEMMA DevStart == DevInit => DevInv
<1> SUFFICES ASSUME DevInit PROVE DevInv
  OBVIOUS
<1> USE DEF DevInit
<1>1. /\ Len(tree) \in Nat /\ Nodes = 1 .. Len(tree) /\ Len(Drivers) \in Nat /\ IrqCount \in Nat /\ MaxNoMem \in Nat
  BY TreeTypes, DevicesAssumption
<1>2. /\ chips = <<>> /\ ports = <<>> /\ irqds = <<>> /\ Len(chips) = 0 /\ Len(ports) = 0 /\ Len(irqds) = 0
      /\ irq_end = 0 /\ stdio = 0
  OBVIOUS
<1>3. DevTypes
  <2>1. irq_end = IrqCount * Len(chips)
    BY <1>1, <1>2
  <2>2. at \in [node : 0 .. Len(tree), drv : 0 .. Len(Drivers) + 1] /\ at.drv = 0
    BY <1>1
  <2>3. pdev \in [Nodes -> [status : {"none", "new", "ok", "error"}, drv : Nat]]
    BY DEF Gone
  <2>4. plic \in [Nodes -> [en : SUBSET Lines, pend : SUBSET Lines, act : SUBSET Lines]]
    OBVIOUS
  <2>5. calls \in [Nodes -> Nat] /\ raised \in [Nodes -> Nat] /\ nomem \in Nat
    BY <1>1
  <2>6. chips \in Seq(Chip) /\ irqds \in Seq(Handler) /\ ports \in Seq(Nodes)
    BY <1>2
  <2>7. \A i \in 1 .. Len(chips) : chips[i].irq_start = IrqCount * (i - 1)
    BY <1>2
  <2> QED
    BY <2>1, <2>2, <2>3, <2>4, <2>5, <2>6, <2>7 DEF DevTypes
<1>4. \A n \in Nodes : calls[n] = 0 /\ raised[n] = 0 /\ plic[n].act = {} /\ plic[n].pend = {}
  OBVIOUS
<1>5. PortsOnce
  BY <1>2 DEF PortsOnce, IsInjective
<1>6. OnlyDone /\ NodesOnce /\ OneTakes /\ ChipsAlive /\ \A i \in 1 .. Len(irqds) : Routed(irqds[i])
  BY <1>2, <1>4 DEF OnlyDone, NodesOnce, OneTakes, ChipsAlive
<1>7. PendRaised /\ CallsWereRaised /\ StuckIfHandled
  BY <1>4 DEF PendRaised, CallsWereRaised, StuckIfHandled
<1> QED
  BY <1>3, <1>5, <1>6, <1>7 DEF DevInv

\* A step of the walk goes on, and leaves the devices behind it alone.
Walks ==
    /\ at' \in [node : 0 .. Len(tree), drv : 0 .. Len(Drivers) + 1] /\ (at'.drv > 0 => at'.node > 0)
    /\ pdev' \in [Nodes -> [status : {"none", "new", "ok", "error"}, drv : Nat]]
    /\ \A n \in Nodes : Done(n) => Done(n)' /\ pdev'[n] = pdev[n]
    /\ nomem' \in Nat /\ UNCHANGED <<tree, calls, raised>>

\* What the walk leaves alone of the chips, the ports and the handlers.
LEMMA ChipsLeft ==
    ASSUME DevInv, Walks, UNCHANGED <<chips, irq_end>>
    PROVE  /\ ChipsAlive' /\ (\A i \in 1 .. Len(chips) : Done(chips[i].node))'
           /\ chips' \in Seq(Chip) /\ Nodes' = Nodes
           /\ irq_end' = IrqCount * Len(chips') /\ \A i \in 1 .. Len(chips') : chips'[i].irq_start = IrqCount * (i - 1)
<1>1. \A i \in 1 .. Len(chips) : Done(chips[i].node) /\ pdev[chips[i].node].status = "ok" /\ chips[i].node \in Nodes
  BY ChipTypes DEF DevInv, OnlyDone, ChipsAlive
<1>2. \A i \in 1 .. Len(chips) : Done(chips[i].node)' /\ pdev'[chips[i].node] = pdev[chips[i].node]
  BY <1>1 DEF Walks
<1>3. ChipsAlive' /\ (\A i \in 1 .. Len(chips) : Done(chips[i].node))'
  BY <1>1, <1>2 DEF ChipsAlive, Done
<1>4. Nodes' = Nodes /\ chips' \in Seq(Chip)
  BY DEF Walks, Nodes, DevInv, DevTypes
<1> QED
  BY <1>3, <1>4 DEF DevInv, DevTypes

\* The ports, and the devices they belong to.
LEMMA PortTypes ==
    ASSUME DevInv
    PROVE  /\ ports \in Seq(Nodes)
           /\ \A i \in 1 .. Len(ports) : ports[i] \in Nodes /\ Done(ports[i]) /\ pdev[ports[i]].status = "ok"
           /\ \A i, j \in 1 .. Len(ports) : ports[i] = ports[j] => i = j
<1>1. ports \in Seq(Nodes)
  BY DEF DevInv, DevTypes
<1>2. \A i \in 1 .. Len(ports) : ports[i] \in Nodes
  BY <1>1, ElementOf
<1>3. \A i \in 1 .. Len(ports) : Done(ports[i]) /\ pdev[ports[i]].status = "ok"
  BY DEF DevInv, OnlyDone, PortsOnce
<1>4. \A i, j \in DOMAIN ports : ports[i] = ports[j] => i = j
  BY DEF DevInv, PortsOnce, IsInjective
<1>5. DOMAIN ports = 1 .. Len(ports)
  BY <1>1
<1> QED
  BY <1>1, <1>2, <1>3, <1>4, <1>5

\* Ports stay where they are.
LEMMA PortsLeft ==
    ASSUME DevInv, Walks, UNCHANGED <<ports, stdio>>
    PROVE  PortsOnce' /\ (\A i \in 1 .. Len(ports) : Done(ports[i]))' /\ ports' \in Seq(Nodes)
<1>1. \A i \in 1 .. Len(ports) : Done(ports[i])' /\ pdev'[ports[i]].status = "ok"
  BY PortTypes DEF Walks
<1>2. PortsOnce'
  <2>1. UNCHANGED tree
    BY DEF Walks
  <2> QED
    BY <1>1, <2>1 DEF DevInv, PortsOnce
<1> QED
  BY <1>1, <1>2, PortTypes DEF Done

\* The handlers.
LEMMA HandlerTypes ==
    ASSUME DevInv
    PROVE  /\ irqds \in Seq(Handler) /\ Len(irqds) \in Nat
           /\ \A i \in 1 .. Len(irqds) : /\ irqds[i] \in Handler /\ irqds[i].node \in Nodes /\ irqds[i].irq \in Nat
                                         /\ Done(irqds[i].node) /\ Routed(irqds[i])
<1>1. irqds \in Seq(Handler)
  BY DEF DevInv, DevTypes
<1>2. \A i \in 1 .. Len(irqds) : irqds[i] \in Handler
  BY <1>1, ElementOf
<1> QED
  BY <1>1, <1>2 DEF Handler, DevInv, OnlyDone

\* A handler stays where it is while chips are added.
LEMMA HandlersLeft ==
    ASSUME DevInv, Walks, UNCHANGED irqds,
           Len(chips) <= Len(chips'), chips' \in Seq(Chip), \A k \in 1 .. Len(chips) : chips'[k] = chips[k]
    PROVE  /\ (\A i \in 1 .. Len(irqds) : Done(irqds[i].node))' /\ NodesOnce' /\ OneTakes'
           /\ (\A i \in 1 .. Len(irqds) : Routed(irqds[i]))' /\ irqds' \in Seq(Handler)
<1>1. \A i \in 1 .. Len(irqds) : Done(irqds[i].node)'
  BY HandlerTypes DEF Walks
<1>2. ASSUME NEW i \in 1 .. Len(irqds) PROVE Routed(irqds[i])'
  <2>1. PICK k \in 1 .. Len(chips) : chips[k].node = Wire(irqds[i].node)[1] /\ irqds[i].irq = irq_get(chips[k], Wire(irqds[i].node)[2])
    BY HandlerTypes DEF Routed
  <2>2. k \in 1 .. Len(chips') /\ chips'[k] = chips[k]
    BY ChipTypes DEF DevInv
  <2>3. Wire(irqds[i].node)' = Wire(irqds[i].node) /\ UNCHANGED tree
    BY DEF Walks, Wire
  <2>4. Wire(irqds[i].node) # NoIrq /\ Wire(irqds[i].node)[1] < irqds[i].node
    BY HandlerTypes DEF Routed
  <2> QED
    BY <2>1, <2>2, <2>3, <2>4 DEF Routed, irq_get, Wire
<1>3. NodesOnce' /\ OneTakes'
  BY DEF DevInv, NodesOnce, OneTakes, Walks
<1> QED
  BY <1>1, <1>2, <1>3, HandlerTypes DEF Done

\* The controllers, as far as the walk goes.
LEMMA LinesLeft ==
    ASSUME DevInv, Walks,
           plic' \in [Nodes -> [en : SUBSET Lines, pend : SUBSET Lines, act : SUBSET Lines]],
           \A n \in Nodes : plic'[n].pend = plic[n].pend /\ plic'[n].act = plic[n].act
    PROVE  PendRaised' /\ CallsWereRaised' /\ StuckIfHandled' /\ (\A n \in Nodes : calls[n] > 0 => Done(n))'
<1>1. UNCHANGED <<tree, calls, raised, Nodes>>
  BY DEF Walks, Nodes
<1>2. PendRaised' /\ CallsWereRaised' /\ StuckIfHandled'
  <2>1. CallsWereRaised'
    BY <1>1 DEF DevInv, CallsWereRaised, Wire
  <2>2. PendRaised'
    <3> SUFFICES ASSUME NEW n \in Nodes, NEW h \in plic'[n].pend
                 PROVE  \E m \in Nodes : Wire(m)' = <<n, h>> /\ raised'[m] > 0
      BY <1>1 DEF PendRaised
    <3>1. PICK m \in Nodes : Wire(m) = <<n, h>> /\ raised[m] > 0
      BY DEF DevInv, PendRaised
    <3> QED
      BY <1>1, <3>1 DEF Wire
  <2>3. StuckIfHandled'
    <3> SUFFICES ASSUME NEW n \in Nodes, NEW h \in plic'[n].act
                 PROVE  \E m \in HandledBy \cap Nodes : Wire(m)' = <<n, h>> /\ calls'[m] > 0
      BY <1>1 DEF StuckIfHandled
    <3>1. PICK m \in HandledBy \cap Nodes : Wire(m) = <<n, h>> /\ calls[m] > 0
      BY DEF DevInv, StuckIfHandled
    <3> QED
      BY <1>1, <3>1 DEF Wire
  <2> QED
    BY <2>1, <2>2, <2>3
<1>3. (\A n \in Nodes : calls[n] > 0 => Done(n))'
  BY <1>1 DEF DevInv, OnlyDone, Walks
<1> QED
  BY <1>2, <1>3

\* The parts of the invariant after a step of the walk.
LEMMA WalkParts ==
    ASSUME DevInv, Walks,
           chips' \in Seq(Chip), irq_end' = IrqCount * Len(chips'), \A i \in 1 .. Len(chips') : chips'[i].irq_start = IrqCount * (i - 1),
           ChipsAlive', (\A i \in 1 .. Len(chips) : Done(chips[i].node))',
           PortsOnce', (\A i \in 1 .. Len(ports) : Done(ports[i]))', ports' \in Seq(Nodes),
           (\A i \in 1 .. Len(irqds) : Done(irqds[i].node))', NodesOnce', OneTakes',
           (\A i \in 1 .. Len(irqds) : Routed(irqds[i]))', irqds' \in Seq(Handler),
           plic' \in [Nodes -> [en : SUBSET Lines, pend : SUBSET Lines, act : SUBSET Lines]],
           \A n \in Nodes : plic'[n].pend = plic[n].pend /\ plic'[n].act = plic[n].act
    PROVE  DevInv'
<1>1. UNCHANGED <<tree, calls, raised, Nodes, Chip, Handler, Lines>>
  BY DEF Walks, Nodes, Chip, Handler, Lines
<1>2. PendRaised' /\ CallsWereRaised' /\ StuckIfHandled' /\ (\A n \in Nodes : calls[n] > 0 => Done(n))'
  BY LinesLeft
<1>3. DevTypes'
  <2>1. tree' \in Trees /\ calls' \in [Nodes' -> Nat] /\ raised' \in [Nodes' -> Nat]
    BY <1>1 DEF DevInv, DevTypes
  <2>2. /\ at' \in [node : 0 .. Len(tree'), drv : 0 .. Len(Drivers) + 1] /\ (at'.drv > 0 => at'.node > 0)
        /\ pdev' \in [Nodes' -> [status : {"none", "new", "ok", "error"}, drv : Nat]] /\ nomem' \in Nat
    BY <1>1 DEF Walks
  <2>3. chips' \in Seq(Chip') /\ ports' \in Seq(Nodes') /\ irqds' \in Seq(Handler')
        /\ plic' \in [Nodes' -> [en : SUBSET Lines', pend : SUBSET Lines', act : SUBSET Lines']]
    BY <1>1
  <2> QED
    BY <2>1, <2>2, <2>3 DEF DevTypes
<1>4. OnlyDone'
  BY <1>2 DEF OnlyDone
<1> QED
  BY <1>2, <1>3, <1>4 DEF DevInv

\* Where the walk is.
LEMMA WalkTypes ==
    ASSUME DevInv
    PROVE  /\ at \in [node : 0 .. Len(tree), drv : 0 .. Len(Drivers) + 1] /\ at.node \in Nat /\ at.drv \in Nat
           /\ Len(tree) \in Nat /\ Len(Drivers) \in Nat /\ Nodes = 1 .. Len(tree)
           /\ at.drv > 0 => at.node \in Nodes /\ ~Done(at.node)
           /\ pdev \in [Nodes -> [status : {"none", "new", "ok", "error"}, drv : Nat]]
           /\ nomem \in Nat /\ \A n \in Nodes : n \in Nat
<1>1. /\ Len(tree) \in Nat /\ Nodes = 1 .. Len(tree) /\ Len(Drivers) \in Nat
  BY TreeTypes DEF DevInv, DevTypes
<1>2. /\ at \in [node : 0 .. Len(tree), drv : 0 .. Len(Drivers) + 1] /\ (at.drv > 0 => at.node > 0)
      /\ pdev \in [Nodes -> [status : {"none", "new", "ok", "error"}, drv : Nat]] /\ nomem \in Nat
  BY DEF DevInv, DevTypes
<1>3. at.node \in 0 .. Len(tree) /\ at.drv \in 0 .. Len(Drivers) + 1
  BY <1>2
<1>4. at.drv > 0 => at.node \in Nodes /\ ~Done(at.node)
  BY <1>1, <1>2, <1>3 DEF Done
<1> QED
  BY <1>1, <1>2, <1>3, <1>4

\* A step that does not touch chips, ports, handlers or controllers.
LEMMA QuietStep ==
    ASSUME DevInv, Walks, UNCHANGED <<chips, irq_end, ports, stdio, irqds, plic>>
    PROVE  DevInv'
<1>1. plic \in [Nodes -> [en : SUBSET Lines, pend : SUBSET Lines, act : SUBSET Lines]]
  BY DEF DevInv, DevTypes
<1>2. Len(chips) <= Len(chips')
  BY ChipTypes DEF DevInv
<1> QED
  BY <1>1, <1>2, ChipsLeft, PortsLeft, HandlersLeft, WalkParts

\* platform_device_create.
LEMMA CreateSteps == ASSUME DevInv, NEW served \in BOOLEAN, platform_device_create(served) PROVE DevInv'
<1> DEFINE n == at.node + 1
<1>1. /\ at.drv = 0 /\ n \in Nodes /\ at.node \in Nat /\ at.node < Len(tree)
  BY WalkTypes DEF platform_device_create
<1>2. /\ at' \in [node : 0 .. Len(tree), drv : 0 .. Len(Drivers) + 1] /\ at'.node = n
      /\ pdev' = pdev \/ pdev' = [pdev EXCEPT ![n].status = "new"]
  <2>1. 0 \in 0 .. Len(Drivers) + 1 /\ 1 \in 0 .. Len(Drivers) + 1 /\ n \in 0 .. Len(tree)
    BY <1>1, WalkTypes
  <2> QED
    BY <2>1, <1>1 DEF platform_device_create
<1>3. pdev' \in [Nodes -> [status : {"none", "new", "ok", "error"}, drv : Nat]] /\ \A m \in Nodes : m # n => pdev'[m] = pdev[m]
  <2> DEFINE T == [status : {"none", "new", "ok", "error"}, drv : Nat]
             p == [pdev[n] EXCEPT !.status = "new"]
  <2>1. pdev \in [Nodes -> T]
    BY WalkTypes
  <2>2. p \in T
    <3>1. pdev[n] \in T
      BY <2>1, <1>1
    <3> QED
      BY <3>1
  <2>3. pdev' = pdev \/ pdev' = [pdev EXCEPT ![n] = p]
    BY <1>2
  <2> HIDE DEF T, p, n
  <2> QED
    BY <2>1, <2>2, <2>3, <1>1 DEF T
<1>4. ASSUME NEW m \in Nodes, Done(m) PROVE m # n /\ Done(m)'
  BY <1>1, <1>2, <1>4, WalkTypes DEF Done
<1>5. /\ UNCHANGED <<tree, ports, stdio, irqVars, calls, raised>> /\ at'.node > 0 /\ nomem' \in Nat
  BY <1>1, <1>2, WalkTypes DEF platform_device_create
<1>6. Walks
  BY <1>2, <1>3, <1>4, <1>5 DEF Walks
<1> QED
  BY <1>5, <1>6, QuietStep DEF irqVars

\* The walk stays at its node, and only the device of that node changes.
LEMMA Stays ==
    ASSUME DevInv, at.drv > 0, NEW d \in 0 .. Len(Drivers) + 1, at' = [at EXCEPT !.drv = d],
           NEW p \in [status : {"none", "new", "ok", "error"}, drv : Nat], pdev' = [pdev EXCEPT ![at.node] = p],
           UNCHANGED <<tree, calls, raised>>, nomem' \in Nat
    PROVE  /\ Walks /\ at'.node = at.node /\ at'.drv = d
           /\ pdev'[at.node] = p /\ at.node \in Nodes /\ ~Done(at.node) /\ (d = 0 => Done(at.node)')
<1>1. at'.node = at.node /\ at'.drv = d /\ at' \in [node : 0 .. Len(tree), drv : 0 .. Len(Drivers) + 1] /\ at'.node > 0
  <2> DEFINE N == 0 .. Len(tree)
             D == 0 .. Len(Drivers) + 1
  <2>1. at \in [node : N, drv : D] /\ d \in D /\ at.node \in Nat /\ at.node \in Nodes /\ Nodes = 1 .. Len(tree)
    BY WalkTypes
  <2>2. at.node > 0
    BY <2>1
  <2> HIDE DEF N, D
  <2>3. at' \in [node : N, drv : D] /\ at'.node = at.node /\ at'.drv = d
    BY <2>1
  <2> QED
    BY <2>2, <2>3 DEF N, D
<1>2. /\ pdev' \in [Nodes -> [status : {"none", "new", "ok", "error"}, drv : Nat]]
      /\ pdev'[at.node] = p /\ \A m \in Nodes : m # at.node => pdev'[m] = pdev[m]
  BY WalkTypes
<1>3. ASSUME NEW m \in Nodes, Done(m) PROVE m # at.node /\ Done(m)'
  BY <1>1, <1>3, WalkTypes DEF Done
<1>4. d = 0 => Done(at.node)'
  BY <1>1 DEF Done
<1> QED
  BY <1>1, <1>2, <1>3, <1>4, WalkTypes DEF Walks

\* bind_driver of a driver that does not match, and platform_probe's end.
LEMMA PassSteps == ASSUME DevInv, BindNot \/ MatchFails PROVE DevInv'
<1>1. /\ at.drv > 0 /\ UNCHANGED <<tree, ports, stdio, irqVars, calls, raised, nomem>> /\ nomem' \in Nat
  BY WalkTypes DEF BindNot, MatchFails
<1>2. at.node \in Nodes /\ pdev[at.node] \in [status : {"none", "new", "ok", "error"}, drv : Nat]
  BY <1>1, WalkTypes
<1>3. \E d \in 0 .. Len(Drivers) + 1 : at' = [at EXCEPT !.drv = d]
  <2>1. CASE BindNot
    <3>1. at.drv + 1 \in 0 .. Len(Drivers) + 1
      BY <2>1, WalkTypes DEF BindNot
    <3> QED
      BY <2>1, <3>1 DEF BindNot
  <2>2. CASE MatchFails
    <3>1. 0 \in 0 .. Len(Drivers) + 1
      BY WalkTypes
    <3> QED
      BY <2>2, <3>1 DEF MatchFails
  <2> QED
    BY <2>1, <2>2
<1>4. \E p \in [status : {"none", "new", "ok", "error"}, drv : Nat] : pdev' = [pdev EXCEPT ![at.node] = p]
  <2>1. CASE pdev' = pdev
    <3>1. pdev' = [pdev EXCEPT ![at.node] = pdev[at.node]]
      BY <2>1, <1>2, WalkTypes
    <3> QED
      BY <3>1, <1>2
  <2>2. CASE pdev' = [pdev EXCEPT ![at.node] = Gone]
    <3>1. Gone \in [status : {"none", "new", "ok", "error"}, drv : Nat]
      BY DEF Gone
    <3> QED
      BY <2>2, <3>1
  <2> QED
    BY <2>1, <2>2 DEF BindNot, MatchFails
<1>5. Walks
  BY <1>1, <1>3, <1>4, Stays
<1> QED
  BY <1>1, <1>5, QuietStep DEF irqVars

\* platform_get_irq gives the number of the line of the node, at a chip that is
\* there, or none.
LEMMA GetsIrq ==
    ASSUME DevInv, NEW n \in Nodes
    PROVE  \/ platform_get_irq(n) = -19
           \/ /\ Wire(n) # NoIrq
              /\ \E k \in 1 .. Len(chips) : chips[k].node = Wire(n)[1] /\ platform_get_irq(n) = irq_get(chips[k], Wire(n)[2])
<1> DEFINE C == ChipOf(Wire(n)[1])
<1>1. CASE Wire(n) = NoIrq \/ C = {}
  BY <1>1 DEF platform_get_irq
<1>2. CASE Wire(n) # NoIrq /\ C # {}
  <2>1. C \subseteq Nat /\ \A k \in C : k \in 1 .. Len(chips) /\ chips[k].node = Wire(n)[1]
    BY ChipTypes DEF ChipOf, DevInv
  <2>2. Lowest(C) \in C
    <3>1. \E i \in C : \A j \in C : i <= j
      BY <2>1, <1>2, LeastNatural
    <3> HIDE DEF C
    <3> QED
      BY <3>1 DEF Lowest
  <2>3. platform_get_irq(n) = irq_get(chips[Lowest(C)], Wire(n)[2])
    BY <1>2 DEF platform_get_irq
  <2> HIDE DEF C
  <2> QED
    BY <2>1, <2>2, <2>3, <1>2
<1> QED
  BY <1>1, <1>2

\* The probe of a controller.
LEMMA ChipStep ==
    ASSUME DevInv, Walks, at.drv > 0, at'.node = at.node, at'.drv = 0, pdev'[at.node].status = "ok",
           RegisterChip(at.node), UNCHANGED <<irqds, plic, ports, stdio>>
    PROVE  DevInv'
<1> DEFINE c == [node |-> at.node, irq_start |-> irq_end]
<1>1. chips \in Seq(Chip) /\ at.node \in Nodes /\ IrqCount \in Nat /\ Len(chips) \in Nat /\ irq_end = IrqCount * Len(chips)
  BY ChipTypes, WalkTypes DEF DevInv, DevTypes
<1>2. irq_end \in Nat /\ c \in Chip /\ IrqCount * Len(chips) + IrqCount = IrqCount * (Len(chips) + 1)
  BY <1>1 DEF Chip
<1>3. chips' = Append(chips, c) /\ irq_end' = irq_end + IrqCount
  BY DEF RegisterChip, alloc_irq
<1> HIDE DEF c
<1>4. /\ chips' \in Seq(Chip) /\ Len(chips') = Len(chips) + 1 /\ chips'[Len(chips) + 1] = c
      /\ \A i \in 1 .. Len(chips) : chips'[i] = chips[i]
  BY <1>1, <1>2, <1>3
<1>5. \A i \in 1 .. Len(chips') : i \in 1 .. Len(chips) \/ i = Len(chips) + 1
  BY <1>1, <1>4
<1>6. irq_end' = IrqCount * Len(chips')
  BY <1>1, <1>2, <1>3, <1>4
<1>7. \A i \in 1 .. Len(chips') : chips'[i].irq_start = IrqCount * (i - 1)
  <2>1. c.irq_start = IrqCount * ((Len(chips) + 1) - 1)
    BY <1>1 DEF c
  <2> QED
    BY <2>1, <1>4, <1>5, ChipTypes DEF DevInv
<1>8. ChipsAlive' /\ (\A i \in 1 .. Len(chips) : Done(chips[i].node))'
  <2>1. \A i \in 1 .. Len(chips) : Done(chips[i].node) /\ pdev[chips[i].node].status = "ok" /\ chips[i].node \in Nodes
    BY ChipTypes DEF DevInv, OnlyDone, ChipsAlive
  <2>2. ASSUME NEW i \in 1 .. Len(chips)
        PROVE  (chips[i].node < at'.node \/ (chips[i].node = at'.node /\ at'.drv = 0)) /\ pdev'[chips[i].node].status = "ok"
    <3>1. PICK m \in Nodes : m = chips[i].node /\ Done(m) /\ pdev[m].status = "ok"
      BY <2>1
    <3>2. Done(m)' /\ pdev'[m] = pdev[m]
      BY <3>1 DEF Walks
    <3>3. m < at'.node \/ (m = at'.node /\ at'.drv = 0)
      BY <3>1, <1>1, WalkTypes DEF Done
    <3> QED
      BY <3>1, <3>2, <3>3
  <2>3. c.node = at.node
    BY DEF c
  <2>4. \A i \in 1 .. Len(chips') : pdev'[chips'[i].node].status = "ok"
    BY <1>4, <1>5, <2>2, <2>3
  <2>5. \A i \in 1 .. Len(chips') : chips'[i].node < at'.node \/ (chips'[i].node = at'.node /\ at'.drv = 0)
    BY <1>4, <1>5, <2>2, <2>3
  <2> QED
    BY <2>4, <2>5 DEF ChipsAlive, Done
<1>9. plic \in [Nodes -> [en : SUBSET Lines, pend : SUBSET Lines, act : SUBSET Lines]]
  BY DEF DevInv, DevTypes
<1>10. Len(chips) <= Len(chips')
  BY <1>1, <1>4
<1> QED
  BY <1>4, <1>6, <1>7, <1>8, <1>9, <1>10, PortsLeft, HandlersLeft, WalkParts

\* The probe of a serial port.
LEMMA PortStep ==
    ASSUME DevInv, Walks, at.drv > 0, at'.node = at.node, at'.drv = 0, pdev'[at.node].status = "ok",
           ports' = Append(ports, at.node), stdio' = IF tree[at.node].stdio THEN at.node ELSE stdio,
           UNCHANGED <<chips, irq_end, irqds, plic>>
    PROVE  DevInv'
<1> DEFINE n == at.node
<1>1. ports \in Seq(Nodes) /\ n \in Nodes /\ Len(ports) \in Nat /\ ~Done(n) /\ UNCHANGED <<tree, Nodes>>
  BY PortTypes, WalkTypes DEF Walks, Nodes
<1>2. /\ ports' \in Seq(Nodes) /\ Len(ports') = Len(ports) + 1 /\ ports'[Len(ports) + 1] = n
      /\ \A i \in 1 .. Len(ports) : ports'[i] = ports[i]
  BY <1>1
<1>3. \A i \in 1 .. Len(ports') : i \in 1 .. Len(ports) \/ i = Len(ports) + 1
  BY <1>1, <1>2
<1>4. \A i \in 1 .. Len(ports) : ports[i] # n /\ Done(ports[i])' /\ pdev'[ports[i]].status = "ok"
  BY <1>1, PortTypes DEF Walks
<1>5. \A i, j \in 1 .. Len(ports') : ports'[i] = ports'[j] => i = j
  <2> SUFFICES ASSUME NEW i \in 1 .. Len(ports'), NEW j \in 1 .. Len(ports'), ports'[i] = ports'[j] PROVE i = j
    OBVIOUS
  <2> QED
    BY <1>2, <1>3, <1>4, PortTypes
<1>6. IsInjective(ports')
  BY <1>2, <1>5 DEF IsInjective
<1>7. LET console == {i \in 1 .. Len(ports') : tree'[ports'[i]].stdio}
      IN  \/ console = {} /\ stdio' = 0
          \/ \E i \in console : stdio' = ports'[i] /\ \A j \in console : j <= i
  <2> DEFINE old == {i \in 1 .. Len(ports) : tree[ports[i]].stdio}
             new == {i \in 1 .. Len(ports') : tree'[ports'[i]].stdio}
  <2>1. CASE tree[n].stdio
    <3>1. Len(ports) + 1 \in 1 .. Len(ports')
      BY <1>1, <1>2
    <3>2. Len(ports) + 1 \in new
      BY <1>1, <1>2, <2>1, <3>1
    <3>3. \A j \in new : j <= Len(ports) + 1
      BY <1>1, <1>2
    <3>4. stdio' = ports'[Len(ports) + 1]
      BY <1>2, <2>1
    <3> QED
      BY <3>2, <3>3, <3>4
  <2>2. CASE ~tree[n].stdio
    <3>1. new = old
      <4>1. new \subseteq old
        BY <1>1, <1>2, <1>3, <2>2
      <4>2. old \subseteq new
        BY <1>1, <1>2
      <4> HIDE DEF new, old
      <4> QED
        BY <4>1, <4>2
    <3>2. (old = {} /\ stdio = 0) \/ (\E i \in old : stdio = ports[i] /\ \A j \in old : j <= i)
      BY DEF DevInv, PortsOnce
    <3>3. stdio' = stdio /\ \A i \in old : ports'[i] = ports[i]
      BY <1>2, <2>2
    <3> HIDE DEF new, old
    <3>4. (new = {} /\ stdio' = 0) \/ (\E i \in new : stdio' = ports'[i] /\ \A j \in new : j <= i)
      BY <3>1, <3>2, <3>3
    <3> QED
      BY <3>4 DEF new
  <2> QED
    BY <2>1, <2>2
<1>8. \A i \in 1 .. Len(ports') : pdev'[ports'[i]].status = "ok"
  BY <1>2, <1>3, <1>4
<1>9. PortsOnce'
  BY <1>6, <1>7, <1>8 DEF PortsOnce
<1>10. (\A i \in 1 .. Len(ports) : Done(ports[i]))'
  <2>1. \A i \in 1 .. Len(ports') : ports'[i] < at'.node \/ (ports'[i] = at'.node /\ at'.drv = 0)
    BY <1>2, <1>3, <1>4 DEF Done
  <2> QED
    BY <2>1 DEF Done
<1>11. plic \in [Nodes -> [en : SUBSET Lines, pend : SUBSET Lines, act : SUBSET Lines]]
  BY DEF DevInv, DevTypes
<1>12. Len(chips) <= Len(chips')
  BY ChipTypes DEF DevInv
<1> QED
  BY <1>2, <1>9, <1>10, <1>11, <1>12, ChipsLeft, HandlersLeft, WalkParts

\* The controllers' registers are typed.
PlicT == [Nodes -> [en : SUBSET Lines, pend : SUBSET Lines, act : SUBSET Lines]]

\* Enabling or disabling lines leaves what is pending and in service alone.
LEMMA EnablesOnly ==
    ASSUME DevInv, NEW m \in Nodes, NEW E \in SUBSET Lines, plic' = [plic EXCEPT ![m].en = E]
    PROVE  plic' \in PlicT /\ \A n \in Nodes : plic'[n].pend = plic[n].pend /\ plic'[n].act = plic[n].act
<1> DEFINE R == [en : SUBSET Lines, pend : SUBSET Lines, act : SUBSET Lines]
           p == [plic[m] EXCEPT !.en = E]
<1>1. plic \in [Nodes -> R]
  BY DEF DevInv, DevTypes
<1>2. plic[m] \in R
  BY <1>1
<1>3. p \in R /\ p.pend = plic[m].pend /\ p.act = plic[m].act
  BY <1>2
<1>4. plic' = [plic EXCEPT ![m] = p]
  OBVIOUS
<1> HIDE DEF R, p
<1>5. plic' \in [Nodes -> R] /\ plic'[m] = p /\ \A n \in Nodes : n # m => plic'[n] = plic[n]
  BY <1>1, <1>3, <1>4
<1> QED
  BY <1>3, <1>5 DEF R, PlicT

\* The probe of a client of a controller.
LEMMA HandlerStep ==
    ASSUME DevInv, Walks, at.drv > 0, at'.node = at.node, at'.drv = 0, pdev'[at.node].status = "ok",
           irq_request(platform_get_irq(at.node), at.node), UNCHANGED <<chips, irq_end, ports, stdio>>
    PROVE  DevInv'
<1>1. at.node \in Nodes /\ ~Done(at.node) /\ at.node \in Nat /\ DevTypes /\ tree \in Trees
  BY WalkTypes DEF DevInv, DevTypes
<1>2. CASE platform_get_irq(at.node) = -19
  <2>1. find_irq_chip(-19) = NoIrq
    <3>1. -19 \in Int
      OBVIOUS
    <3>2. \A i \in 1 .. Len(chips) : \A h \in Lines : irq_get(chips[i], h) \in Nat
      BY <1>1, FindsBack
    <3>3. \A i \in 1 .. Len(chips) : \A h \in Lines : -19 # irq_get(chips[i], h)
      BY <3>2
    <3> QED
      BY <1>1, <3>1, <3>3, Finds
  <2>2. UNCHANGED <<irqds, plic>>
    BY <1>2, <2>1 DEF irq_request
  <2> QED
    BY <2>2, QuietStep
<1>3. ASSUME Wire(at.node) # NoIrq, NEW k \in 1 .. Len(chips), chips[k].node = Wire(at.node)[1],
             platform_get_irq(at.node) = irq_get(chips[k], Wire(at.node)[2])
      PROVE  DevInv'
  <2>1. PICK h \in Lines : h = Wire(at.node)[2]
    BY <1>1, <1>3, TreeTypes
  <2>2. PICK irq \in Nat : irq = irq_get(chips[k], h)
    BY <1>1, <2>1, FindsBack
  <2>3. PICK m \in Nodes : m = chips[k].node
    BY <1>1, ChipTypes
  <2>4. find_irq_chip(irq) = <<m, h>>
    BY <1>1, <2>2, <2>3, FindsBack
  <2>5. find_irq_chip(irq) # NoIrq /\ find_irq_chip(irq)[1] = m /\ find_irq_chip(irq)[2] = h
    <3>1. \A x, y : <<x, y>> # NoIrq
      BY DEF NoIrq
    <3> QED
      BY <2>4, <3>1, PairParts
  <2>6. PICK n \in Nodes : n = at.node
    BY <1>1
  <2>7. PICK d \in Handler : d.irq = irq /\ d.node = n /\ irqds' = Append(irqds, d)
    <3>1. [irq |-> irq, node |-> n] \in Handler
      BY DEF Handler
    <3>2. irqds' = Append(irqds, [irq |-> irq, node |-> n])
      BY <1>3, <2>1, <2>2, <2>5, <2>6 DEF irq_request
    <3> QED
      BY <3>1, <3>2
  <2>8. plic' \in PlicT /\ \A x \in Nodes : plic'[x].pend = plic[x].pend /\ plic'[x].act = plic[x].act
    <3>1. plic' = [plic EXCEPT ![m].en = plic[m].en \cup {h}]
      BY <1>3, <2>1, <2>2, <2>5, <2>6 DEF irq_request
    <3>2. plic[m].en \cup {h} \in SUBSET Lines
      <4>1. plic[m] \in [en : SUBSET Lines, pend : SUBSET Lines, act : SUBSET Lines]
        BY DEF DevInv, DevTypes
      <4> QED
        BY <4>1
    <3> QED
      BY <3>1, <3>2, EnablesOnly
  <2>9. irqds \in Seq(Handler) /\ Len(irqds) \in Nat
    BY HandlerTypes
  <2>10. /\ irqds' \in Seq(Handler) /\ Len(irqds') = Len(irqds) + 1 /\ irqds'[Len(irqds) + 1] = d
         /\ \A i \in 1 .. Len(irqds) : irqds'[i] = irqds[i]
    BY <2>7, <2>9
  <2>11. \A i \in 1 .. Len(irqds') : i \in 1 .. Len(irqds) \/ i = Len(irqds) + 1
    BY <2>9, <2>10
  <2>12. \A i \in 1 .. Len(irqds) : irqds[i].node # n /\ irqds[i].node \in Nodes
    BY <1>1, <2>6, HandlerTypes
  <2>13. m < n
    <3>1. Done(m)
      BY <2>3 DEF DevInv, OnlyDone
    <3> QED
      BY <3>1, <2>6, <2>3 DEF Done
  <2>14. at'.node = n /\ at'.drv = 0 /\ UNCHANGED <<tree, calls, chips>>
    BY <2>6 DEF Walks
  <2>15. ASSUME NEW i \in 1 .. Len(irqds')
         PROVE  irqds'[i].node < at'.node \/ (irqds'[i].node = at'.node /\ at'.drv = 0)
    <3>1. CASE i \in 1 .. Len(irqds)
      <4>1. PICK x \in Nodes : x = irqds[i].node /\ Done(x)
        BY <3>1, HandlerTypes
      <4>2. Done(x)'
        BY <4>1 DEF Walks
      <4> QED
        BY <3>1, <4>1, <4>2, <2>10 DEF Done
    <3>2. CASE i = Len(irqds) + 1
      BY <3>2, <2>7, <2>10, <2>14
    <3> QED
      BY <3>1, <3>2, <2>11
  <2>16. NodesOnce'
    <3> SUFFICES ASSUME NEW i \in 1 .. Len(irqds'), NEW j \in 1 .. Len(irqds'), irqds'[i].node = irqds'[j].node PROVE i = j
      BY DEF NodesOnce
    <3>1. CASE i \in 1 .. Len(irqds) /\ j \in 1 .. Len(irqds)
      BY <3>1, <2>10 DEF DevInv, NodesOnce
    <3> QED
      BY <3>1, <2>7, <2>10, <2>11, <2>12
  <2>17. OneTakes'
    <3> SUFFICES ASSUME NEW i \in 1 .. Len(irqds'), NEW j \in 1 .. Len(irqds'), i < j,
                        irqds'[i].irq = irqds'[j].irq, irqds'[i].node \in HandledBy
                 PROVE  calls'[irqds'[j].node] = 0
      BY DEF OneTakes
    <3>1. CASE j \in 1 .. Len(irqds)
      <4>1. i \in 1 .. Len(irqds)
        BY <3>1, <2>9, <2>11
      <4> QED
        BY <3>1, <4>1, <2>10, <2>14 DEF DevInv, OneTakes
    <3>2. CASE j = Len(irqds) + 1
      <4>1. calls \in [Nodes -> Nat] /\ ~(calls[n] > 0)
        BY <1>1, <2>6 DEF DevInv, DevTypes, OnlyDone
      <4> QED
        BY <4>1, <3>2, <2>7, <2>10, <2>14
    <3> QED
      BY <3>1, <3>2, <2>11
  <2>18. ASSUME NEW i \in 1 .. Len(irqds') PROVE Routed(irqds[i])'
    <3>1. CASE i \in 1 .. Len(irqds)
      <4>1. Routed(irqds[i]) /\ irqds'[i] = irqds[i]
        BY <3>1, <2>10, HandlerTypes
      <4> QED
        BY <4>1, <2>14 DEF Routed, Wire, irq_get
    <3>2. CASE i = Len(irqds) + 1
      <4>1. irqds'[i] = d
        BY <3>2, <2>10
      <4>2. Wire(n) # NoIrq /\ Wire(n)[1] < n /\ chips[k].node = Wire(n)[1] /\ d.irq = irq_get(chips[k], Wire(n)[2])
        BY <1>3, <2>1, <2>2, <2>3, <2>6, <2>7, <2>13
      <4> QED
        BY <4>1, <4>2, <2>7, <2>14 DEF Routed, Wire, irq_get
    <3> QED
      BY <3>1, <3>2, <2>11
  <2>19. (\A i \in 1 .. Len(irqds) : Done(irqds[i].node))'
    BY <2>15 DEF Done
  <2> QED
    BY <2>8, <2>10, <2>16, <2>17, <2>18, <2>19, ChipsLeft, PortsLeft, WalkParts DEF PlicT
<1> QED
  BY <1>1, <1>2, <1>3, GetsIrq

\* bind_driver of a driver that matches.
LEMMA BindSteps == ASSUME DevInv, NEW ok \in BOOLEAN, bind_driver(ok) PROVE DevInv'
<1> DEFINE d == Drivers[at.drv]
           good == ok \/ d = "mtli"
           p == [status |-> IF good THEN "ok" ELSE "error", drv |-> at.drv]
           v == IF good THEN 0 ELSE at.drv + 1
<1>1. /\ at.drv \in 1 .. Len(Drivers) /\ at.drv > 0 /\ at.drv \in Nat /\ Len(Drivers) \in Nat
  BY WalkTypes DEF bind_driver
<1>2. /\ Probe(d, at.node, ok) /\ pdev' = [pdev EXCEPT ![at.node] = p] /\ at' = [at EXCEPT !.drv = v]
      /\ nomem' = (IF ok THEN nomem ELSE nomem + 1) /\ UNCHANGED <<tree, calls, raised>>
  BY DEF bind_driver
<1>3. v \in 0 .. Len(Drivers) + 1 /\ p \in [status : {"none", "new", "ok", "error"}, drv : Nat] /\ nomem' \in Nat
  BY <1>1, <1>2, WalkTypes
<1>4. (good => v = 0 /\ p.status = "ok")
  OBVIOUS
<1> HIDE DEF p, v, d
<1>5. Walks /\ at'.node = at.node /\ at'.drv = v /\ pdev'[at.node] = p
  BY <1>1, <1>2, <1>3, Stays
<1>6. CASE ~ok
  <2>1. UNCHANGED <<chips, irq_end, ports, stdio, irqds, plic>>
    BY <1>2, <1>6 DEF Probe, plic_probe, mtli_probe, uart_probe, other_probe, irqVars
  <2> QED
    BY <1>5, <2>1, QuietStep
<1>7. CASE ok
  <2>1. at'.drv = 0 /\ pdev'[at.node].status = "ok"
    BY <1>4, <1>5, <1>7
  <2>2. CASE d = "plic"
    <3>1. RegisterChip(at.node) /\ UNCHANGED <<irqds, plic, ports, stdio>>
      BY <1>2, <1>7, <2>2 DEF Probe, plic_probe
    <3> QED
      BY <1>1, <1>5, <2>1, <3>1, ChipStep
  <2>3. CASE d = "mtli"
    <3>1. irq_request(platform_get_irq(at.node), at.node) /\ UNCHANGED <<chips, irq_end, ports, stdio>>
      BY <1>2, <1>7, <2>3 DEF Probe, mtli_probe
    <3> QED
      BY <1>1, <1>5, <2>1, <3>1, HandlerStep
  <2>4. CASE d = "uart"
    <3>1. ports' = Append(ports, at.node) /\ stdio' = (IF tree[at.node].stdio THEN at.node ELSE stdio)
          /\ UNCHANGED <<chips, irq_end, irqds, plic>>
      BY <1>2, <1>7, <2>4 DEF Probe, uart_probe, irqVars
    <3> QED
      BY <1>1, <1>5, <2>1, <3>1, PortStep
  <2>5. CASE d \notin {"plic", "mtli", "uart"}
    <3>1. UNCHANGED <<chips, irq_end, ports, stdio, irqds, plic>>
      BY <1>2, <1>7, <2>5 DEF Probe, other_probe, irqVars
    <3> QED
      BY <1>5, <3>1, QuietStep
  <2> QED
    BY <2>2, <2>3, <2>4, <2>5
<1> QED
  BY <1>6, <1>7

\* platform_probe.
LEMMA ProbeSteps == ASSUME DevInv, platform_probe PROVE DevInv'
  BY CreateSteps, PassSteps, BindSteps DEF platform_probe

\* Outside the walk, the walk stands still.
LEMMA Still == ASSUME DevInv, UNCHANGED <<tree, at, pdev, calls, raised, nomem>> PROVE Walks
  BY WalkTypes DEF Walks, DevInv, DevTypes, Done

\* irq_enable and irq_disable.
LEMMA SwitchSteps ==
    ASSUME DevInv, NEW irq \in Nat, irq_enable(irq) \/ irq_disable(irq)
    PROVE  DevInv'
<1>1. /\ find_irq_chip(irq) # NoIrq /\ UNCHANGED <<tree, at, pdev, ports, stdio, chips, irq_end, irqds, calls, raised, nomem>>
  BY DEF irq_enable, irq_disable, busVars
<1>2. Walks
  BY <1>1, Still
<1>3. DevTypes /\ irq \in Int
  BY DEF DevInv
<1>4. PICK i \in 1 .. Len(chips), h \in Lines : find_irq_chip(irq) = <<chips[i].node, h>>
  BY <1>1, <1>3, Finds
<1>5. PICK m \in Nodes : m = chips[i].node
  BY <1>3, ChipTypes
<1>6. find_irq_chip(irq)[1] = m /\ find_irq_chip(irq)[2] = h
  BY <1>4, <1>5, PairParts
<1>7. plic[m].en \subseteq Lines
  <2>1. plic[m] \in [en : SUBSET Lines, pend : SUBSET Lines, act : SUBSET Lines]
    BY <1>3 DEF DevTypes
  <2> QED
    BY <2>1
<1>8. \E E \in SUBSET Lines : plic' = [plic EXCEPT ![m].en = E]
  <2>1. CASE irq_enable(irq)
    <3>1. plic' = [plic EXCEPT ![m].en = plic[m].en \cup {h}]
      BY <1>6, <2>1 DEF irq_enable
    <3>2. plic[m].en \cup {h} \in SUBSET Lines
      BY <1>7
    <3> QED
      BY <3>1, <3>2
  <2>2. CASE irq_disable(irq)
    <3>1. plic' = [plic EXCEPT ![m].en = plic[m].en \ {h}]
      BY <1>6, <2>2 DEF irq_disable
    <3>2. plic[m].en \ {h} \in SUBSET Lines
      BY <1>7
    <3> QED
      BY <3>1, <3>2
  <2> QED
    BY <2>1, <2>2
<1>9. plic' \in PlicT /\ \A n \in Nodes : plic'[n].pend = plic[n].pend /\ plic'[n].act = plic[n].act
  BY <1>8, EnablesOnly
<1>10. Len(chips) <= Len(chips')
  BY <1>1, <1>3, ChipTypes
<1> QED
  BY <1>1, <1>2, <1>9, <1>10, ChipsLeft, PortsLeft, HandlersLeft, WalkParts DEF PlicT

\* Two sequences, one after the other.
LEMMA Joined ==
    ASSUME NEW D, NEW a \in Seq(D), NEW b \in Seq(D)
    PROVE  a \o b \in Seq(D) /\ Len(a \o b) = Len(a) + Len(b)
  OBVIOUS

\* A sequence without one of its elements: the others stay in order.
LEMMA Removed ==
    ASSUME NEW D, NEW s \in Seq(D), NEW k \in 1 .. Len(s)
    PROVE  /\ RemoveAt(s, k) \in Seq(D) /\ Len(RemoveAt(s, k)) = Len(s) - 1
           /\ \A i \in 1 .. Len(RemoveAt(s, k)) :
                 RemoveAt(s, k)[i] = s[IF i < k THEN i ELSE i + 1] /\ (IF i < k THEN i ELSE i + 1) \in 1 .. Len(s)
<1> DEFINE a == SubSeq(s, 1, k - 1)
           b == SubSeq(s, k + 1, Len(s))
<1>1. RemoveAt(s, k) = a \o b
  BY DEF RemoveAt
<1>2. Len(s) \in Nat /\ k \in Nat /\ k >= 1 /\ k <= Len(s)
  OBVIOUS
<1>3. a \in Seq(D) /\ Len(a) = k - 1 /\ \A i \in 1 .. k - 1 : a[i] = s[i]
  BY <1>2
<1>4. b \in Seq(D) /\ Len(b) = Len(s) - k /\ \A i \in 1 .. Len(s) - k : b[i] = s[k + i]
  BY <1>2
<1> HIDE DEF a, b
<1>5. a \o b \in Seq(D) /\ Len(a \o b) = Len(s) - 1
  <2>1. a \o b \in Seq(D) /\ Len(a \o b) = Len(a) + Len(b)
    BY <1>3, <1>4, Joined
  <2>2. (k - 1) + (Len(s) - k) = Len(s) - 1
    BY <1>2
  <2> QED
    BY <2>1, <2>2, <1>3, <1>4
<1>6. ASSUME NEW i \in 1 .. Len(s) - 1
      PROVE  (a \o b)[i] = s[IF i < k THEN i ELSE i + 1] /\ (IF i < k THEN i ELSE i + 1) \in 1 .. Len(s)
  <2>1. CASE i < k
    BY <1>2, <1>3, <1>4, <2>1
  <2>2. CASE ~(i < k)
    <3>1. i - (k - 1) \in 1 .. Len(s) - k /\ k + (i - (k - 1)) = i + 1 /\ i + 1 \in 1 .. Len(s)
      BY <1>2, <2>2
    <3>2. (a \o b)[i] = b[i - (k - 1)]
      BY <1>2, <1>3, <1>4, <2>2
    <3> QED
      BY <1>4, <2>2, <3>1, <3>2
  <2> QED
    BY <2>1, <2>2
<1> QED
  BY <1>1, <1>5, <1>6

\* irq_free.
LEMMA FreeSteps == ASSUME DevInv, NEW n \in Nodes, irq_free(n) PROVE DevInv'
<1>1. UNCHANGED <<tree, at, pdev, ports, stdio, chips, irq_end, plic, calls, raised, nomem>>
  BY DEF irq_free, busVars
<1>2. Walks
  BY <1>1, Still
<1> DEFINE I == {i \in 1 .. Len(irqds) : irqds[i].node = n}
<1>3. Lowest(I) \in I
  <2>1. I \subseteq Nat /\ I # {}
    BY DEF irq_free
  <2>2. \E i \in I : \A j \in I : i <= j
    BY <2>1, LeastNatural
  <2> HIDE DEF I
  <2> QED
    BY <2>2 DEF Lowest
<1>4. PICK k \in 1 .. Len(irqds) : irqds' = RemoveAt(irqds, k)
  BY <1>3 DEF irq_free
<1> DEFINE at0(i) == IF i < k THEN i ELSE i + 1
<1>5. irqds \in Seq(Handler) /\ Len(irqds) \in Nat
  BY HandlerTypes
<1>6. irqds' \in Seq(Handler) /\ Len(irqds') = Len(irqds) - 1
  BY <1>4, <1>5, Removed
<1>7. \A i \in 1 .. Len(irqds') : irqds'[i] = irqds[at0(i)] /\ at0(i) \in 1 .. Len(irqds)
  BY <1>4, <1>5, Removed
<1>8. \A i, j \in 1 .. Len(irqds') : (at0(i) = at0(j) => i = j) /\ (i < j => at0(i) < at0(j))
  BY <1>5, <1>6
<1> HIDE DEF at0
<1>9. (\A i \in 1 .. Len(irqds) : Done(irqds[i].node))'
  <2>1. \A i \in 1 .. Len(irqds') : irqds'[i].node < at.node \/ (irqds'[i].node = at.node /\ at.drv = 0)
    BY <1>7, HandlerTypes DEF Done
  <2> QED
    BY <1>1, <2>1 DEF Done
<1>10. NodesOnce'
  <2> SUFFICES ASSUME NEW i \in 1 .. Len(irqds'), NEW j \in 1 .. Len(irqds'), irqds'[i].node = irqds'[j].node PROVE i = j
    BY DEF NodesOnce
  <2> QED
    BY <1>7, <1>8 DEF DevInv, NodesOnce
<1>11. OneTakes'
  <2> SUFFICES ASSUME NEW i \in 1 .. Len(irqds'), NEW j \in 1 .. Len(irqds'), i < j,
                      irqds'[i].irq = irqds'[j].irq, irqds'[i].node \in HandledBy
               PROVE  calls'[irqds'[j].node] = 0
    BY DEF OneTakes
  <2> QED
    BY <1>1, <1>7, <1>8 DEF DevInv, OneTakes
<1>12. (\A i \in 1 .. Len(irqds) : Routed(irqds[i]))'
  <2> SUFFICES ASSUME NEW i \in 1 .. Len(irqds') PROVE Routed(irqds[i])'
    OBVIOUS
  <2>1. PICK d \in Handler : irqds'[i] = d /\ Routed(d)
    BY <1>7, HandlerTypes
  <2> QED
    BY <1>1, <2>1 DEF Routed, Wire, irq_get
<1>13. plic' \in PlicT
  BY <1>1 DEF PlicT, DevInv, DevTypes
<1> QED
  BY <1>1, <1>2, <1>6, <1>9, <1>10, <1>11, <1>12, <1>13, ChipsLeft, PortsLeft, WalkParts DEF PlicT

\* A device raises its interrupt.
LEMMA RaiseSteps == ASSUME DevInv, NEW n \in Nodes, Raise(n) PROVE DevInv'
<1>1. UNCHANGED <<tree, at, pdev, ports, stdio, chips, irq_end, irqds, calls, nomem>> /\ raised' = [raised EXCEPT ![n] = @ + 1]
  BY DEF Raise, busVars
<1>2. Wire(n) # NoIrq /\ DevTypes /\ tree \in Trees
  BY DEF Raise, DevInv, DevTypes
<1>3. PICK m \in Nodes, h \in Lines : m = Wire(n)[1] /\ h = Wire(n)[2] /\ Wire(n) = <<m, h>>
  BY <1>2, TreeTypes
<1>4. plic' = [plic EXCEPT ![m].pend = plic[m].pend \cup {h}]
  BY <1>3 DEF Raise
<1> DEFINE R == [en : SUBSET Lines, pend : SUBSET Lines, act : SUBSET Lines]
           p == [plic[m] EXCEPT !.pend = plic[m].pend \cup {h}]
<1>5. plic \in [Nodes -> R] /\ plic[m] \in R
  BY <1>2 DEF DevTypes
<1>6. p \in R /\ p.act = plic[m].act /\ p.pend = plic[m].pend \cup {h}
  BY <1>5
<1>7. plic' = [plic EXCEPT ![m] = p]
  BY <1>4
<1> HIDE DEF R, p
<1>8. plic' \in [Nodes -> R] /\ plic'[m] = p /\ \A x \in Nodes : x # m => plic'[x] = plic[x]
  BY <1>5, <1>6, <1>7
<1>9. raised' \in [Nodes -> Nat] /\ raised'[n] > 0 /\ \A x \in Nodes : raised[x] > 0 => raised'[x] > 0
  <2>1. raised \in [Nodes -> Nat]
    BY <1>2 DEF DevTypes
  <2>2. raised[n] \in Nat
    BY <2>1
  <2>3. raised' \in [Nodes -> Nat] /\ raised'[n] = raised[n] + 1 /\ \A x \in Nodes : x # n => raised'[x] = raised[x]
    BY <1>1, <2>1, <2>2
  <2> QED
    BY <2>2, <2>3
<1>10. UNCHANGED <<Nodes, Chip, Handler>>
  BY <1>1 DEF Nodes, Chip, Handler
<1>11. DevTypes'
  <2>1. /\ tree' \in Trees /\ at' \in [node : 0 .. Len(tree'), drv : 0 .. Len(Drivers) + 1] /\ (at'.drv > 0 => at'.node > 0)
        /\ pdev' \in [Nodes' -> [status : {"none", "new", "ok", "error"}, drv : Nat]] /\ ports' \in Seq(Nodes')
        /\ chips' \in Seq(Chip') /\ irq_end' = IrqCount * Len(chips')
        /\ \A i \in 1 .. Len(chips') : chips'[i].irq_start = IrqCount * (i - 1)
        /\ irqds' \in Seq(Handler') /\ calls' \in [Nodes' -> Nat] /\ nomem' \in Nat
    BY <1>1, <1>2, <1>10 DEF DevTypes
  <2>2. plic' \in [Nodes' -> [en : SUBSET Lines', pend : SUBSET Lines', act : SUBSET Lines']] /\ raised' \in [Nodes' -> Nat]
    BY <1>8, <1>9, <1>10 DEF R, Lines
  <2> QED
    BY <2>1, <2>2 DEF DevTypes
<1>12. PendRaised'
  <2> SUFFICES ASSUME NEW x \in Nodes, NEW g \in plic'[x].pend
               PROVE  \E y \in Nodes : Wire(y)' = <<x, g>> /\ raised'[y] > 0
    BY <1>10 DEF PendRaised
  <2>1. Wire(n)' = Wire(n) /\ \A y \in Nodes : Wire(y)' = Wire(y)
    BY <1>1 DEF Wire
  <2>2. CASE g \in plic[x].pend
    <3>1. PICK y \in Nodes : Wire(y) = <<x, g>> /\ raised[y] > 0
      BY <2>2 DEF DevInv, PendRaised
    <3> QED
      BY <2>1, <3>1, <1>9
  <2>3. CASE g \notin plic[x].pend
    <3>1. x = m /\ g = h
      BY <2>3, <1>6, <1>8
    <3> QED
      BY <2>1, <3>1, <1>3, <1>9
  <2> QED
    BY <2>2, <2>3
<1>13. CallsWereRaised'
  <2> SUFFICES ASSUME NEW x \in Nodes, calls[x] > 0
               PROVE  \E y \in Nodes : Wire(y)' = Wire(x)' /\ Wire(x)' # NoIrq /\ raised'[y] > 0
    BY <1>1, <1>10 DEF CallsWereRaised, NoIrq
  <2>1. PICK y \in Nodes : Wire(y) = Wire(x) /\ Wire(x) # NoIrq /\ raised[y] > 0
    BY DEF DevInv, CallsWereRaised
  <2> QED
    BY <2>1, <1>1, <1>9 DEF Wire
<1>14. StuckIfHandled'
  <2> SUFFICES ASSUME NEW x \in Nodes, NEW g \in plic'[x].act
               PROVE  \E y \in HandledBy \cap Nodes : Wire(y)' = <<x, g>> /\ calls'[y] > 0
    BY <1>10 DEF StuckIfHandled
  <2>1. g \in plic[x].act
    BY <1>6, <1>8
  <2>2. PICK y \in HandledBy \cap Nodes : Wire(y) = <<x, g>> /\ calls[y] > 0
    BY <2>1 DEF DevInv, StuckIfHandled
  <2> QED
    BY <2>2, <1>1 DEF Wire
<1>15. OnlyDone' /\ NodesOnce' /\ OneTakes' /\ ChipsAlive' /\ PortsOnce'
  <2>1. OnlyDone'
    BY <1>1, <1>10 DEF DevInv, OnlyDone, Done
  <2>2. NodesOnce' /\ OneTakes' /\ ChipsAlive'
    BY <1>1 DEF DevInv, NodesOnce, OneTakes, ChipsAlive
  <2>3. PortsOnce'
    BY <1>1 DEF DevInv, PortsOnce
  <2> QED
    BY <2>1, <2>2, <2>3
<1>16. (\A i \in 1 .. Len(irqds) : Routed(irqds[i]))'
  BY <1>1 DEF DevInv, Routed, Wire, irq_get
<1> QED
  BY <1>11, <1>12, <1>13, <1>14, <1>15, <1>16 DEF DevInv

\* A set of positions of a sequence, counted.
LEMMA Counted ==
    ASSUME NEW n \in Nat, NEW S \in SUBSET (1 .. n)
    PROVE  Cardinality(S) \in Nat /\ (Cardinality(S) > 0 <=> S # {})
<1>1. IsFiniteSet(1 .. n)
  BY FS_Interval
<1>2. IsFiniteSet(S)
  BY <1>1, FS_Subset
<1>3. Cardinality(S) \in Nat
  BY <1>2, FS_CardinalityType
<1>4. Cardinality(S) = 0 <=> S = {}
  BY <1>2, FS_EmptySet
<1>5. ASSUME NEW c \in Nat PROVE c > 0 <=> c # 0
  OBVIOUS
<1>6. Cardinality(S) > 0 <=> Cardinality(S) # 0
  BY <1>3, <1>5
<1> QED
  BY <1>3, <1>4, <1>6

\* The handlers that run are of the number, and none runs behind one that
\* returned IRQ_HANDLED.
LEMMA RunsTo ==
    ASSUME NEW irq \in Nat, irqds \in Seq(Handler)
    PROVE  /\ Called(irq) \in SUBSET (1 .. Len(irqds)) /\ \A i \in Called(irq) : irqds[i].irq = irq
           /\ \A i, j \in 1 .. Len(irqds) :
                 i < j /\ irqds[i].irq = irq /\ irqds[i].node \in HandledBy => j \notin Called(irq)
<1> DEFINE mine == {i \in 1 .. Len(irqds) : irqds[i].irq = irq}
           stop == {i \in mine : irqds[i].node \in HandledBy}
<1>1. Called(irq) = {i \in mine : stop = {} \/ i <= Lowest(stop)}
  BY DEF Called
<1>2. stop \subseteq Nat
  OBVIOUS
<1>3. ASSUME NEW i \in 1 .. Len(irqds), NEW j \in 1 .. Len(irqds), i < j, irqds[i].irq = irq, irqds[i].node \in HandledBy
      PROVE  j \notin Called(irq)
  <2>1. i \in stop
    BY <1>3
  <2> HIDE DEF stop
  <2>2. \E k \in stop : \A g \in stop : k <= g
    BY <1>2, <2>1, LeastNatural
  <2>3. Lowest(stop) \in stop /\ Lowest(stop) <= i
    BY <2>1, <2>2 DEF Lowest
  <2>4. ~(j <= Lowest(stop))
    <3>1. PICK l \in Nat : l = Lowest(stop)
      BY <1>2, <2>3
    <3>2. l <= i /\ i \in Nat /\ j \in Nat
      BY <2>3, <3>1
    <3> HIDE DEF stop
    <3>3. ~(j <= l)
      BY <1>3, <3>2
    <3> QED
      BY <3>1, <3>3
  <2> QED
    BY <1>1, <2>1, <2>4
<1> QED
  BY <1>1, <1>3

\* irq_handler.
LEMMA HandlerRuns == ASSUME DevInv, irq_handler PROVE DevInv'
<1>1. UNCHANGED <<tree, at, pdev, ports, stdio, chips, irq_end, irqds, raised, nomem>> /\ Claiming # {}
  BY DEF irq_handler, busVars
<1>2. DevTypes /\ tree \in Trees /\ IrqCount \in Nat /\ Len(chips) \in Nat /\ irqds \in Seq(Handler) /\ Len(irqds) \in Nat
  BY ChipTypes, HandlerTypes DEF DevInv, DevTypes
<1>3. PICK k \in 1 .. Len(chips) : k = Lowest(Claiming) /\ Claimable(chips[k].node) # {}
  <2>1. Claiming \subseteq Nat
    BY <1>2 DEF Claiming
  <2>2. \E i \in Claiming : \A j \in Claiming : i <= j
    BY <1>1, <2>1, LeastNatural
  <2>3. Lowest(Claiming) \in Claiming
    BY <2>2 DEF Lowest
  <2> QED
    BY <2>3 DEF Claiming
<1>4. PICK m \in Nodes : m = chips[k].node
  BY <1>2, ChipTypes
<1> DEFINE R == [en : SUBSET Lines, pend : SUBSET Lines, act : SUBSET Lines]
<1>5. plic \in [Nodes -> R] /\ plic[m] \in R
  BY <1>2 DEF DevTypes
<1>6. PICK h \in Lines : h = Lowest(Claimable(m)) /\ h \in plic[m].pend
  <2>1. Claimable(m) \subseteq Lines /\ Claimable(m) # {} /\ Claimable(m) \subseteq plic[m].pend
    BY <1>3, <1>4, <1>5 DEF Claimable
  <2>2. Lines \subseteq Nat
    BY <1>2, ChipTypes
  <2>3. \E i \in Claimable(m) : \A j \in Claimable(m) : i <= j
    BY <2>1, <2>2, LeastNatural
  <2>4. Lowest(Claimable(m)) \in Claimable(m)
    BY <2>3 DEF Lowest
  <2> QED
    BY <2>1, <2>4
<1>7. PICK irq \in Nat : irq = irq_get(chips[k], h)
  BY <1>2, FindsBack
<1>8. PICK ran \in SUBSET (1 .. Len(irqds)) : ran = Called(irq)
  BY <1>2, RunsTo
<1>9. \A i \in ran : irqds[i].irq = irq
  BY <1>2, <1>8, RunsTo
<1>10. /\ plic' = [plic EXCEPT ![m].pend = @ \ {h}, ![m].act = IF Eoi(ran) THEN @ \ {h} ELSE @ \cup {h}]
       /\ calls' = [n \in Nodes |-> calls[n] + Cardinality({i \in ran : irqds[i].node = n})]
  BY <1>3, <1>4, <1>6, <1>7, <1>8 DEF irq_handler
<1> DEFINE A == IF Eoi(ran) THEN plic[m].act \ {h} ELSE plic[m].act \cup {h}
           p == [plic[m] EXCEPT !.pend = plic[m].pend \ {h}, !.act = A]
<1>11. p \in R /\ p.pend = plic[m].pend \ {h} /\ p.act = A
  <2>1. A \in SUBSET Lines /\ plic[m].pend \ {h} \in SUBSET Lines
    BY <1>5
  <2> HIDE DEF A
  <2> QED
    BY <1>5, <2>1
<1>12. plic' = [plic EXCEPT ![m] = p]
  BY <1>10
<1> HIDE DEF R, p
<1>13. plic' \in [Nodes -> R] /\ plic'[m] = p /\ \A x \in Nodes : x # m => plic'[x] = plic[x]
  BY <1>5, <1>11, <1>12
<1>14. ASSUME NEW n \in Nodes
       PROVE  /\ calls[n] \in Nat /\ calls'[n] \in Nat /\ calls'[n] >= calls[n]
              /\ calls'[n] > calls[n] => \E i \in ran : irqds[i].node = n
              /\ calls'[n] = calls[n] => \A i \in ran : irqds[i].node # n
  <2> DEFINE S == {i \in ran : irqds[i].node = n}
  <2>1. S \in SUBSET (1 .. Len(irqds))
    OBVIOUS
  <2>2. calls[n] \in Nat /\ calls'[n] = calls[n] + Cardinality(S)
    BY <1>2, <1>10 DEF DevTypes
  <2>3. S # {} <=> \E i \in ran : irqds[i].node = n
    OBVIOUS
  <2> HIDE DEF S
  <2>4. Cardinality(S) \in Nat /\ (Cardinality(S) > 0 <=> S # {})
    BY <1>2, <2>1, Counted
  <2> QED
    BY <2>2, <2>3, <2>4
<1>15. calls' \in [Nodes -> Nat]
  <2>1. calls' = [n \in Nodes |-> calls'[n]]
    BY <1>10
  <2> QED
    BY <1>14, <2>1
\* Who ran has the line that was claimed.
<1>16. ASSUME NEW i \in ran
       PROVE  \E n \in Nodes : n = irqds[i].node /\ Done(n) /\ Wire(n) = <<m, h>> /\ calls'[n] > 0
  <2>1. PICK n \in Nodes : n = irqds[i].node /\ Done(n) /\ Routed(irqds[i])
    BY HandlerTypes
  <2>2. PICK q \in 1 .. Len(chips) : chips[q].node = Wire(n)[1] /\ irqds[i].irq = irq_get(chips[q], Wire(n)[2])
    BY <2>1 DEF Routed
  <2>3. Wire(n) # NoIrq
    BY <2>1 DEF Routed
  <2>4. Wire(n) = <<Wire(n)[1], Wire(n)[2]>> /\ Wire(n)[2] \in Lines
    BY <1>2, <2>3, TreeTypes
  <2>5. irq_get(chips[q], Wire(n)[2]) = irq_get(chips[k], h)
    BY <1>7, <1>9, <2>2
  <2>6. q = k /\ Wire(n)[2] = h
    BY <1>2, <2>4, <2>5, NumbersApart
  <2>7. calls'[n] > 0
    <3>1. calls[n] \in Nat /\ calls'[n] \in Nat /\ calls'[n] >= calls[n] /\ calls'[n] # calls[n]
      BY <1>14, <2>1
    <3> QED
      BY <3>1
  <2> QED
    BY <1>4, <2>1, <2>2, <2>4, <2>6, <2>7
<1>17. UNCHANGED <<Nodes, Chip, Handler>>
  BY <1>1 DEF Nodes, Chip, Handler
<1>18. DevTypes'
  <2>1. /\ tree' \in Trees /\ at' \in [node : 0 .. Len(tree'), drv : 0 .. Len(Drivers) + 1] /\ (at'.drv > 0 => at'.node > 0)
        /\ pdev' \in [Nodes' -> [status : {"none", "new", "ok", "error"}, drv : Nat]] /\ ports' \in Seq(Nodes')
        /\ chips' \in Seq(Chip') /\ irq_end' = IrqCount * Len(chips')
        /\ \A i \in 1 .. Len(chips') : chips'[i].irq_start = IrqCount * (i - 1)
        /\ irqds' \in Seq(Handler') /\ raised' \in [Nodes' -> Nat] /\ nomem' \in Nat
    BY <1>1, <1>2, <1>17 DEF DevTypes
  <2>2. plic' \in [Nodes' -> [en : SUBSET Lines', pend : SUBSET Lines', act : SUBSET Lines']] /\ calls' \in [Nodes' -> Nat]
    BY <1>13, <1>15, <1>17 DEF R, Lines
  <2> QED
    BY <2>1, <2>2 DEF DevTypes
\* A handler has run for n, now or before.
<1>19. ASSUME NEW n \in Nodes, calls'[n] > 0
       PROVE  calls[n] > 0 \/ (Done(n) /\ Wire(n) = <<m, h>>)
  <2>1. CASE calls'[n] > calls[n]
    <3>1. PICK i \in ran : irqds[i].node = n
      BY <1>14, <2>1
    <3> QED
      BY <1>16, <3>1
  <2>2. CASE ~(calls'[n] > calls[n])
    <3>1. calls[n] \in Nat /\ calls'[n] \in Nat /\ calls'[n] >= calls[n]
      BY <1>14
    <3> QED
      BY <1>19, <2>2, <3>1
  <2> QED
    BY <2>1, <2>2
<1>20. OnlyDone'
  <2>1. \A n \in Nodes : calls'[n] > 0 => Done(n)
    BY <1>19 DEF DevInv, OnlyDone
  <2> QED
    BY <1>1, <1>17, <2>1 DEF DevInv, OnlyDone, Done
<1>21. CallsWereRaised'
  <2> SUFFICES ASSUME NEW x \in Nodes, calls'[x] > 0
               PROVE  \E y \in Nodes : Wire(y)' = Wire(x)' /\ Wire(x)' # NoIrq /\ raised'[y] > 0
    BY <1>17 DEF CallsWereRaised, NoIrq
  <2>1. CASE calls[x] > 0
    <3>1. PICK y \in Nodes : Wire(y) = Wire(x) /\ Wire(x) # NoIrq /\ raised[y] > 0
      BY <2>1 DEF DevInv, CallsWereRaised
    <3> QED
      BY <3>1, <1>1 DEF Wire
  <2>2. CASE Wire(x) = <<m, h>>
    <3>1. PICK y \in Nodes : Wire(y) = <<m, h>> /\ raised[y] > 0
      BY <1>6 DEF DevInv, PendRaised
    <3>2. <<m, h>> # NoIrq
      BY DEF NoIrq
    <3> QED
      BY <2>2, <3>1, <3>2, <1>1 DEF Wire
  <2> QED
    BY <1>19, <2>1, <2>2
<1>22. PendRaised'
  <2> SUFFICES ASSUME NEW x \in Nodes, NEW g \in plic'[x].pend
               PROVE  \E y \in Nodes : Wire(y)' = <<x, g>> /\ raised'[y] > 0
    BY <1>17 DEF PendRaised
  <2>1. g \in plic[x].pend
    BY <1>11, <1>13
  <2>2. PICK y \in Nodes : Wire(y) = <<x, g>> /\ raised[y] > 0
    BY <2>1 DEF DevInv, PendRaised
  <2> QED
    BY <2>2, <1>1 DEF Wire
<1>23. StuckIfHandled'
  <2> SUFFICES ASSUME NEW x \in Nodes, NEW g \in plic'[x].act
               PROVE  \E y \in HandledBy \cap Nodes : Wire(y)' = <<x, g>> /\ calls'[y] > 0
    BY <1>17 DEF StuckIfHandled
  <2>1. CASE g \in plic[x].act
    <3>1. PICK y \in HandledBy \cap Nodes : Wire(y) = <<x, g>> /\ calls[y] > 0
      BY <2>1 DEF DevInv, StuckIfHandled
    <3>2. calls'[y] > 0
      <4>1. calls[y] \in Nat /\ calls'[y] \in Nat /\ calls'[y] >= calls[y]
        BY <1>14, <3>1
      <4> QED
        BY <3>1, <4>1
    <3> QED
      BY <3>1, <3>2, <1>1 DEF Wire
  <2>2. CASE g \notin plic[x].act
    <3>1. x = m /\ g = h /\ ~Eoi(ran)
      BY <2>2, <1>11, <1>13
    <3>2. PICK i \in ran : irqds[i].node \in HandledBy
      BY <3>1 DEF Eoi
    <3>3. PICK n \in Nodes : n = irqds[i].node /\ Wire(n) = <<m, h>> /\ calls'[n] > 0
      BY <1>16
    <3> QED
      BY <3>1, <3>2, <3>3, <1>1 DEF Wire
  <2> QED
    BY <2>1, <2>2
<1>24. OneTakes'
  <2> SUFFICES ASSUME NEW i \in 1 .. Len(irqds), NEW j \in 1 .. Len(irqds), i < j,
                      irqds[i].irq = irqds[j].irq, irqds[i].node \in HandledBy
               PROVE  calls'[irqds[j].node] = 0
    BY <1>1 DEF OneTakes
  <2>1. PICK n \in Nodes : n = irqds[j].node
    BY HandlerTypes
  <2>2. calls[n] = 0
    BY <2>1 DEF DevInv, OneTakes
  <2>3. \A x \in ran : irqds[x].node # n
    <3> SUFFICES ASSUME NEW x \in ran, irqds[x].node = n PROVE FALSE
      OBVIOUS
    <3>1. x = j
      BY <2>1 DEF DevInv, NodesOnce
    <3>2. irqds[i].irq = irq
      BY <1>9, <3>1
    <3> QED
      BY <1>2, <1>8, <3>1, <3>2, RunsTo
  <2>4. calls'[n] = 0
    <3>1. calls[n] \in Nat /\ calls'[n] \in Nat /\ calls'[n] >= calls[n] /\ ~(calls'[n] > calls[n])
      BY <1>14, <2>3
    <3> QED
      BY <2>2, <3>1
  <2> QED
    BY <2>1, <2>4
<1>25. NodesOnce' /\ ChipsAlive' /\ PortsOnce'
  <2>1. NodesOnce' /\ ChipsAlive'
    BY <1>1 DEF DevInv, NodesOnce, ChipsAlive
  <2>2. PortsOnce'
    BY <1>1 DEF DevInv, PortsOnce
  <2> QED
    BY <2>1, <2>2
<1>26. (\A i \in 1 .. Len(irqds) : Routed(irqds[i]))'
  BY <1>1 DEF DevInv, Routed, Wire, irq_get
<1> QED
  BY <1>18, <1>20, <1>21, <1>22, <1>23, <1>24, <1>25, <1>26 DEF DevInv

\* Every step keeps the invariant.
LEMMA DevSteps == ASSUME DevInv, [DevNext]_devVars PROVE DevInv'
<1>1. CASE platform_probe
  BY <1>1, ProbeSteps
<1>2. CASE irq_handler
  BY <1>2, HandlerRuns
<1>3. ASSUME NEW n \in Nodes, Raise(n) \/ irq_free(n) PROVE DevInv'
  BY <1>3, RaiseSteps, FreeSteps
<1>4. ASSUME NEW irq \in 0 .. irq_end - 1, irq_enable(irq) \/ irq_disable(irq) PROVE DevInv'
  <2>1. irq \in Nat
    <3>1. irq_end \in Int
      BY ChipTypes DEF DevInv, DevTypes
    <3> QED
      BY <3>1
  <2> QED
    BY <1>4, <2>1, SwitchSteps
<1>5. CASE UNCHANGED devVars
  <2>1. UNCHANGED <<tree, at, pdev, ports, stdio, chips, irq_end, irqds, plic, calls, raised, nomem>>
    BY <1>5 DEF devVars
  <2>2. Walks
    BY <2>1, Still
  <2> QED
    BY <2>1, <2>2, QuietStep
<1> QED
  BY <1>1, <1>2, <1>3, <1>4, <1>5 DEF DevNext

\* The invariant says what the run checks.
LEMMA DevInvSays == DevInv => ProbingSound
<1> SUFFICES ASSUME DevInv PROVE ProbingSound
  OBVIOUS
<1>1. DevTypes
  BY DEF DevInv
<1>2. DevTypeOK
  <2>1. at.node \in 0 .. Len(tree) /\ at.drv \in 0 .. Len(Drivers) + 1 /\ irq_end = IrqCount * Len(chips)
    BY <1>1 DEF DevTypes
  <2>2. \A n \in Nodes : pdev[n].status \in {"none", "new", "ok", "error"}
    BY <1>1 DEF DevTypes
  <2>3. \A n \in Nodes : plic[n].act \subseteq hwirq_start .. IrqCount /\ plic[n].en \subseteq hwirq_start .. IrqCount
    <3>1. Lines = hwirq_start .. IrqCount
      BY <1>1, ChipTypes DEF hwirq_start
    <3>2. \A n \in Nodes : plic[n] \in [en : SUBSET Lines, pend : SUBSET Lines, act : SUBSET Lines]
      BY <1>1 DEF DevTypes
    <3>3. \A n \in Nodes : plic[n].act \subseteq Lines /\ plic[n].en \subseteq Lines
      BY <3>2
    <3> QED
      BY <3>1, <3>3
  <2> QED
    BY <2>1, <2>2, <2>3 DEF DevTypeOK
<1>3. RoutesBack
  BY <1>1, FindsBack DEF RoutesBack
<1>4. EarlierController
  <2> SUFFICES ASSUME NEW i \in 1 .. Len(irqds)
               PROVE  Wire(irqds[i].node)[1] < irqds[i].node /\ pdev[Wire(irqds[i].node)[1]].status = "ok"
    BY DEF EarlierController
  <2>1. Routed(irqds[i])
    BY DEF DevInv
  <2> QED
    BY <2>1 DEF Routed, DevInv, ChipsAlive
<1> QED
  BY <1>2, <1>3, <1>4 DEF DevInv, ProbingSound

\* For every device tree, every order of the drivers, interrupts that come in at
\* any point of the walk and allocations that fail: numbers lead back to the line
\* they were given for, a handler runs only for the line of its device and never
\* behind one that returned IRQ_HANDLED, a line stays in service only after such
\* a handler, and chips, handlers and ports belong to devices that were probed
\* (platform_probe, irq_register_chip, irq_request, irq_handler).
THEOREM ProbingStaysSound == DevSpec => []ProbingSound
<1>1. DevInit => DevInv
  BY DevStart
<1>2. DevInv /\ [DevNext]_devVars => DevInv'
  BY DevSteps
<1>3. DevInv => ProbingSound
  BY DevInvSays
<1> QED
  BY <1>1, <1>2, <1>3, PTL DEF DevSpec

-----------------------------------------------------------------------------
(* The parts together.                                                     *)

\* A step of a board is a step of one part, and no other part moves.
LEMMA PartsStep ==
    [Next]_vars => [DevNext]_devVars /\ [BdNext]_bdVars /\ [TpNext]_tpVars /\ [EfNext]_efVars
  BY DEF Next, vars, DevDoes, BdDoes, FlowDoes, TpDoes, EfDoes

\* Every behaviour of a board is one of its device walk and of its list of boot
\* devices.
LEMMA PartsBehave == Spec => DevSpec /\ BdSpec
<1>1. Init => DevInit /\ BdInit
  BY DEF Init
<1> QED
  BY <1>1, PartsStep, PTL DEF Spec, DevSpec, BdSpec

\* On every board with every tree, devices are probed once and interrupts reach
\* the handler that was asked for, and cores have devices and memory of their
\* own (platform_probe, irq_handler, modify_tpu_dtb).
THEOREM DevicesStaySound == Spec => []DevicesSound
<1>1. Init => CoresInv
  BY CoresStart DEF Init
<1>2. CoresInv /\ [Next]_vars => CoresInv'
  BY PartsStep, CoresStep
<1>3. CoresInv => CoresApart
  BY CoresShareNothing
<1>4. Spec => []CoresApart
  BY <1>1, <1>2, <1>3, PTL DEF Spec
<1>5. Spec => []ProbingSound
  BY PartsBehave, ProbingStaysSound, PTL
<1> QED
  BY <1>4, <1>5, PTL DEF DevicesSound

\* The whole board: with its devices, the devices files come from and the fuses
\* stay sound, and what is loaded comes from the best device (bdm_load,
\* efuse_write).
THEOREM BoardsStaySound == Spec => [](DevicesSound /\ BootDevicesSound /\ EfuseExact) /\ BestDevice
<1>1. Init => EfInv
  BY EfStart DEF Init
<1>2. EfInv /\ [Next]_vars => EfInv'
  BY PartsStep, EfStep
<1>3. EfInv => EfuseExact
  BY DEF EfInv, EfTypes, EfuseExact, EfTypeOK, FuseStates
<1>4. Spec => []EfuseExact
  BY <1>1, <1>2, <1>3, PTL DEF Spec
<1>5. Spec => []BootDevicesSound /\ BestDevice
  BY PartsBehave, BootDevicesStaySound, FilesFromBest, PTL
<1> QED
  BY <1>4, <1>5, DevicesStaySound, PTL
=============================================================================
