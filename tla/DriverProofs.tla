---------------------------- MODULE DriverProofs ----------------------------
(***************************************************************************)
(* Proofs about three drivers and their devices, the SPI flash (Flash),    *)
(* the virtio disk (Virtio) and the SD card (SdMmc), about the download    *)
(* over the serial line (XModem), and about what the drivers keep when     *)
(* they are composed (MCIo).                                               *)
(***************************************************************************)
EXTENDS MCIo, SequenceTheorems, TLAPS

\* What \div and % are.
LEMMA DivMod ==
    ASSUME NEW x \in Nat, NEW d \in Nat \ {0}
    PROVE  /\ x \div d \in Nat /\ x % d \in 0 .. d - 1
           /\ x = d * (x \div d) + (x % d)
OBVIOUS

\* Products are ordered as their factors.
LEMMA Steps ==
    ASSUME NEW d \in Nat \ {0}, NEW p \in Nat, NEW q \in Nat
    PROVE  /\ p < q => d * p + d <= d * q
           /\ d * p < d * q => p < q
           /\ d * p \in Nat /\ d * q \in Nat
<1>1. ASSUME p < q PROVE d * p + d <= d * q
  <2>1. PICK k \in Nat : q = p + 1 + k
    <3>1. q - p - 1 \in Nat /\ q = p + 1 + (q - p - 1)
      BY <1>1
    <3> QED
      BY <3>1
  <2>2. d * (p + 1 + k) = d * p + d + d * k /\ d * k >= 0
    BY <2>1
  <2> QED
    BY <2>1, <2>2
<1>2. ASSUME d * p < d * q PROVE p < q
  <2>1. CASE q < p
    <3>1. PICK k \in Nat : p = q + k
      <4>1. p - q \in Nat /\ p = q + (p - q)
        BY <2>1
      <4> QED
        BY <4>1
    <3>2. d * (q + k) = d * q + d * k /\ d * k >= 0 /\ d * q \in Nat /\ d * p \in Nat /\ d * k \in Nat
      OBVIOUS
    <3> QED
      BY <1>2, <3>1, <3>2
  <2>2. CASE q = p
    BY <1>2, <2>2
  <2> QED
    BY <2>1, <2>2
<1> QED
  BY <1>1, <1>2

\* A quotient is known from its remainder.
LEMMA Quotient ==
    ASSUME NEW d \in Nat \ {0}, NEW q \in Nat, NEW r \in 0 .. d - 1
    PROVE  (d * q + r) \div d = q /\ (d * q + r) % d = r
<1> DEFINE x == d * q + r
           D == x \div d
           R == x % d
<1>0. d * q \in Nat /\ x \in Nat
  OBVIOUS
<1>1. D \in Nat /\ R \in 0 .. d - 1 /\ x = d * D + R
  BY <1>0, DivMod
<1>2. d * D \in Nat /\ d * D < d * q + d /\ d * q < d * D + d
  BY <1>0, <1>1
<1>3. ~ (q < D)
  BY <1>0, <1>1, <1>2, Steps
<1>4. ~ (D < q)
  BY <1>0, <1>1, <1>2, Steps
<1>5. D = q
  BY <1>1, <1>3, <1>4
<1>6. R = r
  BY <1>0, <1>1, <1>5
<1> QED
  BY <1>5, <1>6

\* A multiple.
LEMMA Multiple ==
    ASSUME NEW d \in Nat \ {0}, NEW x \in Nat, x % d = 0
    PROVE  \E q \in Nat : x = d * q
<1>1. x \div d \in Nat /\ x = d * (x \div d) + (x % d)
  BY DivMod
<1>2. d * (x \div d) \in Nat
  BY <1>1
<1>3. x = d * (x \div d)
  BY <1>1, <1>2
<1> QED
  BY <1>1, <1>3

\* A product is a multiple of its factor.
LEMMA MultipleIs ==
    ASSUME NEW d \in Nat \ {0}, NEW q \in Nat
    PROVE  (d * q) % d = 0 /\ d * q \in Nat
<1>1. d * q \in Nat /\ d * q = d * q + 0 /\ 0 \in 0 .. d - 1
  OBVIOUS
<1> QED
  BY <1>1, Quotient

\* A multiple of a multiple.
LEMMA MultipleOfMultiple ==
    ASSUME NEW d \in Nat \ {0}, NEW e \in Nat \ {0}, NEW x \in Nat, x % e = 0, e % d = 0
    PROVE  x % d = 0
<1>1. PICK q \in Nat : x = e * q
  BY Multiple
<1>2. PICK k \in Nat : e = d * k
  BY Multiple
<1>3. k * q \in Nat /\ x = d * (k * q)
  BY <1>1, <1>2
<1> QED
  BY <1>3, MultipleIs

\* Multiples are closed under sum and difference, and apart by one.
LEMMA Multiples ==
    ASSUME NEW d \in Nat \ {0}, NEW x \in Nat, NEW y \in Nat, x % d = 0, y % d = 0
    PROVE  /\ (x + y) % d = 0
           /\ x < y => x + d <= y
           /\ x <= y => (y - x) % d = 0
<1>1. PICK p \in Nat : x = d * p
  BY Multiple
<1>2. PICK q \in Nat : y = d * q
  BY Multiple
<1>3. p + q \in Nat /\ x + y = d * (p + q)
  BY <1>1, <1>2
<1>4. x < y => x + d <= y
  BY <1>1, <1>2, Steps
<1>5. ASSUME x <= y PROVE (y - x) % d = 0
  <2>1. ~ (q < p)
    <3>1. q < p => d * q + d <= d * p
      BY Steps
    <3> QED
      BY <3>1, <1>1, <1>2, <1>5
  <2>2. q - p \in Nat /\ y - x = d * (q - p)
    BY <2>1, <1>1, <1>2
  <2> QED
    BY <2>2, MultipleIs
<1> QED
  BY <1>3, <1>4, <1>5, MultipleIs

\* The words of a transfer hold its bytes, and less than a word more.
LEMMA Rounded ==
    ASSUME NEW n \in Nat
    PROVE  /\ Word * WordsOf(n) \in Nat
           /\ n <= Word * WordsOf(n) /\ Word * WordsOf(n) < n + Word
           /\ n % Word = 0 => Word * WordsOf(n) = n
<1>0. Word \in Nat \ {0}
  BY FlashAssumption
<1> DEFINE m == n + Word - 1
           D == m \div Word
<1>1. m \in Nat
  BY <1>0
<1>2. D \in Nat /\ m % Word \in 0 .. Word - 1 /\ m = Word * D + (m % Word)
  BY <1>0, <1>1, DivMod
<1>3. Word * D \in Nat /\ (Word * D) % Word = 0
  BY <1>0, <1>2, MultipleIs
<1>4. n <= Word * D /\ Word * D < n + Word
  BY <1>0, <1>2, <1>3
<1>5. ASSUME n % Word = 0 PROVE Word * D = n
  <2>1. n < Word * D => n + Word <= Word * D
    BY <1>0, <1>3, <1>5, Multiples
  <2> QED
    BY <2>1, <1>0, <1>3, <1>4
<1>6. WordsOf(n) = D
  BY DEF WordsOf, CeilDiv
<1> QED
  BY <1>3, <1>4, <1>5, <1>6

\* What a sequence is once a row of bytes is put behind it.
LEMMA Appended ==
    ASSUME NEW d \in Seq(Int), NEW m \in Nat, NEW f \in [1 .. m -> Int]
    PROVE  /\ d \o f \in Seq(Int) /\ Len(d \o f) = Len(d) + m
           /\ \A k \in 1 .. Len(d) : (d \o f)[k] = d[k]
           /\ \A k \in 1 .. m : (d \o f)[Len(d) + k] = f[k]
<1>1. f \in Seq(Int) /\ Len(f) = m
  OBVIOUS
<1>2. /\ d \o f \in Seq(Int) /\ Len(d \o f) = Len(d) + Len(f) /\ Len(d) \in Nat
      /\ \A j \in 1 .. Len(d) + Len(f) : (d \o f)[j] = IF j <= Len(d) THEN d[j] ELSE f[j - Len(d)]
  BY <1>1, ConcatProperties, LenProperties
<1>3. ASSUME NEW k \in 1 .. Len(d) PROVE (d \o f)[k] = d[k]
  <2>1. k \in 1 .. Len(d) + Len(f) /\ k <= Len(d)
    BY <1>1, <1>2
  <2> QED
    BY <2>1, <1>2
<1>4. ASSUME NEW k \in 1 .. m PROVE (d \o f)[Len(d) + k] = f[k]
  <2>1. Len(d) + k \in 1 .. Len(d) + Len(f) /\ ~ (Len(d) + k <= Len(d)) /\ Len(d) + k - Len(d) = k
    BY <1>1, <1>2
  <2> QED
    BY <2>1, <1>2
<1> QED
  BY <1>1, <1>2, <1>3, <1>4

-----------------------------------------------------------------------------
(* The flash.                                                              *)

Ops == {"idle", "read", "program", "done", "cfi"}
Places == {"none", "frame", "in", "end", "erase", "page", "wip"}
Jobs == [op : Ops, at : Places, addr : Nat, size : Nat, off : Nat, n : Nat, got : Nat, i : Nat,
         src : Seq(Nat), blind : BOOLEAN, ret : Int]

FlType ==
    /\ cells \in [Bytes -> Int] /\ chip \in [busy : BOOLEAN] /\ dst \in Seq(Int) /\ slow \in 0 .. MaxSlow
    /\ fifo \in [from : Nat, left : Nat, here : Nat]
    /\ job \in Jobs

\* The FIFO load the driver waits for is the next one of its transfer.
InTransfer ==
    /\ job.at # "in" => fifo.left = 0 /\ fifo.here = 0
    /\ job.at = "in" =>
         /\ job.got < job.n /\ job.n <= Tran /\ job.got % Fifo = 0
         /\ fifo.from = job.addr + job.off + job.got
         /\ fifo.left = job.n - job.got
         /\ fifo.here \in {0, XferSize}

\* The bytes a read has delivered.
Delivered == job.off + (IF job.at = "in" THEN job.got ELSE IF job.at = "end" THEN job.n ELSE 0)

Copied(n) == \A k \in 1 .. n : dst[k] = Content(job.addr + k - 1)

\* Only the last load of a read may write more than it was asked for.
InRead ==
    job.op = "read" =>
      /\ job.src = <<>> /\ ~ chip.busy /\ job.at \in {"frame", "in", "end"} /\ job.off <= job.size
      /\ job.at \in {"in", "end"} => job.off < job.size /\ job.n = Least(Tran, job.size - job.off)
      /\ Delivered < job.size => Len(dst) = Delivered
      /\ Delivered = job.size => Len(dst) >= job.size /\ Len(dst) < job.size + Word
      /\ Copied(Delivered)

\* What was read at a: garbage, or what the flash holds.
Fetched(v, a) == v = Spoilt \/ (a \in Bytes /\ v = cells[a])

\* The first n bytes of the buffer come from the page.
Compared(n) ==
    /\ Len(dst) >= n
    /\ \A k \in 1 .. n : Fetched(dst[k], job.addr + job.off + k - 1)

\* The bytes programmed and compared.
Holds(n) == \A k \in 0 .. n - 1 : job.addr + k \in Bytes /\ cells[job.addr + k] = SrcByte(job.src, k)

InProgram ==
    job.op = "program" =>
      /\ job.src # <<>> /\ 0 < job.size /\ job.size <= SrcLen(job.src) /\ job.size <= Low
      /\ job.addr % Sector = 0 /\ job.off % Page = 0 /\ job.off <= job.size
      /\ job.at \in {"erase", "wip", "in", "end", "page"}
      /\ job.at = "erase" => job.off = 0
      /\ job.at = "wip" => job.off < job.size /\ (job.i < erased_sectors(job.size) => job.off = 0)
      /\ job.at \in {"in", "end"} => job.off < job.size /\ job.n = PageSize
      /\ job.blind \/ Holds(job.off)
      /\ job.at = "in" => job.got = 0 \/ (Len(dst) = job.got /\ Compared(job.got))
      /\ job.at = "end" => job.blind \/ Compared(job.n)

AtRest ==
    /\ job.op \in {"idle", "done", "cfi"} => job.at = "none"
    /\ job.op = "idle" => job = Idle /\ dst = <<>>
    /\ job.op \in {"idle", "cfi"} \/ (job.op = "done" /\ job.src = <<>>) => ~ chip.busy
    /\ job.op = "cfi" => /\ job.src = <<>> /\ Len(dst) < job.size + Word
                         /\ job.ret >= 0 => job.addr + job.ret <= Total /\ (job.ret = job.size \/ job.addr + job.ret = Total)
    /\ job.op = "done" /\ job.src = <<>>
         => /\ Len(dst) < job.size + Word
            /\ job.ret >= 0 => job.ret = job.size /\ Len(dst) >= job.size /\ Copied(job.size)
    /\ job.op = "done" /\ job.src # <<>> /\ job.ret = 0 => job.blind \/ Holds(job.size)

FlInv == FlType /\ InTransfer /\ InRead /\ InProgram /\ AtRest

\* The sizes.
LEMMA Sizes ==
    /\ Word \in Nat \ {0} /\ Fifo \in Nat \ {0} /\ Tran \in Nat \ {0} /\ Page \in Nat \ {0} /\ Sector \in Nat \ {0}
    /\ Low \in Nat \ {0} /\ U8 \in Nat \ {0} /\ Total \in Nat \ {0} /\ MaxSlow \in Nat
    /\ Fifo % Word = 0 /\ Tran % Fifo = 0 /\ Page % Fifo = 0 /\ Page <= Tran /\ Sector % Page = 0 /\ Low % Sector = 0
BY FlashAssumption

\* Four address bytes above Low, three below: the address itself.
LEMMA AddressItself == ASSUME NEW a \in Nat PROVE spi_data_read(a) = a
<1>1. a < Low => a % Low = a
  <2>1. Low \in Nat \ {0}
    BY Sizes
  <2>2. a < Low => Low * 0 + a = a /\ a \in 0 .. Low - 1
    BY <2>1
  <2> QED
    BY <2>1, <2>2, Quotient
<1> QED
  BY <1>1, Sizes DEF spi_data_read

\* The flash starts in the invariant.
LEMMA FlashStarts == FlashInit => FlInv
<1> SUFFICES ASSUME FlashInit PROVE FlInv
  OBVIOUS
<1>1. job = Idle /\ dst = <<>> /\ fifo = Quiet /\ chip = [busy |-> FALSE] /\ slow = 0
  BY DEF FlashInit
<1>2. cells \in [Bytes -> Int]
  <2>1. \A a \in Bytes : Original(a) \in Int
    BY Sizes DEF Bytes, Original
  <2> QED
    BY <2>1 DEF FlashInit
<1>3. Idle \in Jobs /\ Idle.op = "idle" /\ Idle.at = "none" /\ Idle.src = <<>>
  BY DEF Idle, Jobs, Ops, Places
<1>4. FlType
  BY <1>1, <1>2, <1>3, Sizes DEF FlType, Quiet
<1>5. InTransfer /\ InRead /\ InProgram
  BY <1>1, <1>3 DEF InTransfer, InRead, InProgram, Quiet
<1>6. AtRest
  BY <1>1, <1>3 DEF AtRest
<1> QED
  BY <1>4, <1>5, <1>6 DEF FlInv

\* The driver without a job.
LEMMA IdleIsJob == Idle \in Jobs
BY DEF Idle, Jobs, Ops, Places

\* A read of bm_spi_flash_read begins: nothing has been delivered.
LEMMA ReadBegins ==
    ASSUME FlInv, NEW o \in Nat, NEW n \in Nat, ReadRequest(o, n) PROVE FlInv'
<1>1. job.op = "idle" /\ dst' = <<>> /\ UNCHANGED <<cells, chip, fifo, slow>>
  BY DEF ReadRequest
<1>2. job' = [Idle EXCEPT !.op = "read", !.at = "frame", !.addr = o, !.size = n]
  BY DEF ReadRequest
<1>3. job' \in Jobs
  BY <1>2, IdleIsJob DEF Jobs, Ops, Places
<1>4. job'.op = "read" /\ job'.at = "frame" /\ job'.addr = o /\ job'.size = n /\ job'.off = 0 /\ job'.src = <<>>
  BY <1>2 DEF Idle
<1>5. ~ chip.busy /\ job.at = "none"
  BY <1>1 DEF FlInv, AtRest
<1>6. FlType'
  BY <1>1, <1>3 DEF FlInv, FlType
<1>7. InTransfer'
  BY <1>1, <1>4, <1>5 DEF FlInv, InTransfer
<1>8. InRead'
  <2>1. Delivered' = 0
    BY <1>4 DEF Delivered
  <2>2. Copied(Delivered)'
    BY <2>1 DEF Copied
  <2>3. Len(dst') = 0
    BY <1>1
  <2> QED
    BY <2>1, <2>2, <2>3, <1>1, <1>4, <1>5, Sizes DEF InRead
<1> QED
  BY <1>4, <1>6, <1>7, <1>8 DEF FlInv, InProgram, AtRest

\* cfi_flash_read ends at the end of the flash.
LEMMA CfiReads ==
    ASSUME FlInv, NEW o \in Nat, NEW n \in Nat, CfiRead(o, n) PROVE FlInv'
<1> DEFINE r == cfi_flash_read(o, n)
<1>1. job.op = "idle" /\ UNCHANGED <<cells, chip, fifo, slow>>
  BY DEF CfiRead
<1>2. job' = [Idle EXCEPT !.op = "cfi", !.addr = o, !.size = n, !.ret = r]
  BY DEF CfiRead
<1>3. dst' = IF r < 0 THEN <<>> ELSE [k \in 1 .. r |-> Content(o + k - 1)]
  BY DEF CfiRead
<1>4. r \in Int /\ (r >= 0 => r <= n /\ o + r <= Total /\ (r = n \/ o + r = Total))
  BY Sizes DEF cfi_flash_read
<1> HIDE DEF r
<1>5. job' \in Jobs
  BY <1>2, <1>4, IdleIsJob DEF Jobs, Ops, Places
<1>6. job'.op = "cfi" /\ job'.at = "none" /\ job'.addr = o /\ job'.size = n /\ job'.ret = r /\ job'.src = <<>>
  BY <1>2 DEF Idle
<1>7. ~ chip.busy /\ job.at = "none"
  BY <1>1 DEF FlInv, AtRest
<1>8. dst' \in Seq(Int) /\ Len(dst') < n + Word
  <2>1. CASE r < 0
    BY <2>1, <1>3, <1>4, Sizes
  <2>2. CASE r >= 0
    <3>1. \A a \in Int : Content(a) \in Int
      BY DEF Content, Spoilt, FlInv, FlType
    <3>2. dst' \in [1 .. r -> Int] /\ r \in Nat
      BY <2>2, <3>1, <1>3, <1>4
    <3>3. dst' \in Seq(Int) /\ Len(dst') = r
      BY <3>2
    <3> QED
      BY <3>3, <2>2, <1>4, Sizes
  <2> QED
    BY <2>1, <2>2, <1>4
<1>9. FlType'
  BY <1>1, <1>5, <1>8 DEF FlInv, FlType
<1>10. InTransfer'
  BY <1>1, <1>6, <1>7 DEF FlInv, InTransfer
<1>11. AtRest'
  BY <1>1, <1>4, <1>6, <1>7, <1>8 DEF AtRest
<1> QED
  BY <1>6, <1>9, <1>10, <1>11 DEF FlInv, InProgram, InRead

\* The size of a program, a part of a page less than its pages.
LEMMA ProgramSize ==
    ASSUME NEW pages \in Seq(Nat), pages # <<>>, NEW cut \in 0 .. Page - 1
    PROVE  /\ SrcLen(pages) \in Nat /\ SrcLen(pages) - cut \in Nat
           /\ 0 < SrcLen(pages) - cut /\ SrcLen(pages) - cut <= SrcLen(pages)
<1>0. Page \in Nat \ {0} /\ Len(pages) \in Nat \ {0}
  BY Sizes
<1>1. Page * 0 + Page <= Page * Len(pages) /\ Page * 0 = 0 /\ Page * Len(pages) \in Nat
  <2>1. 0 \in Nat /\ 0 < Len(pages)
    BY <1>0
  <2> QED
    BY <1>0, <2>1, Steps
<1> QED
  BY <1>0, <1>1 DEF SrcLen

\* bm_spi_flash_program begins with the sectors to erase, or refuses.
LEMMA ProgramBegins ==
    ASSUME FlInv, NEW base \in Nat, NEW pages \in Seq(Nat), pages # <<>>, NEW cut \in 0 .. Page - 1,
           SrcLen(pages) - cut <= Low, ProgramRequest(base, pages, cut)
    PROVE  FlInv'
<1>1. job.op = "idle" /\ UNCHANGED <<cells, chip, fifo, dst, slow>>
  BY DEF ProgramRequest
<1> DEFINE z == SrcLen(pages) - cut
           asked == [Idle EXCEPT !.addr = base, !.size = z, !.src = pages]
<1>2. \/ base % Sector = 0 /\ job' = [asked EXCEPT !.op = "program", !.at = "erase"]
      \/ job' = [asked EXCEPT !.op = "done", !.ret = -22]
  BY DEF ProgramRequest
<1>3. z \in Nat /\ 0 < z /\ z <= SrcLen(pages) /\ z <= Low
  BY ProgramSize
<1> HIDE DEF z
<1>4. /\ asked \in Jobs /\ asked.addr = base /\ asked.size = z /\ asked.src = pages /\ asked.off = 0
      /\ asked.blind = FALSE /\ asked.at = "none"
  BY <1>3, IdleIsJob DEF Jobs, Idle
<1> HIDE DEF asked
<1>6. ~ chip.busy /\ job.at = "none"
  BY <1>1 DEF FlInv, AtRest
<1>7. CASE base % Sector = 0 /\ job' = [asked EXCEPT !.op = "program", !.at = "erase"]
  <2>1. job' \in Jobs
    BY <1>4, <1>7 DEF Jobs, Ops, Places
  <2>2. /\ job'.op = "program" /\ job'.at = "erase" /\ job'.addr = base /\ job'.size = z /\ job'.off = 0
        /\ job'.src = pages /\ job'.blind = FALSE
    BY <1>4, <1>7 DEF Jobs
  <2>3. FlType'
    BY <1>1, <2>1 DEF FlInv, FlType
  <2>4. InTransfer'
    BY <1>1, <1>6, <2>2 DEF FlInv, InTransfer
  <2>5. InProgram'
    <3>1. Holds(job.off)'
      BY <2>2 DEF Holds
    <3>2. 0 % Page = 0
      <4>1. Page \in Nat \ {0} /\ Page * 0 = 0
        BY Sizes
      <4> QED
        BY <4>1, MultipleIs
    <3>3. 0 <= z
      BY <1>3
    <3> QED
      BY <3>1, <3>2, <3>3, <1>3, <1>7, <2>2 DEF InProgram
  <2> QED
    BY <2>2, <2>3, <2>4, <2>5 DEF FlInv, InRead, AtRest
<1>8. CASE job' = [asked EXCEPT !.op = "done", !.ret = -22]
  <2>1. job' \in Jobs
    <3>1. "done" \in Ops /\ -22 \in Int
      BY DEF Ops
    <3> QED
      BY <3>1, <1>4, <1>8 DEF Jobs
  <2>2. job'.op = "done" /\ job'.at = "none" /\ job'.src = pages /\ job'.ret = -22
    BY <1>4, <1>8 DEF Jobs
  <2>3. FlType'
    BY <1>1, <2>1 DEF FlInv, FlType
  <2>4. InTransfer'
    BY <1>1, <1>6, <2>2 DEF FlInv, InTransfer
  <2> QED
    BY <2>2, <2>3, <2>4 DEF FlInv, InRead, InProgram, AtRest
<1> QED
  BY <1>2, <1>7, <1>8

\* The FIFO and the flash get on.
LEMMA FillKeepsFlash == ASSUME FlInv, FifoFill PROVE FlInv'
<1>1. fifo.here = 0 /\ fifo.left > 0 /\ UNCHANGED <<cells, chip, job, dst, slow>>
  BY DEF FifoFill
<1>2. fifo' = [fifo EXCEPT !.here = Least(Fifo, fifo.left)]
  BY DEF FifoFill
<1>3. job.at = "in" /\ fifo.left = job.n - job.got
  BY <1>1 DEF FlInv, InTransfer
<1>4. Least(Fifo, fifo.left) \in Nat
  BY Sizes DEF FlInv, FlType, Least
<1>5. fifo' \in [from : Nat, left : Nat, here : Nat]
  BY <1>2, <1>4 DEF FlInv, FlType
<1>6. fifo'.here = XferSize /\ fifo'.left = fifo.left /\ fifo'.from = fifo.from
  BY <1>2, <1>3 DEF FlInv, FlType, XferSize
<1>7. FlType'
  BY <1>1, <1>5 DEF FlInv, FlType
<1>8. InTransfer'
  BY <1>1, <1>3, <1>6 DEF FlInv, InTransfer, XferSize
<1>9. InRead'
  BY <1>1 DEF FlInv, InRead, Delivered, Copied, Content
<1>10. InProgram'
  BY <1>1 DEF FlInv, InProgram, Holds, Compared, Fetched, PageSize
<1>11. AtRest'
  BY <1>1 DEF FlInv, AtRest, Holds, Copied, Content
<1> QED
  BY <1>7, <1>8, <1>9, <1>10, <1>11 DEF FlInv

\* The flash ends what it was at: only programs leave it busy, so no read sees
\* its bytes change.
LEMMA ReadyKeepsFlash == ASSUME FlInv, ChipReady PROVE FlInv'
<1>1. chip.busy /\ UNCHANGED <<cells, fifo, job, dst, slow>>
  BY DEF ChipReady
<1>2. chip' \in [busy : BOOLEAN]
  BY DEF ChipReady, FlInv, FlType
<1>3. job.op \in {"program", "done"} /\ (job.op = "done" => job.src # <<>>)
  BY <1>1 DEF FlInv, FlType, Jobs, Ops, InRead, AtRest
<1>7. FlType'
  BY <1>1, <1>2 DEF FlInv, FlType
<1>8. InTransfer'
  BY <1>1 DEF FlInv, InTransfer, XferSize
<1>9. InRead'
  BY <1>1, <1>3 DEF InRead
<1>10. InProgram'
  BY <1>1 DEF FlInv, InProgram, Holds, Compared, Fetched, PageSize
<1>11. AtRest'
  BY <1>1, <1>3 DEF FlInv, AtRest, Holds
<1> QED
  BY <1>7, <1>8, <1>9, <1>10, <1>11 DEF FlInv

\* The frames of a read.
LEMMA FrameKeepsFlash == ASSUME FlInv, bm_spi_flash_read PROVE FlInv'
<1>1. job.op = "read" /\ job.at = "frame" /\ job.off < job.size /\ UNCHANGED <<cells, chip, dst, slow>>
  BY DEF bm_spi_flash_read
<1> DEFINE n == Least(Tran, job.size - job.off)
<1>2. job' = [job EXCEPT !.at = "in", !.n = n, !.got = 0]
  BY DEF bm_spi_flash_read
<1>3. fifo' = [from |-> spi_data_read(job.addr + job.off), left |-> n, here |-> 0]
  BY DEF bm_spi_flash_read, StartTran
<1>t. job \in Jobs /\ job.size \in Nat /\ job.off \in Nat /\ job.addr \in Nat
  BY DEF FlInv, FlType, Jobs
<1>4. n \in Nat /\ n > 0 /\ n <= Tran
  BY <1>1, <1>t, Sizes DEF Least
<1>5. spi_data_read(job.addr + job.off) = job.addr + job.off
  BY <1>t, AddressItself
<1>n. n = Least(Tran, job.size - job.off)
  OBVIOUS
<1> HIDE DEF n
<1>6. job' \in Jobs
  BY <1>2, <1>4, <1>t DEF Jobs, Places
<1>7. /\ job'.op = "read" /\ job'.at = "in" /\ job'.n = n /\ job'.got = 0 /\ job'.addr = job.addr /\ job'.size = job.size
      /\ job'.off = job.off /\ job'.src = job.src
  BY <1>1, <1>2, <1>t DEF Jobs
<1>8. fifo'.from = job.addr + job.off /\ fifo'.left = n /\ fifo'.here = 0
  BY <1>3, <1>5
<1>9. FlType'
  <2>1. fifo' \in [from : Nat, left : Nat, here : Nat]
    BY <1>3, <1>4, <1>5, <1>t
  <2> QED
    BY <2>1, <1>1, <1>6 DEF FlInv, FlType
<1>10. InTransfer'
  <2>1. 0 % Fifo = 0
    <3>1. Fifo \in Nat \ {0} /\ Fifo * 0 = 0
      BY Sizes
    <3> QED
      BY <3>1, MultipleIs
  <2> QED
    BY <2>1, <1>4, <1>7, <1>8, <1>t DEF InTransfer
<1>11. InRead'
  <2>1. Delivered' = job.off /\ Delivered = job.off
    BY <1>1, <1>7, <1>t DEF Delivered
  <2>2. Copied(Delivered)'
    BY <2>1, <1>1, <1>7 DEF FlInv, InRead, Copied, Content
  <2>3. Len(dst') = job.off
    BY <2>1, <1>1 DEF FlInv, InRead
  <2> QED
    BY <2>1, <2>2, <2>3, <1>1, <1>7, <1>n, <1>t DEF FlInv, InRead
<1> QED
  BY <1>7, <1>9, <1>10, <1>11 DEF FlInv, InProgram, AtRest

\* A frame of a read is complete: the next one starts behind it.
LEMMA FrameDoneKeepsFlash == ASSUME FlInv, FrameDone PROVE FlInv'
<1>1. job.op = "read" /\ job.at = "end" /\ UNCHANGED <<cells, chip, fifo, dst, slow>>
  BY DEF FrameDone
<1>2. job' = [job EXCEPT !.at = "frame", !.off = job.off + job.n]
  BY DEF FrameDone
<1>t. job \in Jobs /\ job.size \in Nat /\ job.off \in Nat /\ job.n \in Nat
  BY DEF FlInv, FlType, Jobs
<1>3. PICK m \in Nat : m = job.off + job.n
  BY <1>t
<1>4. job' \in Jobs
  BY <1>2, <1>3, <1>t DEF Jobs, Places
<1>5. /\ job'.op = "read" /\ job'.at = "frame" /\ job'.addr = job.addr /\ job'.size = job.size
      /\ job'.off = m /\ job'.src = job.src
  BY <1>1, <1>2, <1>3, <1>t DEF Jobs
<1>6. Delivered = m /\ Delivered' = m
  BY <1>1, <1>3, <1>5 DEF Delivered
<1>7. m <= job.size
  BY <1>1, <1>3, <1>t, Sizes DEF FlInv, InRead, Least
<1>8. FlType'
  BY <1>1, <1>4 DEF FlInv, FlType
<1>9. InTransfer'
  BY <1>1, <1>5 DEF FlInv, InTransfer
<1>10. InRead'
  <2>1. Copied(Delivered)'
    BY <1>1, <1>5, <1>6 DEF FlInv, InRead, Copied, Content
  <2> QED
    BY <2>1, <1>1, <1>5, <1>6, <1>7 DEF FlInv, InRead
<1> QED
  BY <1>5, <1>8, <1>9, <1>10 DEF FlInv, InProgram, AtRest

\* bm_spi_flash_read returns the size when all of it has been delivered.
LEMMA ReturnKeepsFlash == ASSUME FlInv, ReadReturns PROVE FlInv'
<1>1. job.op = "read" /\ job.at = "frame" /\ job.off = job.size /\ UNCHANGED <<cells, chip, fifo, dst, slow>>
  BY DEF ReadReturns
<1>2. job' = [job EXCEPT !.op = "done", !.at = "none", !.ret = job.size]
  BY DEF ReadReturns
<1>t. job \in Jobs /\ job.size \in Nat /\ job.size \in Int /\ job.off \in Nat
  BY DEF FlInv, FlType, Jobs
<1>3. job' \in Jobs
  <2>1. "done" \in Ops /\ "none" \in Places
    BY DEF Places, Ops
  <2> QED
    BY <2>1, <1>2, <1>t DEF Jobs
<1>4. /\ job'.op = "done" /\ job'.at = "none" /\ job'.addr = job.addr /\ job'.size = job.size
      /\ job'.ret = job.size /\ job'.src = job.src
  BY <1>1, <1>2, <1>t DEF Jobs
<1>5. Delivered = job.size
  BY <1>1, <1>t DEF Delivered
<1>6. FlType'
  BY <1>1, <1>3 DEF FlInv, FlType
<1>7. InTransfer'
  BY <1>1, <1>4 DEF FlInv, InTransfer
<1>8. AtRest'
  <2>1. Copied(job.size)'
    BY <1>1, <1>4, <1>5 DEF FlInv, InRead, Copied, Content
  <2>2. Len(dst) >= job.size /\ Len(dst) < job.size + Word /\ job.src = <<>> /\ ~ chip.busy
    BY <1>1, <1>5 DEF FlInv, InRead
  <2> QED
    BY <2>1, <2>2, <1>1, <1>4 DEF AtRest
<1> QED
  BY <1>4, <1>6, <1>7, <1>8 DEF FlInv, InProgram, InRead

\* A load of the FIFO moves to the buffer: the x bytes that were asked for, in
\* words, behind the bytes that were there.
LoadMoved(x, w) ==
    /\ x = XferSize /\ x > 0 /\ job.got + x <= job.n
    /\ job.got + x < job.n => x = Fifo
    /\ x <= w /\ w < x + Word
    /\ x % Word = 0 => w = x
    /\ dst' \in Seq(Int) /\ Len(dst') = Len(Filled) + w
    /\ \A k \in 1 .. Len(Filled) : dst'[k] = Filled[k]
    /\ \A k \in 1 .. x : dst'[Len(Filled) + k] = Content(job.addr + job.off + job.got + k - 1)

\* spi_data_in_tran moves its load.
LEMMA LoadMoves ==
    ASSUME FlInv, spi_data_in_tran
    PROVE  \E x \in Nat, w \in Nat : LoadMoved(x, w)
<1>1. job.at = "in" /\ fifo.here = XferSize /\ job.got < job.n
  BY DEF spi_data_in_tran
<1>t. job.n \in Nat /\ job.got \in Nat /\ job.addr \in Nat /\ job.off \in Nat
  BY DEF FlInv, FlType, Jobs
<1>2. XferSize \in Nat /\ XferSize > 0 /\ job.got + XferSize <= job.n /\ (job.got + XferSize < job.n => XferSize = Fifo)
  BY <1>1, <1>t, Sizes DEF XferSize, Least
<1> DEFINE x == XferSize
           m == Word * WordsOf(x)
           f == [k \in 1 .. m |-> IF k <= x THEN Content(fifo.from + k - 1) ELSE Spoilt]
<1>3. m \in Nat /\ x <= m /\ m < x + Word /\ (x % Word = 0 => m = x)
  BY <1>2, Rounded
<1>4. \A a \in Int : Content(a) \in Int
  BY DEF Content, Spoilt, FlInv, FlType
<1>5. fifo.from = job.addr + job.off + job.got /\ fifo.from \in Nat
  BY <1>1 DEF FlInv, InTransfer, FlType
<1>6. f \in [1 .. m -> Int]
  <2>1. \A k \in 1 .. m : (IF k <= x THEN Content(fifo.from + k - 1) ELSE Spoilt) \in Int
    BY <1>4, <1>5 DEF Spoilt
  <2> HIDE DEF m
  <2> QED
    BY <2>1
<1>7. \A k \in 1 .. x : k \in 1 .. m /\ f[k] = Content(job.addr + job.off + job.got + k - 1)
  <2> SUFFICES ASSUME NEW k \in 1 .. x PROVE k \in 1 .. m /\ f[k] = Content(job.addr + job.off + job.got + k - 1)
    OBVIOUS
  <2>1. k \in 1 .. m /\ k <= x
    BY <1>2, <1>3
  <2>2. f[k] = Content(fifo.from + k - 1)
    BY <2>1
  <2> QED
    BY <2>1, <2>2, <1>5
<1>8. dst' = Filled \o f /\ Filled \in Seq(Int)
  BY DEF spi_data_in_tran, FlInv, FlType, Filled
<1>n. x = XferSize
  OBVIOUS
<1> HIDE DEF f, m, x
<1>9. /\ dst' \in Seq(Int) /\ Len(dst') = Len(Filled) + m
      /\ \A k \in 1 .. Len(Filled) : dst'[k] = Filled[k]
      /\ \A k \in 1 .. m : dst'[Len(Filled) + k] = f[k]
  BY <1>3, <1>6, <1>8, Appended
<1>10. \A k \in 1 .. x : dst'[Len(Filled) + k] = Content(job.addr + job.off + job.got + k - 1)
  BY <1>7, <1>9
<1>11. LoadMoved(x, m) /\ x \in Nat /\ m \in Nat
  BY <1>2, <1>3, <1>9, <1>10, <1>n DEF LoadMoved
<1> QED
  BY <1>11

\* What is left of a transfer of whole loads is whole loads.
LEMMA LoadsLeft ==
    ASSUME NEW n \in Nat, NEW got \in Nat, got < n, n % Fifo = 0, got % Fifo = 0
    PROVE  Least(Fifo, n - got) = Fifo /\ (got + Fifo) % Fifo = 0
<1>1. got + Fifo <= n /\ (got + Fifo) % Fifo = 0
  <2>1. Fifo \in Nat \ {0}
    BY Sizes
  <2>2. Fifo * 1 = Fifo /\ 1 \in Nat
    BY <2>1
  <2>3. Fifo % Fifo = 0
    BY <2>1, <2>2, MultipleIs
  <2> QED
    BY <2>1, <2>3, Multiples
<1> QED
  BY <1>1, Sizes DEF Least

\* The loads of a read land where they belong, those of a comparison from the
\* start of the buffer.
LEMMA LoadKeepsFlash == ASSUME FlInv, spi_data_in_tran PROVE FlInv'
<1>1. job.at = "in" /\ fifo.here = XferSize /\ job.got < job.n /\ UNCHANGED <<cells, chip, slow>>
  BY DEF spi_data_in_tran
<1>t. job \in Jobs /\ job.n \in Nat /\ job.got \in Nat /\ job.addr \in Nat /\ job.off \in Nat /\ job.size \in Nat
      /\ Len(Filled) \in Nat /\ Filled \in Seq(Int)
  BY DEF FlInv, FlType, Jobs, Filled
<1>2. PICK x \in Nat, w \in Nat : LoadMoved(x, w)
  BY LoadMoves
<1>4. dst' \in Seq(Int) /\ (\A k \in 1 .. Len(Filled) : dst'[k] = Filled[k])
  BY <1>2 DEF LoadMoved
<1>17. \A k \in 1 .. x : dst'[Len(Filled) + k] = Content(job.addr + job.off + job.got + k - 1)
  BY <1>2 DEF LoadMoved
<1>5. PICK g \in Nat : g = job.got + x
  BY <1>t
<1>n. job.n \in Nat /\ job.got \in Nat /\ job.addr \in Nat /\ job.off \in Nat /\ job.size \in Nat
  BY <1>t
<1>l. PICK l \in Nat : l = Len(Filled)
  BY <1>t
<1>a. x \in Nat /\ g \in Nat /\ x > 0 /\ g = job.got + x /\ g <= job.n /\ (g < job.n => x = Fifo)
  BY <1>2, <1>5 DEF LoadMoved
<1>m. PICK m \in Nat : m = l + w /\ m = Len(dst')
  BY <1>2, <1>l DEF LoadMoved
<1>v. l \in Nat /\ w \in Nat /\ m \in Nat /\ x <= w /\ w < x + Word /\ (x % Word = 0 => w = x) /\ m = l + w
  BY <1>2, <1>l, <1>m DEF LoadMoved
<1>6. PICK a \in {"in", "end"} : /\ a = IF g = job.n THEN "end" ELSE "in"
                                 /\ job' = [job EXCEPT !.got = g, !.at = a]
  <2>1. XferSize = x
    BY <1>2 DEF LoadMoved
  <2> QED
    BY <2>1, <1>5 DEF spi_data_in_tran
<1>7. job' \in Jobs
  <2>1. a \in Places
    BY <1>6 DEF Places
  <2> QED
    BY <2>1, <1>6, <1>t DEF Jobs
<1>8. /\ job'.op = job.op /\ job'.at = a /\ job'.addr = job.addr /\ job'.size = job.size /\ job'.got = g /\ job'.n = job.n
      /\ job'.off = job.off /\ job'.src = job.src /\ job'.blind = job.blind /\ job'.i = job.i
  BY <1>6, <1>t DEF Jobs
<1>9. fifo' = [from |-> fifo.from + x, left |-> fifo.left - x, here |-> 0]
  <2>1. XferSize = x
    BY <1>2 DEF LoadMoved
  <2> QED
    BY <2>1 DEF spi_data_in_tran
<1>10. fifo.from = job.addr + job.off + job.got /\ fifo.left = job.n - job.got
  BY <1>1 DEF FlInv, InTransfer
<1>11. fifo'.from = job.addr + job.off + g /\ fifo'.left = job.n - g /\ fifo'.here = 0 /\ job.n - g \in Nat
  <2>1. fifo'.from = fifo.from + x /\ fifo'.left = fifo.left - x /\ fifo'.here = 0
    BY <1>9
  <2>2. job.addr + job.off + job.got + x = job.addr + job.off + g /\ job.n - job.got - x = job.n - g /\ job.n - g \in Nat
    BY <1>a, <1>n
  <2> QED
    BY <2>1, <2>2, <1>10
<1>12. FlType'
  <2>a. job.addr + job.off + g \in Nat
    BY <1>a, <1>n
  <2>b. fifo'.from \in Nat /\ fifo'.left \in Nat /\ fifo'.here \in Nat
    BY <2>a, <1>11
  <2>c. fifo' = [from |-> fifo'.from, left |-> fifo'.left, here |-> fifo'.here]
    BY <1>9
  <2>1. fifo' \in [from : Nat, left : Nat, here : Nat]
    BY <2>b, <2>c
  <2> QED
    BY <2>1, <1>1, <1>4, <1>7 DEF FlInv, FlType
<1>13. a = "in" => x = Fifo /\ g < job.n /\ g % Fifo = 0
  <2>1. ASSUME a = "in" PROVE x = Fifo /\ g < job.n /\ g % Fifo = 0
    <3>1. g # job.n /\ g < job.n /\ x = Fifo
      <4>1. g # job.n
        BY <2>1, <1>6
      <4> QED
        BY <4>1, <1>a, <1>n
    <3>2. job.got % Fifo = 0
      BY <1>1 DEF FlInv, InTransfer
    <3>3. Fifo \in Nat \ {0} /\ Fifo % Fifo = 0
      <4>1. Fifo \in Nat \ {0} /\ Fifo * 1 = Fifo /\ 1 \in Nat
        BY Sizes
      <4> QED
        BY <4>1, MultipleIs
    <3> QED
      BY <3>1, <3>2, <3>3, <1>5, <1>t, Multiples
  <2> QED
    BY <2>1
<1>14. InTransfer'
  <2>1. job.n <= Tran
    BY <1>1 DEF FlInv, InTransfer
  <2> QED
    BY <2>1, <1>8, <1>11, <1>13, <1>6 DEF InTransfer
<1>15. job.op \in {"read", "program"}
  BY <1>1, <1>t DEF FlInv, AtRest, Jobs, Ops
<1>16. AtRest'
  BY <1>8, <1>15 DEF AtRest
<1>18. InRead'
  <2> SUFFICES ASSUME job.op = "read" PROVE InRead'
    BY <1>8 DEF InRead
  <2>0. job.src = <<>> /\ ~ chip.busy /\ job.off < job.size /\ job.n = Least(Tran, job.size - job.off)
    BY <1>1 DEF FlInv, InRead
  <2>f. Filled = dst
    BY DEF Filled
  <2>1. Delivered = job.off + job.got /\ Delivered' = job.off + g
    BY <1>1, <1>6, <1>8 DEF Delivered
  <2>2. job.off + job.n <= job.size
    BY <2>0, <1>t, Sizes DEF Least
  <2>b. job.off + job.got < job.size
    BY <2>2, <1>1, <1>n
  <2>3. l = job.off + job.got
    BY <2>1, <2>b, <2>f, <1>l DEF FlInv, InRead
  <2>4. m < job.off + g + Word /\ m >= job.off + g
    BY <2>3, <1>a, <1>n, <1>v, Sizes
  <2>5. ASSUME job.off + g < job.size PROVE x % Word = 0
    <3>1. CASE g < job.n
      BY <3>1, <1>a, Sizes
    <3>2. CASE g = job.n
      <4>1. job.n = Tran
        BY <3>2, <2>0, <2>5, <1>n, Sizes DEF Least
      <4>2. job.got % Fifo = 0
        BY <1>1 DEF FlInv, InTransfer
      <4>3. Least(Fifo, job.n - job.got) = Fifo
        BY <4>1, <4>2, <1>1, <1>t, LoadsLeft, Sizes
      <4> QED
        BY <4>3, <1>2, Sizes DEF XferSize, LoadMoved
    <3> QED
      BY <3>1, <3>2, <1>a, <1>n
  <2>6. job.off + g < job.size => m = job.off + g
    BY <2>3, <2>5, <1>a, <1>n, <1>v
  <2>7. Copied(job.off + g)'
    <3> SUFFICES ASSUME NEW k \in 1 .. job.off + g PROVE dst'[k] = Content(job.addr + k - 1)
      BY <1>1, <1>8 DEF Copied, Content
    <3>1. CASE k <= l
      <4>1. k \in 1 .. l /\ k \in 1 .. job.off + job.got
        BY <3>1, <2>3, <1>n, <1>v
      <4>2. k \in 1 .. Len(dst) /\ k \in 1 .. Delivered
        BY <4>1, <1>l, <2>1, <2>f
      <4> QED
        BY <4>2, <1>4, <2>0, <2>f DEF FlInv, InRead, Copied
    <3>2. CASE k > l
      <4>1. PICK j \in 1 .. x : k = l + j
        <5>1. k - l \in 1 .. x /\ k = l + (k - l)
          BY <3>2, <2>3, <1>a, <1>n, <1>v
        <5> QED
          BY <5>1
      <4>2. job.addr + job.off + job.got + j - 1 = job.addr + k - 1
        <5>1. j \in Nat
          BY <1>a
        <5> QED
          BY <5>1, <4>1, <2>3, <1>n
      <4> QED
        BY <4>1, <4>2, <1>17, <1>l
    <3> QED
      BY <3>1, <3>2, <1>v
  <2>8. job.off + g <= job.size
    BY <2>2, <1>a, <1>n
  <2> QED
    <3>1. /\ job'.src = <<>> /\ ~ chip'.busy /\ job'.at \in {"in", "end"} /\ job'.size = job.size /\ job'.off = job.off
          /\ job'.off < job'.size /\ job'.n = Least(Tran, job'.size - job'.off)
      BY <2>0, <1>1, <1>8
    <3>2. job.off <= job.size
      BY <2>0, <1>n
    <3>3. /\ Delivered' < job'.size => Len(dst') = Delivered'
          /\ Delivered' = job'.size => Len(dst') >= job'.size /\ Len(dst') < job'.size + Word
      BY <2>1, <2>4, <2>6, <1>m, <3>1
    <3>4. Copied(Delivered)'
      BY <2>1, <2>7, <3>1 DEF Copied
    <3> QED
      BY <3>1, <3>2, <3>3, <3>4 DEF InRead
<1>19. InProgram'
  <2> SUFFICES ASSUME job.op = "program" PROVE InProgram'
    BY <1>8 DEF InProgram
  <2>0. /\ job.n = PageSize /\ job.off < job.size /\ (job.blind \/ Holds(job.off))
        /\ job.got = 0 \/ (Len(dst) = job.got /\ Compared(job.got))
    BY <1>1 DEF FlInv, InProgram
  <2>1. l = job.got
    BY <2>0, <1>l, <1>n DEF Filled
  <2>2. m >= g /\ (a = "in" => m = g)
    <3>1. a = "in" => w = x
      BY <1>13, <1>v, Sizes
    <3> QED
      BY <2>1, <3>1, <1>a, <1>n, <1>v
  <2>4. Compared(g)'
    <3> SUFFICES ASSUME NEW k \in 1 .. g PROVE Fetched(dst'[k], job.addr + job.off + k - 1)
      BY <2>2, <1>1, <1>8, <1>m DEF Compared, Fetched
    <3>0. k \in Nat /\ k > 0 /\ k <= g
      BY <1>a
    <3>1. CASE k <= job.got
      <4>1. k \in 1 .. job.got /\ k \in 1 .. l /\ job.got # 0
        BY <3>0, <3>1, <2>1, <1>n
      <4>2. Fetched(dst[k], job.addr + job.off + k - 1) /\ Filled = dst
        BY <4>1, <2>0 DEF Compared, Filled
      <4> QED
        BY <4>1, <4>2, <1>4, <1>l
    <3>2. CASE k > job.got
      <4>1. PICK j \in 1 .. x : k = job.got + j
        <5>1. k - job.got \in 1 .. x /\ k = job.got + (k - job.got)
          BY <3>0, <3>2, <1>a, <1>n
        <5> QED
          BY <5>1
      <4>2. k = l + j /\ job.addr + job.off + k - 1 = job.addr + job.off + job.got + j - 1
        <5>1. j \in Nat
          BY <1>a
        <5> QED
          BY <5>1, <4>1, <2>1, <1>n
      <4>3. dst'[l + j] = Content(job.addr + job.off + job.got + j - 1)
        BY <4>1, <1>17, <1>l
      <4> QED
        BY <4>2, <4>3 DEF Content, Fetched
    <3> QED
      BY <3>0, <3>1, <3>2, <1>n
  <2>5. (a = "end" => g = job.n) /\ (a = "in" => Len(dst') = g)
    BY <2>2, <1>6, <1>m
  <2>6. Holds(job.off)' = Holds(job.off) /\ PageSize' = PageSize
    BY <1>1, <1>8 DEF Holds, PageSize
  <2>7. job'.blind \/ Holds(job.off)'
    BY <2>0, <2>6, <1>8
  <2>8. a = "in" => job'.got = 0 \/ (Len(dst') = job'.got /\ Compared(job.got)')
    BY <2>4, <2>5, <1>8 DEF Compared
  <2>9. a = "end" => Compared(job.n)'
    BY <2>4, <2>5, <1>8 DEF Compared
  <2> QED
    BY <2>0, <2>6, <2>7, <2>8, <2>9, <1>1, <1>6, <1>8 DEF FlInv, InProgram
<1> QED
  BY <1>12, <1>14, <1>16, <1>18, <1>19 DEF FlInv

\* The tag of a byte is that of its page, a number.
LEMMA SameTag ==
    ASSUME NEW s, NEW off \in Nat, off % Page = 0, NEW j \in 0 .. Page - 1
    PROVE  SrcByte(s, off + j) = SrcByte(s, off)
<1>0. Page \in Nat \ {0}
  BY Sizes
<1>1. PICK q \in Nat : off = Page * q
  BY <1>0, Multiple
<1>2. (off + j) \div Page = q
  BY <1>0, <1>1, Quotient
<1>3. off = Page * q + 0 /\ 0 \in 0 .. Page - 1
  BY <1>0, <1>1
<1>4. off \div Page = q
  BY <1>0, <1>3, Quotient
<1> QED
  BY <1>2, <1>4 DEF SrcByte

\* A byte of the data is a number, not the mark of a spoilt cell.
LEMMA TagIsNumber ==
    ASSUME NEW s \in Seq(Nat), NEW off \in Nat, off < SrcLen(s)
    PROVE  SrcByte(s, off) \in Nat
<1>0. Page \in Nat \ {0} /\ Len(s) \in Nat
  BY Sizes
<1> DEFINE q == off \div Page
           r == off % Page
<1>1. q \in Nat /\ r \in 0 .. Page - 1 /\ off = Page * q + r
  BY <1>0, DivMod
<1>2. Page * q \in Nat /\ Page * q <= off
  BY <1>0, <1>1
<1>3. Page * q < Page * Len(s)
  BY <1>0, <1>2 DEF SrcLen
<1>4. q < Len(s)
  BY <1>0, <1>1, <1>3, Steps
<1>5. q + 1 \in 1 .. Len(s)
  BY <1>0, <1>1, <1>4
<1> QED
  BY <1>5 DEF SrcByte

\* The next page is whole, or the last one.
LEMMA NextPage ==
    ASSUME job.off \in Nat, job.size \in Nat, job.off < job.size, job.off % Page = 0
    PROVE  /\ PageSize \in 1 .. Page /\ job.off + PageSize <= job.size
           /\ job.off + PageSize # job.size => (job.off + PageSize) % Page = 0
<1>0. Page \in Nat \ {0}
  BY Sizes
<1>1. PageSize \in 1 .. Page /\ job.off + PageSize <= job.size /\ (job.off + PageSize # job.size => PageSize = Page)
  BY <1>0 DEF PageSize, Least
<1>2. Page % Page = 0
  <2>1. Page * 1 = Page /\ 1 \in Nat
    BY <1>0
  <2> QED
    BY <1>0, <2>1, MultipleIs
<1> QED
  BY <1>0, <1>1, <1>2, Multiples

\* What is sent of a page: all of it, or less when the FIFO did not empty.
LEMMA SentOfPage ==
    ASSUME PageSize \in 1 .. Page, NEW n \in Sent
    PROVE  n \in 0 .. PageSize /\ (n < PageSize => slow < MaxSlow)
<1>0. Fifo \in Nat \ {0} /\ Page \in Nat \ {0}
  BY Sizes
<1>1. PICK y \in Nat : y = PageSize - 1 /\ PageSize \in Nat
  BY <1>0
<1>2. y \div Fifo \in Nat /\ y % Fifo \in 0 .. Fifo - 1 /\ y = Fifo * (y \div Fifo) + (y % Fifo)
  BY <1>0, DivMod
<1>3. PICK q \in Nat : q = Fifo * (y \div Fifo)
  BY <1>0, <1>2
<1>4. q <= y
  BY <1>0, <1>2, <1>3
<1>5. n = PageSize \/ (slow < MaxSlow /\ n \in 0 .. q - 1)
  BY <1>1, <1>3 DEF Sent
<1> QED
  BY <1>1, <1>4, <1>5

\* Three address bytes that wrap do not come back to the pages before, while
\* the data is not longer than what they reach.
LEMMA PagesApart ==
    ASSUME NEW addr \in Nat, NEW off \in Nat, NEW x \in Nat, off + x <= Low, NEW k \in 0 .. off - 1, NEW n \in 0 .. x
    PROVE  ~ (addr + k \in ThreeBytes(addr + off) .. ThreeBytes(addr + off) + n - 1)
<1>0. Low \in Nat \ {0}
  BY Sizes
<1> DEFINE t == (addr + off) % Low
           q == (addr + off) \div Low
<1>a. addr + off \in Nat
  OBVIOUS
<1>1. q \in Nat /\ t \in 0 .. Low - 1 /\ addr + off = Low * q + t
  BY <1>0, <1>a, DivMod
<1>2. CASE q = 0
  <2>1. addr + off = t
    BY <1>0, <1>1, <1>2
  <2> QED
    BY <1>0, <1>1, <2>1 DEF ThreeBytes
<1>3. CASE q # 0
  <2>1. Low * q >= Low
    <3>1. 0 < q /\ 0 \in Nat
      BY <1>1, <1>3
    <3>2. Low * 0 + Low <= Low * q /\ Low * 0 = 0
      BY <1>0, <1>1, <3>1, Steps
    <3> QED
      BY <3>2, <1>0
  <2>2. PICK m \in Nat : m = Low * q
    BY <1>0, <1>1
  <2>3. addr >= t + x
    BY <1>0, <1>1, <2>1, <2>2
  <2>4. addr + k > t + n - 1
    BY <1>0, <1>1, <2>3
  <2> QED
    BY <1>0, <1>1, <2>4 DEF ThreeBytes
<1> QED
  BY <1>2, <1>3

\* A transfer without data.
LEMMA TimeoutKeepsFlash == ASSUME FlInv, InTimeout PROVE FlInv'
<1>1. job.at = "in" /\ job.got = 0 /\ slow < MaxSlow /\ slow' = slow + 1 /\ fifo' = Quiet /\ UNCHANGED <<cells, chip, dst>>
  BY DEF InTimeout
<1>t. job \in Jobs /\ job.op \in Ops /\ job.n \in Nat /\ job.off \in Nat /\ job.size \in Nat
  BY DEF FlInv, FlType, Jobs
<1>2. job.op \in {"read", "program"}
  BY <1>1, <1>t DEF FlInv, AtRest, Ops
<1>3. slow' \in 0 .. MaxSlow /\ fifo' \in [from : Nat, left : Nat, here : Nat] /\ fifo'.left = 0 /\ fifo'.here = 0
  BY <1>1, Sizes DEF FlInv, FlType, Quiet
<1>4. CASE job.op = "read"
  <2>1. job' = [job EXCEPT !.op = "done", !.at = "none", !.ret = -1]
    BY <1>4 DEF InTimeout
  <2>2. job' \in Jobs
    <3>1. "done" \in Ops /\ "none" \in Places /\ -1 \in Int
      BY DEF Places, Ops
    <3> QED
      BY <3>1, <2>1, <1>t DEF Jobs
  <2>3. job'.op = "done" /\ job'.at = "none" /\ job'.size = job.size /\ job'.ret = -1 /\ job'.src = job.src
    BY <2>1, <1>t DEF Jobs
  <2>4. job.src = <<>> /\ ~ chip.busy /\ job.off < job.size
    BY <1>1, <1>4 DEF FlInv, InRead
  <2>5. Delivered = job.off
    BY <1>1, <1>t DEF Delivered
  <2>6. Len(dst) = job.off
    BY <1>4, <2>4, <2>5 DEF FlInv, InRead
  <2>7. Len(dst) < job.size + Word
    BY <2>4, <2>6, <1>t, Sizes
  <2>8. FlType'
    BY <1>1, <1>3, <2>2 DEF FlInv, FlType
  <2>9. AtRest'
    BY <2>3, <2>4, <2>7, <1>1 DEF AtRest
  <2> QED
    BY <1>3, <2>3, <2>8, <2>9 DEF FlInv, InTransfer, InRead, InProgram
<1>5. CASE job.op = "program"
  <2>1. job' = [job EXCEPT !.at = "end", !.blind = TRUE]
    BY <1>5 DEF InTimeout
  <2>2. job' \in Jobs
    <3>1. "end" \in Places
      BY DEF Places
    <3> QED
      BY <3>1, <2>1, <1>t DEF Jobs
  <2>3. /\ job'.op = "program" /\ job'.at = "end" /\ job'.blind = TRUE /\ job'.size = job.size /\ job'.src = job.src
        /\ job'.addr = job.addr /\ job'.off = job.off /\ job'.n = job.n
    BY <1>5, <2>1, <1>t DEF Jobs
  <2>4. FlType'
    BY <1>1, <1>3, <2>2 DEF FlInv, FlType
  <2>5. InProgram'
    BY <1>1, <1>5, <2>3 DEF FlInv, InProgram, PageSize
  <2> QED
    BY <1>3, <2>3, <2>4, <2>5 DEF FlInv, InTransfer, InRead, AtRest
<1> QED
  BY <1>2, <1>4, <1>5

\* Only a program is at these steps.
LEMMA Programming == ASSUME FlInv, job.at \in {"erase", "wip", "page"} PROVE job.op = "program"
<1>1. job.op \in Ops
  BY DEF FlInv, FlType, Jobs
<1> QED
  BY <1>1 DEF FlInv, AtRest, InRead, Ops

\* The bytes of a step of the flash.
LEMMA EraseKeepsFlash == ASSUME FlInv, EraseSector PROVE FlInv'
<1>1. job.at = "erase" /\ job.i < erased_sectors(job.size) /\ UNCHANGED <<fifo, dst, slow>>
  BY DEF EraseSector
<1>2. job.op = "program"
  BY <1>1, Programming
<1>t. job \in Jobs /\ job.i \in Nat /\ job.off \in Nat /\ job.size \in Nat /\ job.src \in Seq(Nat)
  BY DEF FlInv, FlType, Jobs
<1>3. /\ job.src # <<>> /\ job.size <= SrcLen(job.src) /\ job.size <= Low /\ job.addr % Sector = 0
      /\ job.off = 0 /\ job.off % Page = 0
  BY <1>1, <1>2 DEF FlInv, InProgram
<1>4. 0 < job.size
  BY <1>2 DEF FlInv, InProgram
<1>5. fifo'.left = 0 /\ fifo'.here = 0
  BY <1>1 DEF FlInv, InTransfer
<1>6. CASE WriteEnabled
  <2>1. PICK s : cells' = [a \in Bytes |-> IF a \in s .. s + Sector - 1 THEN Erased ELSE cells[a]]
    BY <1>6 DEF EraseSector
  <2>2. chip' = [chip EXCEPT !.busy = TRUE] /\ job' = [job EXCEPT !.at = "wip"]
    BY <1>6 DEF EraseSector
  <2>3. cells' \in [Bytes -> Int] /\ chip' \in [busy : BOOLEAN]
    <3>1. cells \in [Bytes -> Int] /\ chip \in [busy : BOOLEAN]
      BY DEF FlInv, FlType
    <3>2. cells' \in [Bytes -> Int]
      BY <3>1, <2>1 DEF Erased
    <3>3. chip' \in [busy : BOOLEAN]
      BY <3>1, <2>2
    <3> QED
      BY <3>2, <3>3
  <2>4. job' \in Jobs
    BY <2>2, <1>t DEF Jobs, Places
  <2>5. /\ job'.op = "program" /\ job'.at = "wip" /\ job'.i = job.i /\ job'.size = job.size /\ job'.src = job.src
        /\ job'.addr = job.addr /\ job'.off = 0
    BY <1>2, <1>3, <2>2, <1>t DEF Jobs
  <2>6. FlType'
    BY <1>1, <2>3, <2>4 DEF FlInv, FlType
  <2>7. Holds(job.off)'
    BY <2>5 DEF Holds
  <2>8. InProgram'
    <3>1. 0 <= job.size
      BY <1>4, <1>t
    <3> QED
      BY <1>3, <1>4, <2>5, <2>7, <3>1 DEF InProgram
  <2> QED
    BY <1>5, <2>5, <2>6, <2>8 DEF FlInv, InTransfer, InRead, AtRest
<1>7. CASE ~ WriteEnabled
  <2>1. UNCHANGED <<cells, chip>>
    BY <1>7 DEF EraseSector
  <2>2. PICK m \in Nat : m = job.i + 1
    BY <1>t
  <2>3. job' = [job EXCEPT !.i = m]
    BY <1>7, <2>2 DEF EraseSector
  <2>4. job' \in Jobs
    BY <2>2, <2>3, <1>t DEF Jobs
  <2>5. /\ job'.op = "program" /\ job'.at = "erase" /\ job'.size = job.size /\ job'.src = job.src
        /\ job'.addr = job.addr /\ job'.off = 0
    BY <1>1, <1>2, <1>3, <2>3, <1>t DEF Jobs
  <2>6. FlType'
    BY <1>1, <2>1, <2>4 DEF FlInv, FlType
  <2>7. Holds(job.off)'
    BY <2>5 DEF Holds
  <2>8. InProgram'
    <3>1. 0 <= job.size
      BY <1>4, <1>t
    <3> QED
      BY <1>3, <1>4, <2>5, <2>7, <3>1 DEF InProgram
  <2> QED
    BY <1>5, <2>5, <2>6, <2>8 DEF FlInv, InTransfer, InRead, AtRest
<1> QED
  BY <1>6, <1>7

\* A page is programmed where no page before it lies.
LEMMA PageKeepsFlash == ASSUME FlInv, do_page_program PROVE FlInv'
<1>1. job.at \in {"erase", "page"} /\ job.off < job.size /\ UNCHANGED <<fifo, dst>>
  BY DEF do_page_program
<1>2. job.op = "program"
  BY <1>1, Programming
<1>t. job \in Jobs /\ job.addr \in Nat /\ job.off \in Nat /\ job.size \in Nat /\ job.src \in Seq(Nat)
  BY DEF FlInv, FlType, Jobs
<1>3. /\ job.src # <<>> /\ 0 < job.size /\ job.size <= SrcLen(job.src) /\ job.size <= Low /\ job.addr % Sector = 0
      /\ job.off % Page = 0 /\ (job.blind \/ Holds(job.off))
  BY <1>2 DEF FlInv, InProgram
<1>4. PageSize \in 1 .. Page /\ job.off + PageSize <= job.size
  BY <1>1, <1>3, <1>t, NextPage
<1>s. job.off < SrcLen(job.src)
  <2>1. SrcLen(job.src) \in Nat
    BY <1>t, Sizes DEF SrcLen
  <2> QED
    BY <2>1, <1>1, <1>3, <1>t
<1>5. fifo'.left = 0 /\ fifo'.here = 0
  BY <1>1 DEF FlInv, InTransfer
<1>6. CASE WriteEnabled
  <2> DEFINE t == ThreeBytes(job.addr + job.off)
  <2>1. PICK n \in Sent : spi_page_program(t, n)
    BY <1>6 DEF do_page_program
  <2>2. n \in 0 .. PageSize /\ (n < PageSize => slow < MaxSlow)
    BY <2>1, <1>4, SentOfPage
  <2>3. cells' = [b \in Bytes |-> IF b \in t .. t + n - 1
                    THEN (IF cells[b] = Erased THEN SrcByte(job.src, job.off) ELSE Spoilt) ELSE cells[b]]
    BY <2>1 DEF spi_page_program
  <2> HIDE DEF t
  <2>4. SrcByte(job.src, job.off) \in Int
    BY <1>s, <1>t, TagIsNumber
  <2>5. cells' \in [Bytes -> Int]
    BY <2>3, <2>4 DEF FlInv, FlType, Spoilt
  <2>6. slow' \in 0 .. MaxSlow
    <3>1. slow \in 0 .. MaxSlow /\ (slow' = slow \/ (slow' = slow + 1 /\ n < PageSize))
      BY <2>1 DEF spi_page_program, FlInv, FlType
    <3> QED
      BY <3>1, <2>2, Sizes
  <2>7. chip' \in [busy : BOOLEAN]
    <3>1. chip \in [busy : BOOLEAN] /\ chip' = [chip EXCEPT !.busy = n > 0]
      BY <2>1 DEF spi_page_program, FlInv, FlType
    <3>2. CASE n > 0
      <4>1. chip' = [chip EXCEPT !.busy = TRUE]
        BY <3>1, <3>2
      <4> QED
        BY <3>1, <4>1
    <3>3. CASE ~ (n > 0)
      <4>0. (n > 0) = FALSE
        BY <3>3, <2>2
      <4>1. chip' = [chip EXCEPT !.busy = FALSE]
        BY <3>1, <4>0
      <4> QED
        BY <3>1, <4>1
    <3> QED
      BY <3>2, <3>3
  <2>8. erased_sectors(job.size) \in Nat
    <3>1. Sector \in Nat \ {0} /\ U8 \in Nat \ {0} /\ job.size + Sector \in Nat
      BY <1>t, Sizes
    <3>2. (job.size + Sector) \div Sector \in Nat
      BY <3>1, DivMod
    <3>3. ((job.size + Sector) \div Sector) % U8 \in Nat
      BY <3>1, <3>2, DivMod
    <3> QED
      BY <3>3 DEF erased_sectors
  <2>9. job' = [job EXCEPT !.at = "wip", !.i = erased_sectors(job.size)]
    BY <1>6 DEF do_page_program
  <2>10. job' \in Jobs
    BY <2>8, <2>9, <1>t DEF Jobs, Places
  <2>11. /\ job'.op = "program" /\ job'.at = "wip" /\ job'.size = job.size /\ job'.src = job.src
         /\ job'.addr = job.addr /\ job'.off = job.off /\ job'.i = erased_sectors(job.size) /\ job'.blind = job.blind
    BY <1>2, <2>9, <1>t DEF Jobs
  <2>12. FlType'
    BY <1>1, <2>5, <2>6, <2>7, <2>10 DEF FlInv, FlType
  <2>13. PageSize \in Nat /\ job.off + PageSize <= Low
    <3>1. job.off \in Nat /\ job.size \in Nat /\ job.size <= Low /\ Low \in Nat
      BY <1>3, <1>t, Sizes
    <3>2. PageSize \in Nat
      BY <1>4, Sizes
    <3> QED
      BY <3>1, <3>2, <1>4
  <2>14. ASSUME Holds(job.off) PROVE Holds(job.off)'
    <3> SUFFICES ASSUME NEW k \in 0 .. job.off - 1
                 PROVE  job.addr + k \in Bytes /\ cells'[job.addr + k] = SrcByte(job.src, k)
      BY <2>11 DEF Holds
    <3>1. job.addr + k \in Bytes /\ cells[job.addr + k] = SrcByte(job.src, k)
      BY <2>14 DEF Holds
    <3>2. ~ (job.addr + k \in t .. t + n - 1)
      BY <2>2, <2>13, <1>t, PagesApart DEF t
    <3> QED
      BY <3>1, <3>2, <2>3
  <2>15. 0 <= job.size /\ ~ (job'.i < erased_sectors(job'.size))
    BY <2>8, <2>11, <1>t
  <2>16. InProgram'
    <3>1. job'.blind \/ Holds(job.off)'
      BY <1>3, <2>11, <2>14
    <3>2. job.off <= job.size
      BY <1>1, <1>t
    <3> QED
      BY <1>1, <1>3, <2>11, <2>15, <3>1, <3>2 DEF InProgram
  <2> QED
    BY <1>5, <2>11, <2>12, <2>16 DEF FlInv, InTransfer, InRead, AtRest
<1>7. CASE ~ WriteEnabled
  <2>1. UNCHANGED <<cells, chip, slow>> /\ job' = [job EXCEPT !.op = "done", !.at = "none", !.ret = -1]
    BY <1>7 DEF do_page_program
  <2>2. job' \in Jobs
    <3>1. "done" \in Ops /\ "none" \in Places /\ -1 \in Int
      BY DEF Places, Ops
    <3> QED
      BY <3>1, <2>1, <1>t DEF Jobs
  <2>3. job'.op = "done" /\ job'.at = "none" /\ job'.ret = -1 /\ job'.src = job.src
    BY <2>1, <1>t DEF Jobs
  <2>4. FlType'
    BY <1>1, <2>1, <2>2 DEF FlInv, FlType
  <2> QED
    BY <1>3, <1>5, <2>3, <2>4 DEF FlInv, InTransfer, InRead, InProgram, AtRest
<1> QED
  BY <1>6, <1>7

\* The wait is over: the next sector, or the page is read back.
LEMMA WaitKeepsFlash == ASSUME FlInv, WipOver PROVE FlInv'
<1>1. job.at = "wip" /\ UNCHANGED <<cells, chip>>
  BY DEF WipOver
<1>2. job.op = "program"
  BY <1>1, Programming
<1>t. job \in Jobs /\ job.addr \in Nat /\ job.off \in Nat /\ job.size \in Nat /\ job.i \in Nat /\ job.src \in Seq(Nat)
  BY DEF FlInv, FlType, Jobs
<1>3. /\ job.src # <<>> /\ 0 < job.size /\ job.size <= SrcLen(job.src) /\ job.size <= Low /\ job.addr % Sector = 0
      /\ job.off % Page = 0 /\ job.off < job.size /\ (job.i < erased_sectors(job.size) => job.off = 0)
      /\ job.off <= job.size /\ (job.blind \/ Holds(job.off))
  BY <1>1, <1>2 DEF FlInv, InProgram
<1>4. slow' \in 0 .. MaxSlow
  <2>1. slow \in 0 .. MaxSlow /\ (slow' = slow \/ (slow' = slow + 1 /\ slow < MaxSlow))
    BY DEF WipOver, FlInv, FlType
  <2> QED
    BY <2>1, Sizes
<1>5. fifo.left = 0 /\ fifo.here = 0
  BY <1>1 DEF FlInv, InTransfer
<1>6. CASE job.i < erased_sectors(job.size)
  <2>1. PICK m \in Nat : m = job.i + 1
    BY <1>t
  <2>2. job' = [job EXCEPT !.at = "erase", !.i = m] /\ UNCHANGED <<fifo, dst>>
    BY <1>6, <2>1 DEF WipOver
  <2>3. job' \in Jobs
    BY <2>1, <2>2, <1>t DEF Jobs, Places
  <2>4. /\ job'.op = "program" /\ job'.at = "erase" /\ job'.size = job.size /\ job'.src = job.src
        /\ job'.addr = job.addr /\ job'.off = job.off /\ job'.blind = job.blind
    BY <1>2, <2>2, <1>t DEF Jobs
  <2>5. FlType'
    BY <1>1, <1>4, <2>2, <2>3 DEF FlInv, FlType
  <2>6. InProgram'
    BY <1>1, <1>3, <1>6, <2>4 DEF InProgram, Holds
  <2> QED
    BY <1>5, <2>2, <2>4, <2>5, <2>6 DEF FlInv, InTransfer, InRead, AtRest
<1>7. CASE ~ (job.i < erased_sectors(job.size))
  <2>0. PICK n \in 1 .. Page : n = PageSize
    BY <1>3, <1>t, NextPage
  <2>1. job' = [job EXCEPT !.at = "in", !.n = n, !.got = 0] /\ UNCHANGED dst
    BY <1>7, <2>0 DEF WipOver
  <2>2. fifo' = [from |-> spi_data_read(job.addr + job.off), left |-> n, here |-> 0]
    BY <1>7, <2>0 DEF WipOver, StartTran
  <2>3. spi_data_read(job.addr + job.off) = job.addr + job.off /\ job.addr + job.off \in Nat
    BY <1>t, AddressItself
  <2>4. job' \in Jobs
    <3>1. n \in Nat /\ 0 \in Nat /\ "in" \in Places
      BY Sizes DEF Places
    <3> QED
      BY <3>1, <2>1, <1>t DEF Jobs
  <2>5. /\ job'.op = "program" /\ job'.at = "in" /\ job'.size = job.size /\ job'.src = job.src /\ job'.n = n
        /\ job'.got = 0 /\ job'.addr = job.addr /\ job'.off = job.off /\ job'.blind = job.blind
    BY <1>2, <2>1, <1>t DEF Jobs
  <2>6. fifo' \in [from : Nat, left : Nat, here : Nat]
    BY <2>2, <2>3, Sizes
  <2>8. FlType'
    BY <1>1, <1>4, <2>1, <2>4, <2>6 DEF FlInv, FlType
  <2>9. InTransfer'
    <3>1. 0 % Fifo = 0
      <4>1. Fifo \in Nat \ {0} /\ Fifo * 0 = 0 /\ 0 \in Nat
        BY Sizes
      <4> QED
        BY <4>1, MultipleIs
    <3>2. fifo'.from = job.addr + job.off + 0 /\ fifo'.left = n - 0 /\ fifo'.here = 0
      BY <2>2, <2>3, <1>t, Sizes
    <3> QED
      BY <3>1, <3>2, <2>0, <2>5, Sizes DEF InTransfer
  <2>10. InProgram'
    <3>1. PageSize' = n
      BY <2>0, <2>5 DEF PageSize
    <3> QED
      BY <1>1, <1>3, <1>7, <2>5, <3>1 DEF InProgram, Holds
  <2> QED
    BY <2>5, <2>8, <2>9, <2>10 DEF FlInv, InRead, AtRest
<1> QED
  BY <1>6, <1>7

\* A page that was compared is in the flash.
LEMMA PageIsThere ==
    ASSUME FlInv, job.op = "program", job.at = "end", ~ job.blind,
           \A k \in 1 .. PageSize : dst[k] = SrcByte(job.src, job.off)
    PROVE  Holds(job.off + PageSize)
<1>t. job.addr \in Nat /\ job.off \in Nat /\ job.size \in Nat /\ job.src \in Seq(Nat)
  BY DEF FlInv, FlType, Jobs
<1>1. /\ Holds(job.off) /\ Compared(PageSize) /\ job.off % Page = 0
      /\ job.off < job.size /\ job.size <= SrcLen(job.src)
  BY DEF FlInv, InProgram
<1>2. SrcByte(job.src, job.off) \in Nat
  <2>1. SrcLen(job.src) \in Nat
    BY <1>t, Sizes DEF SrcLen
  <2> QED
    BY <2>1, <1>1, <1>t, TagIsNumber
<1>x. PICK x \in 1 .. Page : x = PageSize
  BY <1>1, <1>t, NextPage
<1>m. PICK m \in Nat : m = job.off + x
  BY <1>t, <1>x
<1> SUFFICES Holds(m)
  BY <1>m, <1>x
<1> SUFFICES ASSUME NEW k \in 0 .. m - 1
             PROVE  job.addr + k \in Bytes /\ cells[job.addr + k] = SrcByte(job.src, k)
  BY DEF Holds
<1>y. Page \in Nat /\ x \in Nat /\ x <= Page /\ job.addr \in Nat /\ job.off \in Nat
  BY <1>x, <1>t, Sizes
<1>p. x <= Page /\ k \in Nat /\ k <= job.off + x - 1
  BY <1>m, <1>y
<1>3. CASE k < job.off
  <2>1. k \in 0 .. job.off - 1
    BY <1>3, <1>p, <1>y
  <2> QED
    BY <2>1, <1>1 DEF Holds
<1>4. CASE ~ (k < job.off)
  <2>1. PICK j \in 0 .. x - 1 : k = job.off + j
    <3>1. k - job.off \in 0 .. x - 1 /\ k = job.off + (k - job.off)
      BY <1>4, <1>p, <1>y
    <3> QED
      BY <3>1
  <2>2. SrcByte(job.src, k) = SrcByte(job.src, job.off)
    <3>1. j \in 0 .. Page - 1
      BY <1>p, <1>y
    <3> QED
      BY <3>1, <2>1, <1>1, <1>t, SameTag
  <2>3. j + 1 \in 1 .. x /\ job.addr + job.off + (j + 1) - 1 = job.addr + k
    <3>1. j \in Nat /\ j <= x - 1
      BY <2>1, <1>y
    <3> QED
      BY <3>1, <2>1, <1>y
  <2>4. PICK v : v = dst[j + 1]
    OBVIOUS
  <2>5. v = SrcByte(job.src, job.off) /\ Fetched(v, job.addr + k)
    BY <2>3, <2>4, <1>1, <1>x DEF Compared
  <2>6. v # Spoilt
    BY <2>5, <1>2 DEF Spoilt
  <2> QED
    BY <2>2, <2>5, <2>6 DEF Fetched
<1> QED
  BY <1>3, <1>4

\* A page that compares equal was read from the flash, so that the flash has it.
LEMMA VerifyKeepsFlash == ASSUME FlInv, Verify PROVE FlInv'
<1>1. job.op = "program" /\ job.at = "end" /\ UNCHANGED <<cells, chip, fifo, dst, slow>>
  BY DEF Verify
<1>t. job \in Jobs /\ job.addr \in Nat /\ job.off \in Nat /\ job.size \in Nat /\ job.src \in Seq(Nat)
  BY DEF FlInv, FlType, Jobs
<1>3. /\ job.src # <<>> /\ 0 < job.size /\ job.size <= SrcLen(job.src) /\ job.size <= Low /\ job.addr % Sector = 0
      /\ job.off % Page = 0 /\ job.off < job.size /\ (job.blind \/ Compared(PageSize))
  BY <1>1 DEF FlInv, InProgram
<1>5. fifo.left = 0 /\ fifo.here = 0
  BY <1>1 DEF FlInv, InTransfer
<1>6. PICK same \in BOOLEAN :
         /\ Len(dst) >= PageSize => same = (\A k \in 1 .. PageSize : dst[k] = SrcByte(job.src, job.off))
         /\ job' = IF ~same THEN [job EXCEPT !.op = "done", !.at = "none", !.ret = -1]
                   ELSE IF job.off + PageSize = job.size
                     THEN [job EXCEPT !.op = "done", !.at = "none", !.off = job.size, !.ret = 0]
                   ELSE [job EXCEPT !.at = "page", !.off = @ + PageSize]
  BY DEF Verify
<1>7. PICK m \in Nat : m = job.off + PageSize
  <2>1. PageSize \in 1 .. Page
    BY <1>3, <1>t, NextPage
  <2>2. job.off + PageSize \in Nat
    BY <2>1, <1>t, Sizes
  <2> QED
    BY <2>2
<1>8. m <= job.size /\ (m # job.size => m % Page = 0)
  BY <1>3, <1>7, <1>t, NextPage
<1>9. ASSUME same PROVE job.blind \/ Holds(m)
  <2> SUFFICES ASSUME ~ job.blind PROVE Holds(m)
    OBVIOUS
  <2>1. Len(dst) >= PageSize
    BY <1>3 DEF Compared
  <2>2. \A k \in 1 .. PageSize : dst[k] = SrcByte(job.src, job.off)
    BY <2>1, <1>6, <1>9
  <2> QED
    BY <2>2, <1>1, <1>7, PageIsThere
<1>10. "done" \in Ops /\ "none" \in Places /\ "page" \in Places /\ -1 \in Int /\ 0 \in Int
  BY DEF Places, Ops
<1>11. CASE ~ same
  <2>1. job' = [job EXCEPT !.op = "done", !.at = "none", !.ret = -1]
    BY <1>6, <1>11
  <2>2. job' \in Jobs
    BY <2>1, <1>10, <1>t DEF Jobs
  <2>3. job'.op = "done" /\ job'.at = "none" /\ job'.ret = -1 /\ job'.src = job.src
    BY <2>1, <1>t DEF Jobs
  <2>4. FlType'
    BY <1>1, <2>2 DEF FlInv, FlType
  <2> QED
    BY <1>1, <1>3, <1>5, <2>3, <2>4 DEF FlInv, InTransfer, InRead, InProgram, AtRest
<1>12. CASE same /\ m = job.size
  <2>1. job' = [job EXCEPT !.op = "done", !.at = "none", !.off = job.size, !.ret = 0]
    BY <1>6, <1>7, <1>12
  <2>2. job' \in Jobs
    BY <2>1, <1>10, <1>7, <1>t DEF Jobs
  <2>3. /\ job'.op = "done" /\ job'.at = "none" /\ job'.src = job.src /\ job'.size = job.size
        /\ job'.addr = job.addr /\ job'.blind = job.blind
    BY <2>1, <1>t DEF Jobs
  <2>4. FlType'
    BY <1>1, <2>2 DEF FlInv, FlType
  <2>5. AtRest'
    BY <1>1, <1>3, <1>9, <1>12, <2>3 DEF AtRest, Holds
  <2> QED
    BY <1>1, <1>5, <2>3, <2>4, <2>5 DEF FlInv, InTransfer, InRead, InProgram
<1>13. CASE same /\ m # job.size
  <2>1. job' = [job EXCEPT !.at = "page", !.off = m]
    BY <1>6, <1>7, <1>13
  <2>2. job' \in Jobs
    BY <2>1, <1>10, <1>7, <1>t DEF Jobs
  <2>3. /\ job'.op = "program" /\ job'.at = "page" /\ job'.src = job.src /\ job'.size = job.size /\ job'.off = m
        /\ job'.addr = job.addr /\ job'.blind = job.blind
    BY <1>1, <2>1, <1>t DEF Jobs
  <2>4. FlType'
    BY <1>1, <2>2 DEF FlInv, FlType
  <2>5. InProgram'
    BY <1>1, <1>3, <1>8, <1>9, <1>13, <2>3 DEF InProgram, Holds
  <2> QED
    BY <1>1, <1>5, <2>3, <2>4, <2>5 DEF FlInv, InTransfer, InRead, AtRest
<1> QED
  BY <1>11, <1>12, <1>13

\* Nothing changes.
LEMMA FlashStutter == ASSUME FlInv, UNCHANGED flVars PROVE FlInv'
<1>0. UNCHANGED <<cells, chip, fifo, job, dst, slow>>
  BY DEF flVars
<1>1. FlType'
  BY <1>0 DEF FlInv, FlType
<1>2. InTransfer'
  BY <1>0 DEF FlInv, InTransfer, XferSize
<1>3. InRead'
  BY <1>0 DEF FlInv, InRead, Delivered, Copied, Content
<1>4. InProgram'
  BY <1>0 DEF FlInv, InProgram, Compared, Fetched, Holds, PageSize
<1>5. AtRest'
  BY <1>0 DEF FlInv, AtRest, Holds, Copied, Content
<1> QED
  BY <1>1, <1>2, <1>3, <1>4, <1>5 DEF FlInv

\* What the run checks follows from the invariant.
LEMMA FlashStateExact == FlInv => FlashExact
<1> SUFFICES ASSUME FlInv PROVE FlashExact
  OBVIOUS
<1>t. /\ job \in Jobs /\ job.op \in Ops /\ job.n \in Nat /\ job.got \in Nat /\ job.off \in Nat /\ job.size \in Nat
      /\ dst \in Seq(Int) /\ fifo \in [from : Nat, left : Nat, here : Nat]
  BY DEF FlInv, FlType, Jobs
<1>1. FlashTypeOK
  <2>1. fifo.left \in 0 .. Tran /\ fifo.here \in 0 .. Fifo
    <3>1. CASE job.at # "in"
      BY <3>1, Sizes DEF FlInv, InTransfer
    <3>2. CASE job.at = "in"
      <4>1. job.got < job.n /\ job.n <= Tran /\ fifo.left = job.n - job.got /\ fifo.here \in {0, XferSize}
        BY <3>2 DEF FlInv, InTransfer
      <4>2. XferSize \in 0 .. Fifo
        BY <4>1, <1>t, Sizes DEF XferSize, Least
      <4> QED
        BY <4>1, <4>2, <1>t, Sizes
    <3> QED
      BY <3>1, <3>2
  <2> QED
    BY <2>1, <1>t DEF FlashTypeOK, FlInv, FlType, Ops
<1>2. FlashReadExact
  BY <1>t DEF FlashReadExact, FlInv, AtRest, Copied
<1>3. OverrunBelowWord
  <2> SUFFICES ASSUME job.src = <<>> PROVE Len(dst) < job.size + Word
    BY DEF OverrunBelowWord
  <2>1. CASE job.op = "idle"
    <3>1. Len(dst) = 0
      BY <2>1 DEF FlInv, AtRest
    <3> QED
      BY <3>1, <1>t, Sizes
  <2>2. CASE job.op = "read"
    <3>1. CASE Delivered = job.size
      BY <2>2, <3>1 DEF FlInv, InRead
    <3>2. CASE Delivered < job.size
      <4>1. Len(dst) = Delivered
        BY <2>2, <3>2 DEF FlInv, InRead
      <4> QED
        BY <3>2, <4>1, <1>t, Sizes
    <3>3. Delivered \in Nat /\ Delivered <= job.size
      <4>1. CASE job.at = "frame"
        BY <2>2, <4>1, <1>t DEF FlInv, InRead, Delivered
      <4>2. CASE job.at \in {"in", "end"}
        <5>1. job.off < job.size /\ job.n = Least(Tran, job.size - job.off)
          BY <2>2, <4>2 DEF FlInv, InRead
        <5>2. job.off + job.n <= job.size
          BY <5>1, <1>t, Sizes DEF Least
        <5>3. job.at = "in" => job.got < job.n
          BY DEF FlInv, InTransfer
        <5> QED
          BY <4>2, <5>2, <5>3, <1>t DEF Delivered
      <4> QED
        BY <2>2, <4>1, <4>2 DEF FlInv, InRead
    <3> QED
      BY <3>1, <3>2, <3>3, <1>t
  <2>3. CASE job.op \in {"cfi", "done"}
    BY <2>3 DEF FlInv, AtRest
  <2>4. job.op # "program"
    BY DEF FlInv, InProgram
  <2> QED
    BY <2>1, <2>2, <2>3, <2>4, <1>t DEF Ops
<1>4. ProgramVerified
  <2> SUFFICES ASSUME job.op = "done", job.src # <<>>, job.ret = 0, ~ job.blind
               PROVE  \A k \in 0 .. job.size - 1 : cells[job.addr + k] = SrcByte(job.src, k)
    BY DEF ProgramVerified
  <2>1. Holds(job.size)
    BY DEF FlInv, AtRest
  <2> QED
    BY <2>1 DEF Holds
<1> QED
  BY <1>1, <1>2, <1>3, <1>4 DEF FlashExact

\* The data of every program fits what three address bytes reach.
ProgramsFit == \A p \in Programs : SrcLen(p[2]) - p[3] <= Low

\* Every step keeps the invariant.
LEMMA FlashKept == ASSUME ProgramsFit PROVE FlInv /\ [FlashNext]_flVars => FlInv'
<1>r. ASSUME NEW r \in Reads PROVE r[1] \in Nat /\ r[2] \in Nat
  <2>1. r \in Nat \X Nat
    BY FlashAssumption
  <2> QED
    BY <2>1
<1> SUFFICES ASSUME FlInv, [FlashNext]_flVars PROVE FlInv'
  OBVIOUS
<1>1. ASSUME NEW r \in Reads, ReadRequest(r[1], r[2]) \/ CfiRead(r[1], r[2]) PROVE FlInv'
  <2>1. r[1] \in Nat /\ r[2] \in Nat
    BY <1>r
  <2> QED
    BY <1>1, <2>1, ReadBegins, CfiReads
<1>2. ASSUME NEW p \in Programs, ProgramRequest(p[1], p[2], p[3]) PROVE FlInv'
  <2>1. /\ p[1] \in Nat /\ p[2] \in Seq(Nat) /\ p[2] # <<>> /\ p[3] \in 0 .. Page - 1
        /\ SrcLen(p[2]) - p[3] <= Low
    BY FlashAssumption DEF ProgramsFit
  <2> QED
    BY <1>2, <2>1, ProgramBegins
<1>3. ASSUME DriverRuns PROVE FlInv'
  BY <1>3, LoadKeepsFlash, FrameKeepsFlash, FrameDoneKeepsFlash, ReturnKeepsFlash, EraseKeepsFlash,
     PageKeepsFlash, WaitKeepsFlash, VerifyKeepsFlash DEF DriverRuns
<1>4. ASSUME InTimeout PROVE FlInv'
  BY <1>4, TimeoutKeepsFlash
<1>5. ASSUME FifoFill PROVE FlInv'
  BY <1>5, FillKeepsFlash
<1>6. ASSUME ChipReady PROVE FlInv'
  BY <1>6, ReadyKeepsFlash
<1>7. ASSUME UNCHANGED flVars PROVE FlInv'
  BY <1>7, FlashStutter
<1> QED
  BY <1>1, <1>2, <1>3, <1>4, <1>5, <1>6, <1>7 DEF FlashNext

\* Reads of both drivers deliver the bytes of the flash at their places and
\* write less than a word past them; a program reports success only with its
\* data in the flash, unless a comparison ran without data (spi_data_read's
\* result is dropped in do_page_program).  For data that three address bytes
\* reach: beyond, a program erases what it has verified.
THEOREM FlashDriverIsExact == ASSUME ProgramsFit PROVE FlashSpec => []FlashExact
<1>1. FlInv /\ [FlashNext]_flVars => FlInv'
  BY FlashKept
<1> QED
  BY <1>1, FlashStarts, FlashStateExact, PTL DEF FlashSpec

\* A sector or a page does not wrap: its bytes are those that follow its start.
LEMMA NoWrap ==
    ASSUME NEW d \in Nat \ {0}, Low % d = 0, NEW x \in Nat, x % d = 0, NEW j \in 0 .. d - 1
    PROVE  /\ ThreeBytes(x) \in Nat
           /\ ThreeBytes(x) + j = (x + j) % Low
<1>0. Low \in Nat \ {0}
  BY Sizes
<1> DEFINE t == x % Low
           q == x \div Low
<1>1. q \in Nat /\ t \in 0 .. Low - 1 /\ x = Low * q + t
  BY <1>0, DivMod
<1>2. t % d = 0
  <2>1. PICK m \in Nat : m = Low * q /\ m % Low = 0
    BY <1>0, <1>1, MultipleIs
  <2>2. m % d = 0
    BY <1>0, <2>1, MultipleOfMultiple
  <2>3. m <= x /\ x - m = t
    BY <1>0, <1>1, <2>1
  <2> QED
    BY <2>1, <2>2, <2>3, Multiples
<1>3. t + d <= Low
  BY <1>0, <1>1, <1>2, Multiples
<1>4. t + j \in 0 .. Low - 1 /\ x + j = Low * q + (t + j)
  <2>1. PICK m \in Nat : m = Low * q
    BY <1>0, <1>1
  <2> QED
    BY <1>0, <1>1, <1>3, <2>1
<1>5. (Low * q + (t + j)) % Low = t + j
  BY <1>0, <1>1, <1>4, Quotient
<1> QED
  BY <1>1, <1>4, <1>5 DEF ThreeBytes

\* The sectors of a program.
SectorsOf(size) == size \div Sector + 1

\* bm_spi_flash_program erases at most one sector more than the data has.
LEMMA SectorsErased ==
    ASSUME NEW size \in Nat
    PROVE  /\ SectorsOf(size) \in Nat /\ erased_sectors(size) \in Nat
           /\ erased_sectors(size) <= SectorsOf(size)
           /\ Sector * SectorsOf(size) \in Nat /\ size < Sector * SectorsOf(size)
<1>0. Sector \in Nat \ {0} /\ U8 \in Nat \ {0}
  BY Sizes
<1> DEFINE q == size \div Sector
           r == size % Sector
<1>1. q \in Nat /\ r \in 0 .. Sector - 1 /\ size = Sector * q + r
  BY <1>0, DivMod
<1>2. PICK m \in Nat : m = Sector * q
  BY <1>0, <1>1
<1>3. Sector * (q + 1) = m + Sector
  BY <1>0, <1>1, <1>2
<1>4. size + Sector = Sector * (q + 1) + r /\ q + 1 \in Nat
  BY <1>0, <1>1, <1>2, <1>3
<1>5. (size + Sector) \div Sector = q + 1
  BY <1>0, <1>1, <1>4, Quotient
<1>6. PICK e \in Nat : e = q + 1
  BY <1>1
<1>7. e % U8 \in Nat /\ e % U8 <= e
  <2>1. e \div U8 \in Nat /\ e % U8 \in 0 .. U8 - 1 /\ e = U8 * (e \div U8) + (e % U8)
    BY <1>0, <1>6, DivMod
  <2>2. PICK n \in Nat : n = U8 * (e \div U8)
    BY <1>0, <2>1
  <2> QED
    BY <1>0, <2>1, <2>2
<1> QED
  BY <1>0, <1>1, <1>2, <1>3, <1>5, <1>6, <1>7 DEF SectorsOf, erased_sectors

\* An erased sector is one of the program's.
LEMMA EraseStays == ASSUME FlInv, EraseSector PROVE ProgramStays
<1> SUFFICES ASSUME NEW a \in Bytes, cells'[a] # cells[a]
             PROVE  \E k \in 0 .. Sector * SectorsOf(job.size) - 1 : a = (job.addr + k) % Low
  BY DEF ProgramStays, SectorsOf
<1>0. Sector \in Nat \ {0} /\ a \in Nat /\ Low % Sector = 0
  BY Sizes DEF Bytes
<1>1. job.at = "erase" /\ job.i < erased_sectors(job.size)
  BY DEF EraseSector
<1>2. job.addr % Sector = 0
  BY <1>1, Programming DEF FlInv, InProgram
<1>3. PICK i \in Nat, addr \in Nat, size \in Nat : i = job.i /\ addr = job.addr /\ size = job.size
  BY DEF FlInv, FlType, Jobs
<1>4. PICK m \in Nat : m = Sector * i /\ m % Sector = 0
  BY <1>0, <1>3, MultipleIs
<1>5. (addr + m) % Sector = 0
  BY <1>0, <1>2, <1>3, <1>4, Multiples
<1> DEFINE s == ThreeBytes(addr + m)
<1>6. cells' = cells \/ cells' = [b \in Bytes |-> IF b \in s .. s + Sector - 1 THEN Erased ELSE cells[b]]
  <2>1. job.addr + job.i * Sector = addr + m
    BY <1>0, <1>3, <1>4
  <2> QED
    BY <2>1 DEF EraseSector
<1>7. addr + m \in Nat
  BY <1>3, <1>4
<1>8. s \in Nat
  <2>1. 0 \in 0 .. Sector - 1
    BY <1>0
  <2> QED
    BY <1>0, <1>5, <1>7, <2>1, NoWrap
<1>9. a \in s .. s + Sector - 1
  BY <1>6
<1>10. PICK j \in 0 .. Sector - 1 : a = s + j
  <2> HIDE DEF s
  <2>1. a - s \in 0 .. Sector - 1 /\ a = s + (a - s)
    BY <1>0, <1>8, <1>9
  <2> QED
    BY <2>1
<1>11. a = (addr + m + j) % Low
  BY <1>0, <1>5, <1>7, <1>10, NoWrap
<1>12. m + j \in 0 .. Sector * SectorsOf(size) - 1 /\ addr + m + j = addr + (m + j)
  <2>1. i < SectorsOf(size) /\ SectorsOf(size) \in Nat /\ Sector * SectorsOf(size) \in Nat
    BY <1>1, <1>3, SectorsErased
  <2>2. Sector * i + Sector <= Sector * SectorsOf(size)
    BY <1>0, <1>3, <2>1, Steps
  <2> QED
    BY <1>0, <1>3, <1>4, <1>10, <2>1, <2>2
<1> QED
  BY <1>3, <1>11, <1>12

\* A programmed page is one of the program's.
LEMMA PageStays == ASSUME FlInv, do_page_program PROVE ProgramStays
<1> SUFFICES ASSUME NEW a \in Bytes, cells'[a] # cells[a]
             PROVE  \E k \in 0 .. Sector * SectorsOf(job.size) - 1 : a = (job.addr + k) % Low
  BY DEF ProgramStays, SectorsOf
<1>a. Sector \in Nat \ {0} /\ Page \in Nat \ {0} /\ Low \in Nat \ {0} /\ a \in Nat /\ Low % Sector = 0 /\ Sector % Page = 0
  BY Sizes DEF Bytes
<1>b. Low % Page = 0
  BY <1>a, MultipleOfMultiple
<1>0. Sector \in Nat \ {0} /\ Page \in Nat \ {0} /\ Low \in Nat \ {0} /\ a \in Nat /\ Low % Page = 0 /\ Sector % Page = 0
  BY <1>a, <1>b
<1>1. job.at \in {"erase", "page"} /\ job.off < job.size
  BY DEF do_page_program
<1>2. job.addr % Sector = 0 /\ job.off % Page = 0
  BY <1>1, Programming DEF FlInv, InProgram
<1>3. PICK off \in Nat, addr \in Nat, size \in Nat : off = job.off /\ addr = job.addr /\ size = job.size
  BY DEF FlInv, FlType, Jobs
<1>4. PICK x \in 1 .. Page : x = PageSize /\ off + x <= size
  BY <1>1, <1>2, <1>3, NextPage
<1>5. (addr + off) % Page = 0 /\ addr + off \in Nat
  <2>1. addr % Page = 0
    BY <1>0, <1>2, <1>3, MultipleOfMultiple
  <2>2. off % Page = 0
    BY <1>2, <1>3
  <2>3. Page \in Nat \ {0}
    BY <1>0
  <2>4. (addr + off) % Page = 0
    BY <2>1, <2>2, <2>3, Multiples
  <2> QED
    BY <2>4
<1> DEFINE s == ThreeBytes(addr + off)
<1>6. cells' = cells \/ \E n \in Sent : spi_page_program(s, n)
  BY <1>3 DEF do_page_program
<1>7. PICK n \in Sent : spi_page_program(s, n)
  BY <1>6
<1>8. n \in Nat /\ n <= x
  <2>1. n \in 0 .. PageSize
    BY <1>4, <1>7, SentOfPage
  <2> QED
    BY <2>1, <1>4
<1>9. a \in s .. s + n - 1
  BY <1>7 DEF spi_page_program
<1>10. s \in Nat
  <2>1. 0 \in 0 .. Page - 1
    BY <1>0
  <2> QED
    BY <1>0, <1>5, <2>1, NoWrap
<1>11. PICK j \in 0 .. Page - 1 : a = s + j /\ j < x
  <2> HIDE DEF s
  <2>1. a - s \in 0 .. Page - 1 /\ a = s + (a - s) /\ a - s < x
    BY <1>0, <1>4, <1>8, <1>9, <1>10
  <2> QED
    BY <2>1
<1>12. a = (addr + off + j) % Low
  BY <1>0, <1>5, <1>11, NoWrap
<1>13. off + j \in 0 .. Sector * SectorsOf(size) - 1 /\ addr + off + j = addr + (off + j)
  <2>1. size < Sector * SectorsOf(size) /\ Sector * SectorsOf(size) \in Nat
    BY <1>3, SectorsErased
  <2> QED
    BY <1>0, <1>3, <1>4, <1>11, <2>1
<1> QED
  BY <1>3, <1>12, <1>13

\* No step of the flash, its driver or another part changes what a program was
\* not asked for.
LEMMA FlashStepsKeep == FlInv /\ [FlashNext]_flVars => ProgramStays
<1> SUFFICES ASSUME FlInv, [FlashNext]_flVars PROVE ProgramStays
  OBVIOUS
<1>1. ASSUME UNCHANGED cells PROVE ProgramStays
  BY <1>1 DEF ProgramStays
<1>2. ASSUME DriverRuns PROVE ProgramStays
  <2>1. CASE EraseSector
    BY <2>1, EraseStays
  <2>2. CASE do_page_program
    BY <2>2, PageStays
  <2>3. CASE spi_data_in_tran \/ bm_spi_flash_read \/ FrameDone \/ ReadReturns \/ WipOver \/ Verify
    BY <2>3, <1>1 DEF spi_data_in_tran, bm_spi_flash_read, FrameDone, ReadReturns, WipOver, Verify
  <2> QED
    BY <1>2, <2>1, <2>2, <2>3 DEF DriverRuns
<1>3. ASSUME NEW r \in Reads, ReadRequest(r[1], r[2]) \/ CfiRead(r[1], r[2]) PROVE UNCHANGED cells
  BY <1>3 DEF ReadRequest, CfiRead
<1>4. ASSUME NEW p \in Programs, ProgramRequest(p[1], p[2], p[3]) PROVE UNCHANGED cells
  BY <1>4 DEF ProgramRequest
<1>5. ASSUME InTimeout \/ FifoFill \/ ChipReady PROVE UNCHANGED cells
  BY <1>5 DEF InTimeout, FifoFill, ChipReady
<1> QED
  BY <1>1, <1>2, <1>3, <1>4, <1>5 DEF FlashNext, flVars

\* Programming changes only its own sectors and the one after them, modulo what
\* three address bytes reach.
THEOREM FlashProgramStays == ASSUME ProgramsFit PROVE FlashSpec => [][ProgramStays]_flVars
<1>1. FlInv /\ [FlashNext]_flVars => [ProgramStays]_flVars
  BY FlashStepsKeep
<1>2. FlashSpec => []FlInv
  BY FlashKept, FlashStarts, PTL DEF FlashSpec
<1> QED
  BY <1>1, <1>2, PTL DEF FlashSpec

-----------------------------------------------------------------------------
(* The virtio disk.                                                        *)

Chains == [write : BOOLEAN, sector : Nat, count : Nat, req : Nat]
Before == {"off", "queue", "ok", "failed"}

RingType ==
    /\ vb \in [at : Before \cup {"idle", "slot", "index", "poll"}, freed : SUBSET {"vb"}, last : 0 .. Idx - 1,
               qsize : Nat, cur : Chains, ret : Int, reqs : Nat]
    /\ vq \in [avail : 0 .. Idx - 1, used : 0 .. Idx - 1, slot : [0 .. QSize - 1 -> {0}], chain : Chains, status : Int]
    /\ vdev \in [at : {"idle", "data", "used"}, qmax : QMaxes, capacity : Capacities, status : SUBSET {"ack", "driver", "ok"},
                 ready : BOOLEAN, seen : 0 .. Idx - 1, chain : Chains, done : Nat]
    /\ vdisk \in [Sectors -> Int]

\* The first n sectors of the request have their copy in the buffer.
Moved(n) == \A i \in 1 .. n : vbuf[i] = vdisk[vb.cur.sector + i - 1]

\* Driver and device are at the same place of the ring.
Agreed == vdev.at = "idle" /\ vq.avail = vb.last /\ vq.used = vb.last /\ vdev.seen = vb.last

\* The request the driver prepares or waits for.
Prepared ==
    vb.at \in {"slot", "index", "poll"}
      => /\ vq.chain = vb.cur
         /\ vb.cur.sector + vb.cur.count <= NSectors
         /\ vbuf \in [1 .. vb.cur.count -> Int]

\* Not taken yet; with the device; answered.
Offered == vdev.at = "idle" /\ vdev.seen = vb.last /\ vq.used = vb.last
WithDevice ==
    /\ vdev.at # "idle" /\ vdev.seen = vq.avail /\ vq.used = vb.last
    /\ vdev.chain = vb.cur
    /\ vdev.done <= vb.cur.count /\ Moved(vdev.done)
    /\ vdev.at = "used" => (vq.status = 0 => vdev.done = vb.cur.count)
Answered ==
    /\ vdev.at = "idle" /\ vdev.seen = vq.avail /\ vq.used = vq.avail
    /\ vq.status = 0 => Moved(vb.cur.count)

RingInv ==
    /\ RingType
    /\ vb.at \in Before => vb.last = 0 /\ vb.ret = Unset
    /\ vb.at # "poll" => Agreed
    /\ vb.at = "poll" => vq.avail = (vb.last + 1) % Idx /\ (Offered \/ WithDevice \/ Answered)
    /\ Prepared
    /\ vb.at = "idle" /\ vb.ret > 0 => Moved(vb.cur.count)

\* An index of the ring and the next one differ, also where they wrap.
LEMMA NextIndex ==
    ASSUME NEW x \in 0 .. Idx - 1
    PROVE  (x + 1) % Idx \in 0 .. Idx - 1 /\ (x + 1) % Idx # x
<1>0. Idx \in Nat /\ Idx > 1
  BY VirtioAssumption
<1>1. CASE x + 1 < Idx
  <2>1. (x + 1) % Idx = x + 1
    BY <1>0, <1>1
  <2> QED
    BY <2>1, <1>1, <1>0
<1>2. CASE x + 1 = Idx
  <2>1. (x + 1) % Idx = 0
    BY <1>0, <1>2
  <2> QED
    BY <2>1, <1>2, <1>0
<1> QED
  BY <1>0, <1>1, <1>2

\* The ring starts in the invariant.
LEMMA RingStarts == VirtioInit => RingInv
<1> SUFFICES ASSUME VirtioInit PROVE RingInv
  OBVIOUS
<1>0. Idx \in Nat /\ Idx > 1 /\ 0 \in 0 .. Idx - 1
  BY VirtioAssumption
<1>1. NoChain \in Chains
  BY DEF NoChain, Chains
<1>2. vdev \in [at : {"idle", "data", "used"}, qmax : QMaxes, capacity : Capacities, status : SUBSET {"ack", "driver", "ok"},
                 ready : BOOLEAN, seen : 0 .. Idx - 1, chain : Chains, done : Nat]
  <2>1. PICK q \in QMaxes, c \in Capacities :
           vdev = [at |-> "idle", qmax |-> q, capacity |-> c, status |-> {}, ready |-> FALSE, seen |-> 0,
                   chain |-> NoChain, done |-> 0]
    BY DEF VirtioInit
  <2> QED
    BY <2>1, <1>0, <1>1
<1>3. vb \in [at : Before \cup {"idle", "slot", "index", "poll"}, freed : SUBSET {"vb"}, last : 0 .. Idx - 1,
               qsize : Nat, cur : Chains, ret : Int, reqs : Nat]
  BY <1>0, <1>1 DEF VirtioInit, VbOff, Before, Unset
<1>4. vq \in [avail : 0 .. Idx - 1, used : 0 .. Idx - 1, slot : [0 .. QSize - 1 -> {0}], chain : Chains, status : Int]
  BY <1>0, <1>1 DEF VirtioInit, Unset
<1>5. vdisk \in [Sectors -> Int]
  BY DEF VirtioInit, Sectors
<1>6. RingType
  BY <1>2, <1>3, <1>4, <1>5 DEF RingType
<1>7. vdev.at = "idle" /\ vdev.seen = 0
  BY DEF VirtioInit
<1> QED
  BY <1>6, <1>7 DEF VirtioInit, RingInv, VbOff, Before, Agreed, Prepared


\* The probe and the set-up of the queue, up to the registered disk: the
\* device has nothing to take.
LEMMA ProbeKeepsRing ==
    ASSUME RingInv, virtio_probe \/ virtio_blk_setup_queue \/ RegisterDisk PROVE RingInv'
<1>0. 0 \in 0 .. Idx - 1
  BY VirtioAssumption
<1>t. RingType
  BY DEF RingInv
<1>1. CASE virtio_probe
  <2>1. vb.at = "off" /\ UNCHANGED <<vq, vdisk, vbuf>>
    BY <1>1 DEF virtio_probe
  <2>2. vdev' = [vdev EXCEPT !.status = {"ack", "driver"}, !.ready = FALSE, !.seen = 0]
    BY <1>1 DEF virtio_probe
  <2>3. PICK a \in {"queue", "failed"}, f \in SUBSET {"vb"} : vb' = [vb EXCEPT !.at = a, !.freed = f]
    BY <1>1 DEF virtio_probe, Leave, ProbeFails
  <2>4. RingType'
    BY <2>1, <2>2, <2>3, <1>t, <1>0 DEF RingType, Before
  <2>5. vb'.at \in {"queue", "failed"} /\ vb'.last = vb.last /\ vb'.ret = vb.ret
    BY <2>3, <1>t DEF RingType
  <2>6. Agreed' /\ vb'.last = 0 /\ vb'.ret = Unset
    <3>1. Agreed /\ vb.last = 0 /\ vb.ret = Unset
      BY <2>1 DEF RingInv, Before
    <3>2. vdev'.seen = 0 /\ vdev'.at = vdev.at
      BY <2>2, <1>t DEF RingType
    <3> QED
      BY <3>1, <3>2, <2>1, <2>5 DEF Agreed
  <2> QED
    BY <2>4, <2>5, <2>6 DEF RingInv, Prepared
<1>2. CASE virtio_blk_setup_queue
  <2>1. vb.at = "queue" /\ UNCHANGED <<vdisk, vbuf>>
    BY <1>2 DEF virtio_blk_setup_queue
  <2>2. Agreed /\ vb.last = 0 /\ vb.ret = Unset
    BY <2>1 DEF RingInv, Before
  <2>3. CASE ProbeFails /\ UNCHANGED <<vq, vdev>>
    <3>1. vb' = [vb EXCEPT !.at = "failed", !.freed = {"vb"}]
      BY <2>3 DEF ProbeFails, Leave
    <3>2. RingType'
      BY <3>1, <2>1, <2>3, <1>t DEF RingType, Before
    <3>3. vb'.at = "failed" /\ vb'.last = 0 /\ vb'.ret = Unset
      BY <3>1, <2>2, <1>t DEF RingType
    <3> QED
      BY <3>2, <3>3, <2>2, <2>3 DEF RingInv, Prepared, Agreed
  <2>4. CASE /\ vb' = [vb EXCEPT !.at = "ok", !.qsize = IF vdev.qmax < QSize THEN vdev.qmax ELSE QSize, !.last = 0]
             /\ vq' = [avail |-> 0, used |-> 0, slot |-> [i \in 0 .. QSize - 1 |-> 0],
                       chain |-> NoChain, status |-> Unset]
             /\ vdev' = [vdev EXCEPT !.ready = TRUE]
    <3>1. vdev.qmax \in Nat /\ QSize \in Nat
      BY <1>t, VirtioAssumption DEF RingType
    <3>2. NoChain \in Chains /\ Unset \in Int
      BY DEF NoChain, Chains, Unset
    <3>3. vb' \in [at : Before \cup {"idle", "slot", "index", "poll"}, freed : SUBSET {"vb"}, last : 0 .. Idx - 1,
               qsize : Nat, cur : Chains, ret : Int, reqs : Nat]
      BY <2>4, <3>1, <1>t, <1>0 DEF RingType, Before
    <3>4. vq' \in [avail : 0 .. Idx - 1, used : 0 .. Idx - 1, slot : [0 .. QSize - 1 -> {0}], chain : Chains, status : Int]
      BY <2>4, <3>2, <1>0
    <3>5. RingType' /\ vdev'.at = vdev.at /\ vdev'.seen = vdev.seen
      BY <3>3, <3>4, <2>4, <2>1, <1>t DEF RingType
    <3>6. vb'.at = "ok" /\ vb'.last = 0 /\ vb'.ret = Unset
      BY <2>4, <2>2, <1>t DEF RingType
    <3>7. vq'.avail = 0 /\ vq'.used = 0
      BY <2>4
    <3> QED
      BY <3>5, <3>6, <3>7, <2>2 DEF RingInv, Prepared, Agreed
  <2> QED
    BY <1>2, <2>3, <2>4 DEF virtio_blk_setup_queue
<1>3. CASE RegisterDisk
  <2>1. vb.at = "ok" /\ UNCHANGED <<vq, vdisk, vbuf>>
    BY <1>3 DEF RegisterDisk
  <2>2. vdev' = [vdev EXCEPT !.status = @ \cup {"ok"}]
    BY <1>3 DEF RegisterDisk
  <2>3. PICK a \in {"idle", "failed"}, f \in SUBSET {"vb"} : vb' = [vb EXCEPT !.at = a, !.freed = f]
    BY <1>3 DEF RegisterDisk, Leave, ProbeFails
  <2>4. RingType' /\ vdev'.at = vdev.at /\ vdev'.seen = vdev.seen
    BY <2>1, <2>2, <2>3, <1>t DEF RingType, Before
  <2>5. vb'.at \in {"idle", "failed"} /\ vb'.last = vb.last /\ vb'.ret = vb.ret
    BY <2>3, <1>t DEF RingType
  <2>6. Agreed /\ vb.last = 0 /\ vb.ret = Unset /\ ~ (vb.ret > 0)
    BY <2>1 DEF RingInv, Before, Unset
  <2> QED
    BY <2>1, <2>4, <2>5, <2>6 DEF RingInv, Prepared, Agreed
<1> QED
  BY <1>1, <1>2, <1>3

\* A new request: descriptors and status byte are written while the ring is
\* the driver's.
LEMMA RequestKeepsRing ==
    ASSUME RingInv, NEW w \in BOOLEAN, NEW s \in Sectors, NEW n \in 1 .. NSectors, virtio_blk_rw(w, s, n)
    PROVE  RingInv'
<1>0. NSectors \in Nat /\ s \in Nat /\ n \in Nat
  BY VirtioAssumption DEF Sectors
<1>t. RingType
  BY DEF RingInv
<1>1. vb.at = "idle" /\ s + n <= NSectors /\ UNCHANGED <<vdev, vdisk>>
  BY DEF virtio_blk_rw
<1>2. PICK c \in Chains, r \in Nat : /\ c.sector = s /\ c.count = n
                          /\ vq' = [vq EXCEPT !.chain = c, !.status = 255]
                          /\ vb' = [vb EXCEPT !.at = "slot", !.cur = c, !.reqs = r, !.ret = Unset]
  <2> DEFINE r == vb.reqs + 1
  <2> DEFINE c == [write |-> w, sector |-> s, count |-> n, req |-> r]
  <2>1. r \in Nat
    BY <1>t DEF RingType
  <2>3. vq' = [vq EXCEPT !.chain = c, !.status = 255]
        /\ vb' = [vb EXCEPT !.at = "slot", !.cur = c, !.reqs = r, !.ret = Unset]
    BY DEF virtio_blk_rw
  <2> HIDE DEF r
  <2>2. c \in Chains /\ c.sector = s /\ c.count = n
    BY <1>0, <2>1 DEF Chains
  <2> QED
    BY <2>1, <2>2, <2>3
<1>3. RingType'
  <2>1. vb' \in [at : Before \cup {"idle", "slot", "index", "poll"}, freed : SUBSET {"vb"}, last : 0 .. Idx - 1,
               qsize : Nat, cur : Chains, ret : Int, reqs : Nat]
    <3>1. vb \in [at : Before \cup {"idle", "slot", "index", "poll"}, freed : SUBSET {"vb"}, last : 0 .. Idx - 1,
               qsize : Nat, cur : Chains, ret : Int, reqs : Nat]
      BY <1>t DEF RingType
    <3>2. Unset \in Int /\ c \in Chains /\ r \in Nat
      BY DEF Unset
    <3> QED
      BY <1>2, <3>1, <3>2
  <2>2. vq' \in [avail : 0 .. Idx - 1, used : 0 .. Idx - 1, slot : [0 .. QSize - 1 -> {0}], chain : Chains, status : Int]
    <3>1. vq \in [avail : 0 .. Idx - 1, used : 0 .. Idx - 1, slot : [0 .. QSize - 1 -> {0}], chain : Chains, status : Int]
      BY <1>t DEF RingType
    <3>2. 255 \in Int /\ c \in Chains
      OBVIOUS
    <3> QED
      BY <1>2, <3>1, <3>2
  <2> QED
    BY <2>1, <2>2, <1>1, <1>t DEF RingType
<1>4. vb'.at = "slot" /\ vb'.last = vb.last /\ vb'.cur.sector = s /\ vb'.cur.count = n /\ vq'.chain = vb'.cur
      /\ vq'.avail = vq.avail /\ vq'.used = vq.used
  BY <1>2, <1>t DEF RingType
<1>5. Agreed'
  BY <1>1, <1>4 DEF RingInv, Agreed
<1>6. vbuf' \in [1 .. n -> Int]
  BY <1>0 DEF virtio_blk_rw, New, Unset
<1>7. Prepared'
  BY <1>1, <1>4, <1>6 DEF Prepared
<1> QED
  BY <1>3, <1>4, <1>5, <1>7 DEF RingInv, Before

\* The slot, the available index and the answer.
LEMMA DriverKeepsRing ==
    ASSUME RingInv, PutSlot \/ PutIndex \/ PollUsed PROVE RingInv'
<1>t. RingType
  BY DEF RingInv
<1>1. CASE PutSlot
  <2>1. vb.at = "slot" /\ UNCHANGED <<vdev, vdisk, vbuf>>
    BY <1>1 DEF PutSlot
  <2>2. vb' = [vb EXCEPT !.at = "index"]
    BY <1>1 DEF PutSlot
  <2>3. /\ vq' \in [avail : 0 .. Idx - 1, used : 0 .. Idx - 1, slot : [0 .. QSize - 1 -> {0}], chain : Chains, status : Int]
        /\ vq'.avail = vq.avail /\ vq'.used = vq.used /\ vq'.chain = vq.chain
    <3>1. vq' = [vq EXCEPT !.slot[vq.avail % vb.qsize] = 0]
      BY <1>1 DEF PutSlot
    <3>2. [vq.slot EXCEPT ![vq.avail % vb.qsize] = 0] \in [0 .. QSize - 1 -> {0}]
      BY <1>t DEF RingType
    <3> QED
      BY <3>1, <3>2, <1>t DEF RingType
  <2>4. RingType'
    BY <2>1, <2>2, <2>3, <1>t DEF RingType
  <2>5. vb'.at = "index" /\ vb'.last = vb.last /\ vb'.cur = vb.cur
    BY <2>2, <1>t DEF RingType
  <2>6. Agreed' /\ Prepared'
    BY <2>1, <2>3, <2>5 DEF RingInv, Agreed, Prepared
  <2> QED
    BY <2>4, <2>5, <2>6 DEF RingInv, Before
<1>2. CASE PutIndex
  <2>1. vb.at = "index" /\ UNCHANGED <<vdev, vdisk, vbuf>>
    BY <1>2 DEF PutIndex
  <2>2. vb' = [vb EXCEPT !.at = "poll"]
    BY <1>2 DEF PutIndex
  <2>3. vq' = [vq EXCEPT !.avail = (vq.avail + 1) % Idx]
    BY <1>2 DEF PutIndex
  <2>4. (vq.avail + 1) % Idx \in 0 .. Idx - 1
    BY NextIndex, <1>t DEF RingType
  <2>5. RingType'
    BY <2>1, <2>2, <2>3, <2>4, <1>t DEF RingType
  <2>6. vb'.at = "poll" /\ vb'.last = vb.last /\ vb'.cur = vb.cur
    BY <2>2, <1>t DEF RingType
  <2>7. vq'.avail = (vq.avail + 1) % Idx /\ vq'.used = vq.used /\ vq'.chain = vq.chain
    BY <2>3, <1>t DEF RingType
  <2>8. Agreed
    BY <2>1 DEF RingInv
  <2>9. Offered' /\ vq'.avail = (vb'.last + 1) % Idx
    BY <2>1, <2>6, <2>7, <2>8 DEF Agreed, Offered
  <2>10. Prepared'
    BY <2>1, <2>6, <2>7 DEF RingInv, Prepared
  <2> QED
    BY <2>5, <2>6, <2>9, <2>10 DEF RingInv, Before
<1>3. CASE PollUsed
  <2>1. vb.at = "poll" /\ vq.used # vb.last /\ UNCHANGED <<vq, vdev, vdisk, vbuf>>
    BY <1>3 DEF PollUsed
  <2>2. PICK r \in Int : /\ vb' = [vb EXCEPT !.at = "idle", !.last = (vb.last + 1) % Idx, !.ret = r]
                         /\ r > 0 => vq.status = 0
    <3>1. (IF vq.status # 0 THEN -5 ELSE vb.cur.count) \in Int
      BY <1>t DEF RingType, Chains
    <3>2. (IF vq.status # 0 THEN -5 ELSE vb.cur.count) > 0 => vq.status = 0
      OBVIOUS
    <3> QED
      BY <1>3, <3>1, <3>2 DEF PollUsed
  <2>3. (vb.last + 1) % Idx \in 0 .. Idx - 1
    BY NextIndex, <1>t DEF RingType
  <2>4. RingType'
    BY <2>1, <2>2, <2>3, <1>t DEF RingType
  <2>5. vb'.at = "idle" /\ vb'.last = (vb.last + 1) % Idx /\ vb'.cur = vb.cur /\ vb'.ret = r
    BY <2>2, <2>3, <1>t DEF RingType
  <2>6. Answered /\ vq.avail = (vb.last + 1) % Idx
    BY <2>1 DEF RingInv, Offered, WithDevice
  <2>7. Agreed'
    BY <2>1, <2>5, <2>6 DEF Answered, Agreed
  <2>8. vb'.ret > 0 => Moved(vb.cur.count)'
    BY <2>1, <2>2, <2>5, <2>6 DEF Answered, Moved
  <2> QED
    BY <2>4, <2>5, <2>7, <2>8 DEF RingInv, Before, Prepared
<1> QED
  BY <1>1, <1>2, <1>3

\* The device takes the chain the driver waits for.
LEMMA TakesKeepsRing ==
    ASSUME RingInv, DeviceTakes PROVE RingInv'
<1>t. RingType
  BY DEF RingInv
<1>1. vdev.at = "idle" /\ vdev.seen # vq.avail /\ UNCHANGED <<vb, vq, vdisk, vbuf>>
  BY DEF DeviceTakes
<1>2. vdev' = [vdev EXCEPT !.at = "data", !.chain = vq.chain, !.seen = (vdev.seen + 1) % Idx, !.done = 0]
  BY DEF DeviceTakes
<1>3. (vdev.seen + 1) % Idx \in 0 .. Idx - 1
  BY NextIndex, <1>t DEF RingType
<1>4. RingType'
  BY <1>1, <1>2, <1>3, <1>t DEF RingType
<1>5. vdev'.at = "data" /\ vdev'.chain = vq.chain /\ vdev'.seen = (vdev.seen + 1) % Idx /\ vdev'.done = 0
  BY <1>2, <1>t DEF RingType
<1>6. vb.at = "poll" /\ Offered
  BY <1>1 DEF RingInv, Agreed, WithDevice, Answered
<1>7. vb.cur.count \in Nat /\ vq.chain = vb.cur
  BY <1>6, <1>t DEF RingInv, Prepared, RingType, Chains
<1>8. Moved(vdev.done)'
  BY <1>5 DEF Moved
<1>9. WithDevice'
  BY <1>1, <1>5, <1>6, <1>7, <1>8 DEF WithDevice, Offered, RingInv
<1> QED
  BY <1>1, <1>4, <1>6, <1>9 DEF RingInv, Prepared, Before

\* It moves a sector of that request: the others keep their copies.
LEMMA MovesKeepsRing ==
    ASSUME RingInv, DeviceMoves PROVE RingInv'
<1>t. RingType
  BY DEF RingInv
<1>1. vdev.at = "data" /\ vdev.done < vdev.chain.count /\ UNCHANGED <<vb, vq>>
  BY DEF DeviceMoves
<1>2. vb.at = "poll" /\ WithDevice
  BY <1>1 DEF RingInv, Agreed, Offered, Answered
<1> DEFINE s == vb.cur.sector + vdev.done
           i == vdev.done + 1
<1>3. /\ vb.cur.sector \in Nat /\ vb.cur.count \in Nat /\ vdev.done \in Nat /\ vdev.done < vb.cur.count
      /\ vb.cur.sector + vb.cur.count <= NSectors /\ vbuf \in [1 .. vb.cur.count -> Int] /\ vdisk \in [Sectors -> Int]
  BY <1>1, <1>2, <1>t DEF RingInv, Prepared, RingType, Chains, WithDevice
<1>4. s \in Sectors /\ i \in 1 .. vb.cur.count
  <2>1. PICK x \in Nat, n \in Nat, d \in Nat : x = vb.cur.sector /\ n = vb.cur.count /\ d = vdev.done
    BY <1>3
  <2>2. d < n /\ x + n <= NSectors /\ NSectors \in Nat
    BY <1>3, <2>1, VirtioAssumption
  <2>3. x + d \in 0 .. NSectors - 1 /\ d + 1 \in 1 .. n
    BY <2>2
  <2> QED
    BY <2>1, <2>3 DEF Sectors
<1>5. vdev' = [vdev EXCEPT !.done = i]
  BY DEF DeviceMoves
<1>6. vdev'.at = "data" /\ vdev'.done = i /\ vdev'.chain = vdev.chain /\ vdev'.seen = vdev.seen
  BY <1>1, <1>5, <1>t DEF RingType
<1>7. \/ vdisk' = [vdisk EXCEPT ![s] = vbuf[i]] /\ vbuf' = vbuf
      \/ vbuf' = [vbuf EXCEPT ![i] = vdisk[s]] /\ vdisk' = vdisk
  BY <1>2 DEF DeviceMoves, WithDevice
<1>8. vdisk' \in [Sectors -> Int] /\ vbuf' \in [1 .. vb.cur.count -> Int]
  BY <1>3, <1>4, <1>7
<1>9. \A k \in 1 .. i : vbuf'[k] = vdisk'[vb.cur.sector + k - 1]
  <2> SUFFICES ASSUME NEW k \in 1 .. i PROVE vbuf'[k] = vdisk'[vb.cur.sector + k - 1]
    OBVIOUS
  <2>0. NSectors \in Nat /\ k \in Int /\ k >= 1 /\ k <= vdev.done + 1
    BY <1>3, VirtioAssumption
  <2>1. vb.cur.sector + k - 1 \in Sectors /\ k \in 1 .. vb.cur.count
    <3>1. ASSUME NEW a \in Nat, NEW c \in Nat, NEW d \in Nat, d < c, a + c <= NSectors, k <= d + 1
          PROVE  a + k - 1 \in 0 .. NSectors - 1 /\ k \in 1 .. c
      BY <2>0, <3>1
    <3> QED
      BY <1>3, <2>0, <3>1 DEF Sectors
  <2>2. CASE k = i
    <3>1. vb.cur.sector + k - 1 = s
      BY <2>2, <1>3
    <3> QED
      BY <3>1, <2>2, <1>3, <1>4, <1>7
  <2>3. CASE k # i
    <3>1. k \in 1 .. vdev.done /\ vb.cur.sector + k - 1 # s
      BY <2>3, <1>3
    <3>2. vbuf[k] = vdisk[vb.cur.sector + k - 1]
      BY <3>1, <1>2 DEF WithDevice, Moved
    <3> QED
      BY <3>1, <3>2, <2>1, <2>3, <1>3, <1>7
  <2> QED
    BY <2>2, <2>3
<1>10. vdev' \in [at : {"idle", "data", "used"}, qmax : QMaxes, capacity : Capacities, status : SUBSET {"ack", "driver", "ok"},
                 ready : BOOLEAN, seen : 0 .. Idx - 1, chain : Chains, done : Nat]
  <2>1. i \in Nat
    BY <1>3
  <2> HIDE DEF i
  <2> QED
    BY <2>1, <1>5, <1>t DEF RingType
<1>11. RingType'
  BY <1>1, <1>8, <1>10, <1>t DEF RingType
<1>12. Moved(vdev.done)'
  BY <1>1, <1>6, <1>9 DEF Moved
<1>13. vdev'.done <= vb.cur.count
  BY <1>3, <1>6
<1>14. WithDevice'
  BY <1>1, <1>2, <1>6, <1>12, <1>13 DEF WithDevice
<1>15. Prepared'
  BY <1>1, <1>8 DEF RingInv, Prepared
<1> QED
  BY <1>1, <1>2, <1>11, <1>14, <1>15 DEF RingInv, Before

\* It writes the status, and then the used index.
LEMMA AnswersKeepsRing ==
    ASSUME RingInv, DeviceStatus \/ DeviceUsed PROVE RingInv'
<1>t. RingType
  BY DEF RingInv
<1>1. CASE DeviceStatus
  <2>1. vdev.at = "data" /\ UNCHANGED <<vb, vdisk, vbuf>>
    BY <1>1 DEF DeviceStatus
  <2>2. PICK r \in {0, 1} : (r = 0 => vdev.done = vdev.chain.count) /\ vq' = [vq EXCEPT !.status = r]
    BY <1>1 DEF DeviceStatus
  <2>3. vdev' = [vdev EXCEPT !.at = "used"]
    BY <1>1 DEF DeviceStatus
  <2>4. RingType'
    <3>1. vq' \in [avail : 0 .. Idx - 1, used : 0 .. Idx - 1, slot : [0 .. QSize - 1 -> {0}], chain : Chains, status : Int]
      <4>1. vq \in [avail : 0 .. Idx - 1, used : 0 .. Idx - 1, slot : [0 .. QSize - 1 -> {0}], chain : Chains, status : Int]
        BY <1>t DEF RingType
      <4>2. r \in Int
        BY <2>2
      <4> QED
        BY <4>1, <4>2, <2>2
    <3> QED
      BY <3>1, <2>1, <2>3, <1>t DEF RingType
  <2>5. vb.at = "poll" /\ WithDevice
    BY <2>1 DEF RingInv, Agreed, Offered, Answered
  <2>6. vdev'.at = "used" /\ vdev'.seen = vdev.seen /\ vdev'.chain = vdev.chain /\ vdev'.done = vdev.done
    BY <2>3, <1>t DEF RingType
  <2>7. vq'.status = r /\ vq'.avail = vq.avail /\ vq'.used = vq.used /\ vq'.chain = vq.chain
    BY <2>2, <1>t DEF RingType
  <2>8. Moved(vdev.done)'
    BY <2>1, <2>5, <2>6 DEF WithDevice, Moved
  <2>9. WithDevice'
    BY <2>1, <2>2, <2>5, <2>6, <2>7, <2>8 DEF WithDevice
  <2> QED
    BY <2>1, <2>4, <2>5, <2>7, <2>9 DEF RingInv, Before, Prepared
<1>2. CASE DeviceUsed
  <2>1. vdev.at = "used" /\ UNCHANGED <<vb, vdisk, vbuf>>
    BY <1>2 DEF DeviceUsed
  <2>2. vq' = [vq EXCEPT !.used = (vq.used + 1) % Idx] /\ vdev' = [vdev EXCEPT !.at = "idle"]
    BY <1>2 DEF DeviceUsed
  <2>3. (vq.used + 1) % Idx \in 0 .. Idx - 1
    BY NextIndex, <1>t DEF RingType
  <2>4. RingType'
    BY <2>1, <2>2, <2>3, <1>t DEF RingType
  <2>5. vb.at = "poll" /\ WithDevice /\ vq.avail = (vb.last + 1) % Idx
    BY <2>1 DEF RingInv, Agreed, Offered, Answered
  <2>6. vdev'.at = "idle" /\ vdev'.seen = vdev.seen
    BY <2>2, <1>t DEF RingType
  <2>7. vq'.status = vq.status /\ vq'.avail = vq.avail /\ vq'.used = (vq.used + 1) % Idx /\ vq'.chain = vq.chain
    BY <2>2, <1>t DEF RingType
  <2>8. vq'.status = 0 => Moved(vb.cur.count)'
    BY <2>1, <2>5, <2>7 DEF WithDevice, Moved
  <2>9. Answered'
    BY <2>1, <2>5, <2>6, <2>7, <2>8 DEF WithDevice, Answered
  <2> QED
    BY <2>1, <2>4, <2>5, <2>7, <2>9 DEF RingInv, Before, Prepared
<1> QED
  BY <1>1, <1>2

\* Nothing changes.
LEMMA StutterKeepsRing == ASSUME RingInv, UNCHANGED viVars PROVE RingInv'
BY DEF RingInv, RingType, viVars, Agreed, Prepared, Offered, WithDevice, Answered, Moved

\* What the run checks follows from the invariant.
LEMMA RingImpliesSound == RingInv => RingSound
<1> SUFFICES ASSUME RingInv PROVE RingSound
  OBVIOUS
<1>t. RingType
  BY DEF RingInv
<1>1. VirtioTypeOK
  BY <1>t DEF VirtioTypeOK, RingType, Before
<1>2. RequestDone
  BY DEF RingInv, RequestDone, Moved
<1>3. OneOutstanding
  BY DEF RingInv, OneOutstanding, Agreed, Offered, WithDevice, Answered
<1>4. NoDmaToFreed
  BY <1>t DEF NoDmaToFreed, RingType
<1> QED
  BY <1>1, <1>2, <1>3, <1>4 DEF RingSound

\* Every step keeps the invariant.
LEMMA RingKept == RingInv /\ [VirtioNext]_viVars => RingInv'
  BY ProbeKeepsRing, RequestKeepsRing, DriverKeepsRing, TakesKeepsRing, MovesKeepsRing, AnswersKeepsRing,
     StutterKeepsRing DEF VirtioNext, DriverGoesOn, DeviceGoesOn

\* Driver and device agree on who owns the ring and what a request has done,
\* for every queue size, every width of the indices and every disk.
THEOREM RingIsSound == VirtioSpec => []RingSound
  BY RingStarts, RingKept, RingImpliesSound, PTL DEF VirtioSpec

-----------------------------------------------------------------------------
Kinds == {"hdr", "num", "dat", "eot", "can"}
Pieces == [piece : Kinds \cup {"none"}, blk : Nat, ok : BOOLEAN]
Replies == {"C", "ACK", "NAK", "CAN"}

XmTypes ==
    /\ to \in Seq(Pieces) /\ (\A i \in 1 .. Len(to) : to[i].piece \in Kinds)
    /\ back \in Seq(Replies) /\ result \in Int /\ again \in BOOLEAN /\ happened \in Seq(Faults)
    /\ rcv \in [at : {"header", "number", "data", "done"}, got : {<<>>} \cup {<<p>> : p \in Pieces}]
    /\ rcv.at = "data" => rcv.got # <<>>
    /\ snd \in [blk : 0 .. NPackets, at : {"start", "block", "eot", "done", "quit"}]
    /\ snd.at = "block" => snd.blk > 0
    /\ snd.at = "start" => snd.blk = 0
    /\ snd.at = "eot" => snd.blk = NPackets

\* Blocks are on the line, and saved, in their order.
InOrder ==
    /\ saved \in Seq(Packets)
    /\ \A i \in 1 .. Len(saved) : saved[i] <= snd.blk
    /\ \A i \in 1 .. Len(to) : to[i].piece = "dat" => to[i].blk \in 1 .. snd.blk
    /\ \A i, j \in 1 .. Len(saved) : i < j => saved[i] <= saved[j]
    /\ \A i, j \in 1 .. Len(to) : i < j /\ to[i].piece = "dat" /\ to[j].piece = "dat" => to[i].blk <= to[j].blk
    /\ \A i \in 1 .. Len(saved), j \in 1 .. Len(to) : to[j].piece = "dat" => saved[i] <= to[j].blk

\* What may follow a piece, and what the receiver is about to read.
After(k) == IF k = "hdr" THEN {"num"} ELSE IF k = "num" THEN {"dat"} ELSE {"hdr", "eot", "can"}
Expected == IF rcv.at = "number" THEN {"num"} ELSE IF rcv.at = "data" THEN {"dat"} ELSE {"hdr", "eot", "can"}

Whole(q) ==
    /\ \A i \in 1 .. Len(q) - 1 : q[i + 1].piece \in After(q[i].piece)
    /\ q # <<>> => q[Len(q)].piece \in {"dat", "eot", "can"}

\* Nothing is lost: packets are whole, and the receiver knows where it is.
Framed ==
    /\ Whole(to)
    /\ rcv.at # "done" /\ to # <<>> => to[1].piece \in Expected
    /\ rcv.at \in {"number", "data"} => to # <<>>
    /\ rcv.at = "data" => rcv.got[1].piece = "num"

\* Nothing is damaged either: every block that was sent is on the line or
\* saved, and the end of the file is behind all of them.
Intact == \A i \in 1 .. Len(to) : to[i].ok
IsSaved(n) == \E i \in 1 .. Len(saved) : saved[i] = n
OnLine(n) == \E i \in 1 .. Len(to) : to[i].piece = "dat" /\ to[i].blk = n
AllThere == \A n \in 1 .. snd.blk : IsSaved(n) \/ OnLine(n)
EndLast ==
    \A i \in 1 .. Len(to) : to[i].piece = "eot" =>
       /\ snd.at \notin {"start", "block"} /\ snd.blk = NPackets
       /\ \A j \in i .. Len(to) : to[j].piece # "dat"

NoGaps ==
    /\ Intact /\ EndLast
    /\ rcv.at = "data" => rcv.got[1].ok
    /\ result >= 0 => AllThere
    /\ result > 0 => \A n \in Packets : IsSaved(n)

OnlyC(s) == \A j \in 1 .. Len(s) : s[j] = "C"
OneReply(s, r) == \E i \in 1 .. Len(s) : s[i] = r /\ \A j \in 1 .. Len(s) : j # i => s[j] = "C"

\* Block b is on its way.
InFlight(b) ==
    /\ rcv.at \in {"header", "number", "data"}
    /\ Len(to) = (IF rcv.at = "header" THEN 3 ELSE IF rcv.at = "number" THEN 2 ELSE 1)
    /\ to[Len(to)].blk = b

\* Replies are not touched: one packet at a time, or its answer.
LineQuiet == rcv.at = "header" /\ to = <<>>
NotBegun == snd.at = "start" /\ LineQuiet /\ saved = <<>> /\ OnlyC(back)
InTransit ==
    /\ snd.at = "block" /\ InFlight(snd.blk) /\ OnlyC(back) /\ Len(saved) = snd.blk - 1
    /\ \A i \in 1 .. Len(to) : to[i].piece \in {"hdr", "num", "dat"}
Refused == snd.at = "block" /\ LineQuiet /\ OneReply(back, "NAK") /\ Len(saved) = snd.blk - 1
Acknowledged == snd.at = "block" /\ LineQuiet /\ OneReply(back, "ACK") /\ Len(saved) = snd.blk
Ended == snd.at = "eot" /\ rcv.at = "header" /\ Len(to) = 1 /\ to[1].piece = "eot" /\ OnlyC(back) /\ Len(saved) = NPackets
Cancelled == snd.at = "quit" /\ rcv.at = "header" /\ \A i \in 1 .. Len(to) : to[i].piece = "can"

StopAndWait ==
    /\ IsFile(saved)
    /\ result > 0 => Len(saved) = NPackets
    /\ rcv.at # "done" => NotBegun \/ InTransit \/ Refused \/ Acknowledged \/ Ended \/ Cancelled

XmInv ==
    /\ XmTypes /\ InOrder
    /\ rcv.at # "done" => result = 0
    /\ ~ Happened("piece") => Framed
    /\ ~ Happened("piece") /\ ~ Happened("data") => NoGaps
    /\ ~ Happened("piece") /\ ~ Happened("reply") /\ ~ again => StopAndWait

-----------------------------------------------------------------------------
\* t is s without its place i.
Dropped(t, s, i) ==
    /\ Len(t) = Len(s) - 1
    /\ \A k \in 1 .. Len(t) : t[k] = s[IF k < i THEN k ELSE k + 1]

\* A line without its first piece.
LEMMA TailDrops ==
    ASSUME NEW S, NEW s \in Seq(S), s # <<>>
    PROVE  Head(s) = s[1] /\ 1 \in 1 .. Len(s) /\ Head(s) \in S /\ Tail(s) \in Seq(S) /\ Dropped(Tail(s), s, 1)
<1>1. Head(s) \in S /\ Tail(s) \in Seq(S) /\ Len(Tail(s)) = Len(s) - 1
      /\ \A i \in 1 .. Len(Tail(s)) : Tail(s)[i] = s[i + 1]
  BY HeadTailProperties
<1>2. Len(s) \in Nat /\ Len(Tail(s)) \in Nat
  BY <1>1, LenProperties
<1>3. \A k \in 1 .. Len(Tail(s)) : k >= 1 /\ ~ (k < 1)
  BY <1>2
<1>4. Head(s) = s[1]
  OBVIOUS
<1> QED
  BY <1>1, <1>2, <1>3, <1>4 DEF Dropped

\* A line without one of its pieces.
LEMMA LostDrops ==
    ASSUME NEW S, NEW s \in Seq(S), NEW i \in 1 .. Len(s)
    PROVE  LET t == SubSeq(s, 1, i - 1) \o SubSeq(s, i + 1, Len(s))
           IN  t \in Seq(S) /\ Dropped(t, s, i)
<1> DEFINE a == SubSeq(s, 1, i - 1)
           b == SubSeq(s, i + 1, Len(s))
<1>0. Len(s) \in Nat /\ i \in Int /\ i - 1 \in Int /\ i + 1 \in Int /\ \A j \in 1 .. Len(s) : s[j] \in S
  BY LenProperties, ElementOfSeq
<1>1. a \in Seq(S) /\ Len(a) = i - 1 /\ \A j \in 1 .. i - 1 : a[j] = s[j]
  <2>1. \A j \in 1 .. i - 1 : s[j] \in S
    BY <1>0
  <2>2. a \in Seq(S) /\ Len(a) = (IF 1 <= i - 1 THEN i - 1 - 1 + 1 ELSE 0)
        /\ \A j \in 1 .. i - 1 - 1 + 1 : a[j] = s[1 + j - 1]
    BY <1>0, <2>1, SubSeqProperties
  <2>3. \A j \in 1 .. i - 1 : j \in 1 .. i - 1 - 1 + 1 /\ 1 + j - 1 = j
    BY <1>0
  <2> QED
    BY <1>0, <2>2, <2>3
<1>2. b \in Seq(S) /\ Len(b) = Len(s) - i /\ \A j \in 1 .. Len(s) - i : b[j] = s[i + j]
  <2>1. \A j \in i + 1 .. Len(s) : s[j] \in S
    BY <1>0
  <2>2. b \in Seq(S) /\ Len(b) = (IF i + 1 <= Len(s) THEN Len(s) - (i + 1) + 1 ELSE 0)
        /\ \A j \in 1 .. Len(s) - (i + 1) + 1 : b[j] = s[(i + 1) + j - 1]
    BY <1>0, <2>1, SubSeqProperties
  <2>3. \A j \in 1 .. Len(s) - i : j \in 1 .. Len(s) - (i + 1) + 1 /\ (i + 1) + j - 1 = i + j
    BY <1>0
  <2> QED
    BY <1>0, <2>2, <2>3
<1>3. a \o b \in Seq(S) /\ Len(a \o b) = Len(a) + Len(b)
      /\ \A k \in 1 .. Len(a) + Len(b) : (a \o b)[k] = IF k <= Len(a) THEN a[k] ELSE b[k - Len(a)]
  BY <1>1, <1>2, ConcatProperties
<1>4. Len(a \o b) = Len(s) - 1
  <2> HIDE DEF a, b
  <2> QED
    BY <1>0, <1>1, <1>2, <1>3
<1>5. ASSUME NEW k \in 1 .. Len(s) - 1
      PROVE  (a \o b)[k] = s[IF k < i THEN k ELSE k + 1]
  <2> HIDE DEF a, b
  <2>0. Len(a) = i - 1 /\ Len(a) + Len(b) = Len(s) - 1
    BY <1>0, <1>1, <1>2
  <2>4. (a \o b)[k] = IF k <= Len(a) THEN a[k] ELSE b[k - Len(a)]
    BY <1>3, <2>0
  <2>1. (a \o b)[k] = IF k <= i - 1 THEN a[k] ELSE b[k - (i - 1)]
    BY <2>0, <2>4
  <2>2. CASE k < i
    BY <2>1, <2>2, <1>0, <1>1
  <2>3. CASE ~ (k < i)
    <3>1. k - (i - 1) \in 1 .. Len(s) - i /\ i + (k - (i - 1)) = k + 1
      BY <1>0, <2>3
    <3>2. b[k - (i - 1)] = s[k + 1]
      BY <3>1, <1>2
    <3> QED
      BY <2>1, <2>3, <3>2, <1>0
  <2> QED
    BY <2>2, <2>3
<1> QED
  BY <1>3, <1>4, <1>5 DEF Dropped

\* What was there stays, and what is put comes behind it.
LEMMA PutBehind ==
    ASSUME NEW S, NEW s \in Seq(S), NEW q \in Seq(S)
    PROVE  /\ s \o q \in Seq(S) /\ Len(s \o q) = Len(s) + Len(q) /\ Len(s) \in Nat /\ Len(q) \in Nat
           /\ \A i \in 1 .. Len(s) : (s \o q)[i] = s[i]
           /\ \A j \in 1 .. Len(q) : (s \o q)[Len(s) + j] = q[j]
           /\ \A i \in 1 .. Len(s) + Len(q) : i \in 1 .. Len(s) \/ \E j \in 1 .. Len(q) : i = Len(s) + j
<1>0. Len(s) \in Nat /\ Len(q) \in Nat
  BY LenProperties
<1>1. /\ s \o q \in Seq(S) /\ Len(s \o q) = Len(s) + Len(q)
      /\ \A i \in 1 .. Len(s) + Len(q) : (s \o q)[i] = IF i <= Len(s) THEN s[i] ELSE q[i - Len(s)]
  BY ConcatProperties
<1>2. \A i \in 1 .. Len(s) : i \in 1 .. Len(s) + Len(q) /\ i <= Len(s)
  BY <1>0
<1>3. \A j \in 1 .. Len(q) : Len(s) + j \in 1 .. Len(s) + Len(q) /\ ~ (Len(s) + j <= Len(s)) /\ Len(s) + j - Len(s) = j
  BY <1>0
<1>4. ASSUME NEW i \in 1 .. Len(s) + Len(q)
      PROVE  i \in 1 .. Len(s) \/ \E j \in 1 .. Len(q) : i = Len(s) + j
  <2>1. CASE i <= Len(s)
    BY <2>1, <1>0
  <2>2. CASE ~ (i <= Len(s))
    <3>1. i - Len(s) \in 1 .. Len(q) /\ i = Len(s) + (i - Len(s))
      BY <2>2, <1>0
    <3> QED
      BY <3>1
  <2> QED
    BY <2>1, <2>2
<1> QED
  BY <1>0, <1>1, <1>2, <1>3, <1>4

\* The three pieces of a packet.
LEMMA PacketIs ==
    ASSUME NEW n \in Nat
    PROVE  /\ Packet(n) \in Seq(Pieces) /\ Len(Packet(n)) = 3
           /\ Packet(n)[1] = Soh /\ Packet(n)[2] = Number(n) /\ Packet(n)[3] = Data(n)
           /\ 1 .. 3 = {1, 2, 3}
  BY DEF Packet, Pieces, Kinds, Soh, Number, Data

\* The end of the file, and the cancellation.
LEMMA EndsAre ==
    /\ <<Eot>> \in Seq(Pieces) /\ Len(<<Eot>>) = 1 /\ <<Eot>>[1] = Eot
    /\ <<Can, Can>> \in Seq(Pieces) /\ Len(<<Can, Can>>) = 2 /\ <<Can, Can>>[1] = Can /\ <<Can, Can>>[2] = Can
    /\ 1 .. 1 = {1} /\ 1 .. 2 = {1, 2}
  BY DEF Pieces, Kinds, Eot, Can

\* The transfer starts in the invariant.
LEMMA DownloadStarts == XmInit => XmInv
<1> SUFFICES ASSUME XmInit PROVE XmInv
  OBVIOUS
<1> USE XModemAssumption
<1>0. to = <<>> /\ Len(to) = 0 /\ saved = <<>> /\ Len(saved) = 0 /\ Len(back) = 1 /\ back[1] = "C"
      /\ snd.blk = 0 /\ snd.at = "start" /\ rcv.at = "header" /\ result = 0
  BY DEF XmInit
<1>1. XmTypes
  BY <1>0 DEF XmInit, XmTypes, Replies, Pieces
<1>2. InOrder
  BY <1>0 DEF InOrder, Packets
<1>3. Framed
  BY <1>0 DEF Framed, Whole
<1>4. NoGaps
  BY <1>0 DEF NoGaps, Intact, EndLast, AllThere
<1>5. StopAndWait
  BY <1>0 DEF StopAndWait, NotBegun, LineQuiet, OnlyC, IsFile
<1> QED
  BY <1>0, <1>1, <1>2, <1>3, <1>4, <1>5 DEF XmInv

\* What the receiver's steps do, by what they take from the line.
TakesPiece == to # <<>> /\ to' = Tail(to)

\* A header is recognized: rcv waits for the number.
TakesHeader ==
    /\ rcv.at = "header" /\ TakesPiece /\ "SOH" \in HeaderOf(to[1])
    /\ rcv' = [at |-> "number", got |-> rcv.got]
    /\ UNCHANGED <<back, result, saved>>

TakesEnd ==
    /\ rcv.at = "header" /\ TakesPiece /\ "EOT" \in HeaderOf(to[1])
    /\ Leaves(<<"ACK">>, Len(saved)) /\ UNCHANGED saved

TakesOther ==
    /\ rcv.at = "header" /\ TakesPiece /\ "UND" \in HeaderOf(to[1])
    /\ Continues(Refusal, Asking) /\ UNCHANGED saved

\* A byte of the rest, or silence.
Gets(p) == (to = <<>> /\ p = Silence /\ to' = to) \/ (TakesPiece /\ p = to[1])

\* The steps of the receiver, apart.
LEMMA ReceiverSteps ==
    ASSUME XmTypes, Receiver
    PROVE  /\ UNCHANGED <<snd, again, happened>>
           /\ \/ TakesHeader \/ TakesEnd \/ TakesOther
              \/ RecvTimeout
              \/ \E p : Gets(p) /\ (RecvByte(p) \/ RecvPack(p))
<1>0. to \in Seq(Pieces) /\ rcv = [at |-> rcv.at, got |-> rcv.got]
  BY DEF XmTypes
<1>1. to # <<>> => Head(to) = to[1]
  BY <1>0, TailDrops
<1>2. CASE RecvHeader
  <2>0. to # <<>> /\ rcv.at = "header" /\ to' = Tail(to) /\ UNCHANGED <<saved, snd, again, happened>>
    BY <1>2 DEF RecvHeader
  <2>1. PICK h \in HeaderOf(to[1]) :
          \/ /\ h = "SOH"
             /\ rcv' = [rcv EXCEPT !.at = "number"]
             /\ UNCHANGED <<back, result>>
          \/ h = "EOT" /\ Leaves(<<"ACK">>, Len(saved))
          \/ h = "UND" /\ Continues(Refusal, Asking)
    BY <1>2, <1>1, <2>0 DEF RecvHeader
  <2>2. CASE h = "SOH"
    BY <2>0, <2>1, <2>2, <1>0 DEF TakesHeader, TakesPiece
  <2>3. CASE h = "EOT" /\ Leaves(<<"ACK">>, Len(saved))
    BY <2>0, <2>1, <2>3 DEF TakesEnd, TakesPiece
  <2>4. CASE h = "UND" /\ Continues(Refusal, Asking)
    BY <2>0, <2>1, <2>4 DEF TakesOther, TakesPiece
  <2> QED
    BY <2>0, <2>1, <2>2, <2>3, <2>4
<1>3. CASE RecvTimeout
  BY <1>3 DEF RecvTimeout
<1>4. CASE RecvRest
  <2>1. CASE to = <<>>
    BY <1>4, <2>1 DEF RecvRest, Gets
  <2>2. CASE to # <<>>
    BY <1>4, <2>2, <1>1 DEF RecvRest, Gets, TakesPiece
  <2> QED
    BY <2>1, <2>2
<1> QED
  BY <1>2, <1>3, <1>4 DEF Receiver

\* The steps of the sender, apart: what it takes to be no answer, its end, the
\* next packet or the same one, the end of the file, and the cancellation.
SendsNothing == UNCHANGED <<to, snd>>
SendsLess ==
    /\ UNCHANGED to
    /\ snd' = [blk |-> snd.blk, at |-> "quit"] \/ (snd' = [blk |-> snd.blk, at |-> "done"] /\ snd.at = "eot")
SendsPacket ==
    \E b \in Packets :
       /\ snd.at \in {"start", "block"} /\ (b = snd.blk \/ b = snd.blk + 1)
       /\ snd' = [blk |-> b, at |-> "block"] /\ to' = to \o Packet(b)
SendsEnd ==
    /\ snd.at \in {"block", "eot"} /\ snd.blk = NPackets
    /\ snd' = [blk |-> NPackets, at |-> "eot"] /\ to' = to \o <<Eot>>
SendsCancel ==
    /\ snd.at \in {"start", "block"} /\ snd' = [blk |-> snd.blk, at |-> "quit"]
    /\ to' = to \o <<Can, Can>>

SenderSteps == SenderReads \/ SenderTimeout \/ SenderCancels

\* The state of the sender.
LEMMA SenderIs ==
    ASSUME XmTypes
    PROVE  /\ snd = [blk |-> snd.blk, at |-> snd.at] /\ snd.blk \in Nat /\ snd.blk <= NPackets /\ NPackets \in Nat /\ NPackets > 0
           /\ to \in Seq(Pieces)
           /\ \A a : [snd EXCEPT !.at = a] = [blk |-> snd.blk, at |-> a]
           /\ \A b : [snd EXCEPT !.blk = b] = [blk |-> b, at |-> snd.at]
  BY XModemAssumption DEF XmTypes

\* What the sender does with a reply, by the reply.
ReplyDone(r) ==
    \/ SendsNothing /\ (Len(to) > LineMax \/ r = "C" \/ snd.at \notin {"start", "block", "eot"} \/ (r = "ACK" /\ snd.at = "start"))
    \/ SendsLess /\ ((r = "CAN" /\ snd'.at = "quit") \/ (r = "ACK" /\ snd.at = "eot"))
    \/ /\ r \in {"C", "NAK"} /\ snd.at = "start" /\ to' = to \o Packet(1) /\ snd' = [blk |-> 1, at |-> "block"]
    \/ /\ r = "NAK" /\ snd.at = "block" /\ to' = to \o Packet(snd.blk) /\ snd' = snd
    \/ /\ r = "C" /\ again /\ snd.at = "block" /\ snd.blk = 1 /\ to' = to \o Packet(1) /\ snd' = snd
    \/ /\ r = "ACK" /\ snd.at = "block" /\ snd.blk < NPackets
       /\ to' = to \o Packet(snd.blk + 1) /\ snd' = [blk |-> snd.blk + 1, at |-> "block"]
    \/ /\ r = "NAK" /\ snd.at = "eot" /\ SendsEnd
    \/ /\ r = "ACK" /\ snd.at = "block" /\ snd.blk = NPackets /\ SendsEnd

\* Which replies make the sender do what.
LEMMA ReplyDoes ==
    ASSUME XmTypes, NEW r \in Replies, SendReply(r)
    PROVE  ReplyDone(r)
<1>0. /\ snd = [blk |-> snd.blk, at |-> snd.at] /\ snd.blk \in Nat /\ snd.blk <= NPackets /\ to \in Seq(Pieces) /\ NPackets \in Nat
      /\ snd.at \in {"start", "block", "eot", "done", "quit"} /\ (snd.at = "eot" => snd.blk = NPackets)
      /\ \A a : [snd EXCEPT !.at = a] = [blk |-> snd.blk, at |-> a]
      /\ \A b : [snd EXCEPT !.blk = b] = [blk |-> b, at |-> snd.at]
  BY SenderIs DEF XmTypes
<1>1. to \o <<>> = to
  BY <1>0, ConcatEmptySeq
<1>2. CASE Len(to) > LineMax
  BY <1>1, <1>2 DEF SendReply, SenderPuts, SendsNothing, ReplyDone
<1>12. SUFFICES ASSUME ~ (Len(to) > LineMax) PROVE ReplyDone(r)
  BY <1>2
<1>3. CASE r = "CAN" /\ snd.at # "done"
  <2>1. SenderPuts([snd EXCEPT !.at = "quit"], <<>>)
    BY <1>3, <1>12 DEF SendReply
  <2> QED
    BY <1>0, <1>1, <1>3, <2>1 DEF SenderPuts, SendsLess, ReplyDone
<1>4. CASE r \in {"C", "NAK"} /\ snd.at = "start"
  <2>1. SenderPuts([blk |-> 1, at |-> "block"], Packet(1))
    BY <1>4, <1>12 DEF SendReply
  <2> QED
    BY <1>4, <2>1 DEF SenderPuts, ReplyDone
<1>5. CASE r = "NAK" /\ snd.at = "block"
  <2>1. SenderPuts(snd, Packet(snd.blk))
    BY <1>5, <1>12 DEF SendReply
  <2> QED
    BY <1>5, <2>1 DEF SenderPuts, ReplyDone
<1>6. CASE r = "NAK" /\ snd.at = "eot"
  <2>1. SenderPuts(snd, <<Eot>>)
    BY <1>6, <1>12 DEF SendReply
  <2> QED
    BY <1>0, <1>6, <2>1 DEF SenderPuts, SendsEnd, ReplyDone
<1>7. CASE r = "C" /\ snd.at = "block" /\ again /\ snd.blk = 1
  <2>1. SenderPuts(snd, Packet(1))
    BY <1>7, <1>12 DEF SendReply
  <2> QED
    BY <1>7, <2>1 DEF SenderPuts, ReplyDone
<1>8. CASE r = "ACK" /\ snd.at = "block" /\ snd.blk < NPackets
  <2>1. SenderPuts([blk |-> snd.blk + 1, at |-> snd.at], Packet(snd.blk + 1))
    BY <1>8, <1>0, <1>12 DEF SendReply
  <2> QED
    BY <1>8, <2>1 DEF SenderPuts, ReplyDone
<1>9. CASE r = "ACK" /\ snd.at = "block" /\ ~ (snd.blk < NPackets)
  <2>1. SenderPuts([blk |-> snd.blk, at |-> "eot"], <<Eot>>)
    BY <1>9, <1>0, <1>12 DEF SendReply
  <2>2. snd.blk = NPackets
    BY <1>9, <1>0
  <2> QED
    BY <1>9, <2>1, <2>2 DEF SenderPuts, SendsEnd, ReplyDone
<1>10. CASE r = "ACK" /\ snd.at = "eot"
  <2>1. SenderPuts([snd EXCEPT !.at = "done"], <<>>)
    BY <1>10, <1>12 DEF SendReply
  <2> QED
    BY <1>0, <1>1, <1>10, <2>1 DEF SenderPuts, SendsLess, ReplyDone
<1>11. CASE \/ r = "C" /\ snd.at = "block" /\ ~ (again /\ snd.blk = 1)
            \/ r = "C" /\ snd.at \in {"eot", "done", "quit"}
            \/ r = "NAK" /\ snd.at \in {"done", "quit"}
            \/ r = "ACK" /\ snd.at \in {"start", "done", "quit"}
            \/ r = "CAN" /\ snd.at = "done"
  <2>1. SenderPuts(snd, <<>>)
    BY <1>11, <1>12 DEF SendReply
  <2> QED
    BY <1>1, <1>11, <2>1 DEF SenderPuts, SendsNothing, ReplyDone
<1> QED
  BY <1>0, <1>3, <1>4, <1>5, <1>6, <1>7, <1>8, <1>9, <1>10, <1>11 DEF Replies

\* Every step of the sender is one of those.
LEMMA SenderDoes ==
    ASSUME XmTypes, SenderSteps
    PROVE  /\ UNCHANGED <<rcv, saved, result, again, happened>>
           /\ SendsNothing \/ SendsLess \/ SendsPacket \/ SendsEnd \/ SendsCancel
<1>0. /\ snd.blk \in Nat /\ snd.blk <= NPackets /\ NPackets \in Nat /\ NPackets > 0 /\ snd = [blk |-> snd.blk, at |-> snd.at]
      /\ \A a : [snd EXCEPT !.at = a] = [blk |-> snd.blk, at |-> a]
  BY SenderIs
<1>1. CASE SenderReads
  <2>0. back \in Seq(Replies) /\ back # <<>>
    BY <1>1 DEF SenderReads, XmTypes
  <2>1. Head(back) \in Replies /\ SendReply(Head(back)) /\ UNCHANGED <<rcv, saved, result, again, happened>>
    BY <1>1, <2>0, TailDrops DEF SenderReads
  <2>2. PICK r \in Replies : SendReply(r)
    BY <2>1
  <2>3. 1 \in Packets /\ (snd.at = "start" => snd.blk \in Nat) /\ (snd.at = "block" => snd.blk \in Packets)
        /\ (snd.blk < NPackets => snd.blk + 1 \in Packets)
    BY <1>0 DEF XmTypes, Packets
  <2>4. CASE snd.at = "start" /\ to' = to \o Packet(1) /\ snd' = [blk |-> 1, at |-> "block"]
    <3>1. snd.blk = 0
      BY <2>4 DEF XmTypes
    <3>2. 1 = snd.blk + 1
      BY <3>1
    <3>3. SendsPacket
      BY <2>3, <2>4, <3>2 DEF SendsPacket
    <3> QED
      BY <2>1, <3>3
  <2>5. CASE snd.at = "block" /\ to' = to \o Packet(snd.blk) /\ snd' = snd
    BY <2>1, <2>3, <2>5, <1>0 DEF SendsPacket
  <2>6. CASE snd.at = "block" /\ snd.blk < NPackets /\ to' = to \o Packet(snd.blk + 1) /\ snd' = [blk |-> snd.blk + 1, at |-> "block"]
    BY <2>1, <2>3, <2>6, <1>0 DEF SendsPacket
  <2>7. \/ SendsNothing \/ SendsLess \/ SendsEnd
        \/ snd.at = "start" /\ to' = to \o Packet(1) /\ snd' = [blk |-> 1, at |-> "block"]
        \/ snd.at = "block" /\ to' = to \o Packet(snd.blk) /\ snd' = snd
        \/ snd.at = "block" /\ snd.blk < NPackets /\ to' = to \o Packet(snd.blk + 1) /\ snd' = [blk |-> snd.blk + 1, at |-> "block"]
    <3>1. ReplyDone(r)
      BY <2>2, ReplyDoes
    <3> QED
      BY <3>1 DEF ReplyDone
  <2> QED
    BY <2>1, <2>4, <2>5, <2>6, <2>7
<1>2. CASE SenderTimeout
  <2>1. CASE snd.at = "eot"
    BY <1>0, <1>2, <2>1 DEF SenderTimeout, SenderPuts, SendsEnd, XmTypes
  <2>2. CASE snd.at = "block"
    <3>1. snd.blk \in Packets
      BY <1>0, <2>2 DEF XmTypes, Packets
    <3> QED
      BY <1>0, <1>2, <2>2, <3>1 DEF SenderTimeout, SenderPuts, SendsPacket
  <2> QED
    BY <1>2, <2>1, <2>2 DEF SenderTimeout
<1>3. CASE SenderCancels
  BY <1>0, <1>3 DEF SenderCancels, SenderPuts, SendsCancel
<1> QED
  BY <1>1, <1>2, <1>3 DEF SenderSteps

LineTypes(q) == q \in Seq(Pieces) /\ \A i \in 1 .. Len(q) : q[i].piece \in Kinds

\* A line that loses a piece has pieces.
LEMMA DropKeepsLine ==
    ASSUME NEW s, NEW t, NEW i \in 1 .. Len(s), LineTypes(s), t \in Seq(Pieces), Dropped(t, s, i)
    PROVE  LineTypes(t)
<1>1. Len(s) \in Nat /\ Len(t) = Len(s) - 1
  BY LenProperties DEF LineTypes, Dropped
<1>2. ASSUME NEW k \in 1 .. Len(t) PROVE t[k].piece \in Kinds
  <2>1. (IF k < i THEN k ELSE k + 1) \in 1 .. Len(s)
    BY <1>1
  <2> QED
    BY <2>1 DEF Dropped, LineTypes
<1> QED
  BY <1>2 DEF LineTypes

\* A line that gets pieces has pieces.
LEMMA PutKeepsLine ==
    ASSUME NEW s, NEW q, LineTypes(s), LineTypes(q)
    PROVE  LineTypes(s \o q)
<1>1. /\ s \o q \in Seq(Pieces) /\ Len(s \o q) = Len(s) + Len(q) /\ Len(s) \in Nat /\ Len(q) \in Nat
      /\ \A i \in 1 .. Len(s) : (s \o q)[i] = s[i]
      /\ \A j \in 1 .. Len(q) : (s \o q)[Len(s) + j] = q[j]
      /\ \A i \in 1 .. Len(s) + Len(q) : i \in 1 .. Len(s) \/ \E j \in 1 .. Len(q) : i = Len(s) + j
  BY PutBehind DEF LineTypes
<1>2. ASSUME NEW k \in 1 .. Len(s) + Len(q) PROVE (s \o q)[k].piece \in Kinds
  BY <1>1, <1>2 DEF LineTypes
<1> QED
  BY <1>1, <1>2 DEF LineTypes

\* What the sender puts on the line are pieces.
LEMMA PutsAreTyped ==
    /\ \A n \in Nat : LineTypes(Packet(n))
    /\ LineTypes(<<Eot>>) /\ LineTypes(<<Can, Can>>)
<1>1. ASSUME NEW n \in Nat PROVE LineTypes(Packet(n))
  <2>1. /\ Packet(n) \in Seq(Pieces) /\ Len(Packet(n)) = 3 /\ 1 .. 3 = {1, 2, 3}
        /\ Packet(n)[1] = Soh /\ Packet(n)[2] = Number(n) /\ Packet(n)[3] = Data(n)
    BY PacketIs
  <2> HIDE DEF Packet
  <2> QED
    BY <2>1 DEF LineTypes, Kinds, Soh, Number, Data
<1>2. LineTypes(<<Eot>>) /\ LineTypes(<<Can, Can>>)
  BY EndsAre DEF LineTypes, Kinds, Eot, Can
<1> QED
  BY <1>1, <1>2

\* The receiver only adds replies.
LEMMA ReplyTyped ==
    ASSUME back \in Seq(Replies), NEW r, r \in Seq(Replies), Reply(r)
    PROVE  back' \in Seq(Replies)
  BY ConcatProperties DEF Reply

\* What the receiver puts on the line are replies.
LEMMA RepliesAre ==
    /\ <<>> \in Seq(Replies) /\ Asking \in Seq(Replies) /\ Refusal \in Seq(Replies) /\ Refusal \o Asking \in Seq(Replies)
    /\ <<>> \o Asking \in Seq(Replies) /\ <<"ACK">> \o <<>> \in Seq(Replies) /\ <<"ACK">> \in Seq(Replies) /\ <<"CAN">> \in Seq(Replies)
<1>1. /\ <<>> \in Seq(Replies) /\ Asking \in Seq(Replies) /\ Refusal \in Seq(Replies)
      /\ <<"ACK">> \in Seq(Replies) /\ <<"CAN">> \in Seq(Replies)
  <2>1. <<>> \in Seq(Replies) /\ <<"C">> \in Seq(Replies) /\ <<"NAK">> \in Seq(Replies)
        /\ <<"ACK">> \in Seq(Replies) /\ <<"CAN">> \in Seq(Replies)
    BY DEF Replies
  <2> QED
    BY <2>1 DEF Asking, Refusal
<1> QED
  BY <1>1, ConcatProperties

ReceiverTyped(at) ==
    /\ rcv' \in [at : {"header", "number", "data", "done"}, got : {<<>>} \cup {<<p>> : p \in Pieces}]
    /\ rcv'.at = at /\ (rcv'.at = "data" => rcv'.got # <<>>)

\* xmodem_receive returns: its last reply and its result.
LEMMA LeavesTyped ==
    ASSUME back \in Seq(Replies)
    PROVE  /\ Leaves(<<"ACK">>, Len(saved)) => back' = back \o <<"ACK">> /\ result' = Len(saved)
           /\ Leaves(<<"CAN">>, -1) => back' = back \o <<"CAN">> /\ result' = -1
           /\ Leaves(<<"ACK">>, Len(saved)) \/ Leaves(<<"CAN">>, -1) => back' \in Seq(Replies) /\ ReceiverTyped("done")
<1>1. ASSUME NEW q, q \in Seq(Replies), back' = back \o q PROVE back' \in Seq(Replies)
  BY <1>1, ConcatProperties
<1>2. /\ Leaves(<<"ACK">>, Len(saved)) => back' = back \o <<"ACK">> /\ result' = Len(saved)
      /\ Leaves(<<"CAN">>, -1) => back' = back \o <<"CAN">> /\ result' = -1
  BY DEF Leaves, Reply
<1>3. Leaves(<<"ACK">>, Len(saved)) \/ Leaves(<<"CAN">>, -1) => ReceiverTyped("done")
  BY DEF Leaves, ReceiverTyped
<1> QED
  BY <1>1, <1>2, <1>3, RepliesAre

\* The loop goes on: the replies it leaves.
LEMMA ContinuesTyped ==
    ASSUME back \in Seq(Replies)
    PROVE  /\ Continues(Refusal, Asking) => back' = back \o (Refusal \o Asking)
           /\ Continues(<<>>, Asking) => back' = back \o (<<>> \o Asking)
           /\ Continues(<<"ACK">>, <<>>) => back' = back \o (<<"ACK">> \o <<>>)
           /\ Continues(Refusal, Asking) \/ Continues(<<>>, Asking) \/ Continues(<<"ACK">>, <<>>)
              => back' \in Seq(Replies) /\ result' = result /\ ReceiverTyped("header")
<1>1. ASSUME NEW q, q \in Seq(Replies), back' = back \o q PROVE back' \in Seq(Replies)
  BY <1>1, ConcatProperties
<1>2. /\ Continues(Refusal, Asking) => back' = back \o (Refusal \o Asking)
      /\ Continues(<<>>, Asking) => back' = back \o (<<>> \o Asking)
      /\ Continues(<<"ACK">>, <<>>) => back' = back \o (<<"ACK">> \o <<>>)
  BY DEF Continues, Reply
<1>3. Continues(Refusal, Asking) \/ Continues(<<>>, Asking) \/ Continues(<<"ACK">>, <<>>)
      => result' = result /\ ReceiverTyped("header")
  BY DEF Continues, ReceiverTyped
<1> QED
  BY <1>1, <1>2, <1>3, RepliesAre

\* What is read is a piece.
LEMMA GetsTyped ==
    ASSUME XmTypes, NEW p, Gets(p)
    PROVE  p \in Pieces /\ LineTypes(to')
<1>0. LineTypes(to)
  BY DEF XmTypes, LineTypes
<1>1. CASE to = <<>> /\ p = Silence /\ to' = to
  BY <1>0, <1>1 DEF Silence, Pieces
<1>2. CASE TakesPiece /\ p = to[1]
  <2>1. to # <<>> /\ to \in Seq(Pieces) /\ to' = Tail(to)
    BY <1>2 DEF TakesPiece, XmTypes
  <2>2. 1 \in 1 .. Len(to) /\ to[1] \in Pieces /\ Tail(to) \in Seq(Pieces) /\ Dropped(Tail(to), to, 1)
    BY <2>1, TailDrops
  <2> QED
    BY <1>0, <1>2, <2>1, <2>2, DropKeepsLine
<1> QED
  BY <1>1, <1>2 DEF Gets

\* The line without what is read.
LEMMA TakenTyped ==
    ASSUME XmTypes, TakesPiece
    PROVE  LineTypes(to')
  BY GetsTyped DEF Gets

\* The receiver keeps the types.
LEMMA ReceiverKeepsTypes ==
    ASSUME XmTypes, InOrder, Receiver
    PROVE  XmTypes'
<1>0. /\ back \in Seq(Replies) /\ result \in Int /\ Len(saved) \in Nat /\ LineTypes(to)
      /\ rcv \in [at : {"header", "number", "data", "done"}, got : {<<>>} \cup {<<p>> : p \in Pieces}]
      /\ UNCHANGED <<snd, again, happened>>
  BY LenProperties, ReceiverSteps DEF XmTypes, InOrder, LineTypes
<1>1. SUFFICES /\ LineTypes(to') /\ back' \in Seq(Replies) /\ result' \in Int
               /\ \E at \in {"header", "number", "data", "done"} : ReceiverTyped(at)
  BY <1>0 DEF XmTypes, LineTypes, ReceiverTyped
<1>2. CASE TakesHeader
  BY <1>0, <1>2, TakenTyped DEF TakesHeader, ReceiverTyped
<1>3. CASE TakesEnd
  BY <1>0, <1>3, TakenTyped, LeavesTyped, RepliesAre DEF TakesEnd
<1>4. CASE TakesOther
  BY <1>0, <1>4, TakenTyped, ContinuesTyped, RepliesAre DEF TakesOther
<1>5. CASE RecvTimeout
  <2>1. UNCHANGED to /\ (Continues(<<>>, Asking) \/ Leaves(<<"CAN">>, -1))
    BY <1>5 DEF RecvTimeout
  <2>2. CASE Continues(<<>>, Asking)
    BY <1>0, <2>1, <2>2, ContinuesTyped, RepliesAre
  <2>3. CASE Leaves(<<"CAN">>, -1)
    BY <1>0, <2>1, <2>3, LeavesTyped, RepliesAre
  <2> QED
    BY <2>1, <2>2, <2>3
<1>6. ASSUME NEW p, Gets(p), RecvByte(p) \/ RecvPack(p)
      PROVE  /\ LineTypes(to') /\ back' \in Seq(Replies) /\ result' \in Int
             /\ \E at \in {"header", "number", "data", "done"} : ReceiverTyped(at)
  <2>0. p \in Pieces /\ LineTypes(to')
    BY <1>6, GetsTyped
  <2>1. CASE RecvByte(p)
    BY <1>0, <2>0, <2>1 DEF RecvByte, ReceiverTyped
  <2>2. CASE Continues(Refusal, Asking)
    BY <1>0, <2>0, <2>2, ContinuesTyped, RepliesAre
  <2>3. CASE Continues(<<"ACK">>, <<>>)
    BY <1>0, <2>0, <2>3, ContinuesTyped, RepliesAre
  <2>4. CASE Leaves(<<"CAN">>, -1)
    BY <1>0, <2>0, <2>4, LeavesTyped, RepliesAre
  <2> QED
    BY <1>6, <2>1, <2>2, <2>3, <2>4 DEF RecvPack
<1> QED
  BY <1>2, <1>3, <1>4, <1>5, <1>6, ReceiverSteps

\* The sender keeps the types.
LEMMA SenderKeepsTypes ==
    ASSUME XmTypes, SenderSteps
    PROVE  XmTypes'
<1>0. /\ back \in Seq(Replies) /\ LineTypes(to) /\ UNCHANGED <<rcv, saved, result, again, happened>>
      /\ NPackets \in Nat /\ NPackets > 0 /\ snd \in [blk : 0 .. NPackets, at : {"start", "block", "eot", "done", "quit"}]
  BY SenderDoes, XModemAssumption DEF XmTypes, LineTypes
<1>1. back' \in Seq(Replies)
  <2>1. CASE SenderReads
    BY <1>0, <2>1, TailDrops DEF SenderReads
  <2>2. CASE SenderTimeout \/ SenderCancels
    BY <1>0, <2>2 DEF SenderTimeout, SenderCancels
  <2> QED
    BY <2>1, <2>2 DEF SenderSteps
<1>2. /\ LineTypes(to') /\ snd' \in [blk : 0 .. NPackets, at : {"start", "block", "eot", "done", "quit"}]
      /\ snd'.at = "block" => snd'.blk > 0
      /\ snd'.at = "start" => snd'.blk = 0
      /\ snd'.at = "eot" => snd'.blk = NPackets
  <2>1. CASE SendsNothing
    BY <1>0, <2>1 DEF SendsNothing, XmTypes
  <2>2. CASE SendsLess
    BY <1>0, <2>2 DEF SendsLess
  <2>3. CASE SendsPacket
    BY <1>0, <2>3, PutKeepsLine, PutsAreTyped DEF SendsPacket, Packets
  <2>4. CASE SendsEnd
    BY <1>0, <2>4, PutKeepsLine, PutsAreTyped DEF SendsEnd
  <2>5. CASE SendsCancel
    BY <1>0, <2>5, PutKeepsLine, PutsAreTyped DEF SendsCancel
  <2> QED
    BY <2>1, <2>2, <2>3, <2>4, <2>5, SenderDoes
<1> QED
  BY <1>0, <1>1, <1>2 DEF XmTypes, LineTypes

\* t is s but for what is intact.
HasDamaged(t, s) ==
    /\ t \in Seq(Pieces) /\ Len(t) = Len(s)
    /\ \A k \in 1 .. Len(s) : t[k].piece = s[k].piece /\ t[k].blk = s[k].blk

\* What the faults do: faults are not forgotten, and each changes one thing.
LEMMA FaultIs ==
    ASSUME XmTypes, NEW f, Fault(f)
    PROVE  /\ UNCHANGED <<rcv, saved, result, snd, again>>
           /\ happened' \in Seq(Faults) /\ Happened(f)'
           /\ \A g : Happened(g) => Happened(g)'
<1>0. happened \in Seq(Faults) /\ f \in Faults /\ happened' = Append(happened, f) /\ Len(happened) \in Nat
      /\ UNCHANGED <<rcv, saved, result, snd, again>>
  BY LenProperties DEF XmTypes, Fault
<1>1. /\ happened' \in Seq(Faults) /\ Len(happened') = Len(happened) + 1
      /\ \A i \in 1 .. Len(happened) : happened'[i] = happened[i]
      /\ happened'[Len(happened) + 1] = f
  BY <1>0, AppendProperties
<1>2. Len(happened) + 1 \in 1 .. Len(happened') /\ \A i \in 1 .. Len(happened) : i \in 1 .. Len(happened')
  BY <1>0, <1>1
<1> QED
  BY <1>0, <1>1, <1>2 DEF Happened

\* The three faults apart.
LEMMA LineDoes ==
    ASSUME XmTypes, Line
    PROVE  /\ UNCHANGED <<rcv, saved, result, snd, again>>
           /\ happened' \in Seq(Faults)
           /\ \A g : Happened(g) => Happened(g)'
           /\ \/ HasDamaged(to', to) /\ UNCHANGED back /\ Happened("data")'
              \/ (\E i \in 1 .. Len(to) : to' \in Seq(Pieces) /\ Dropped(to', to, i)) /\ UNCHANGED back /\ Happened("piece")'
              \/ UNCHANGED to /\ back' \in Seq(Replies) /\ Happened("reply")'
<1>0. to \in Seq(Pieces) /\ back \in Seq(Replies) /\ Len(to) \in Nat
  BY LenProperties DEF XmTypes
<1>1. CASE DamageData
  <2>1. Fault("data") /\ UNCHANGED back
    BY <1>1 DEF DamageData
  <2>2. PICK i \in 1 .. Len(to) : to' = [to EXCEPT ![i].ok = FALSE]
    BY <1>1 DEF DamageData
  <2>3. to[i] \in Pieces
    BY <1>0, ElementOfSeq
  <2>4. [to[i] EXCEPT !.ok = FALSE] \in Pieces /\ to' = [to EXCEPT ![i] = [to[i] EXCEPT !.ok = FALSE]]
    BY <2>2, <2>3 DEF Pieces
  <2>5. PICK p \in Pieces : p = [to[i] EXCEPT !.ok = FALSE]
    BY <2>4
  <2>6. p.piece = to[i].piece /\ p.blk = to[i].blk
    BY <2>3, <2>5 DEF Pieces
  <2>7. to' \in Seq(Pieces) /\ Len(to') = Len(to) /\ \A k \in 1 .. Len(to) : to'[k] = IF k = i THEN p ELSE to[k]
    BY <1>0, <2>4, <2>5, ExceptSeq
  <2>8. HasDamaged(to', to)
    BY <2>6, <2>7 DEF HasDamaged
  <2> QED
    BY <2>1, <2>8, FaultIs
<1>2. CASE LosePiece
  <2>1. Fault("piece") /\ UNCHANGED back
    BY <1>2 DEF LosePiece
  <2>2. PICK i \in 1 .. Len(to) : to' = SubSeq(to, 1, i - 1) \o SubSeq(to, i + 1, Len(to))
    BY <1>2 DEF LosePiece
  <2>3. to' \in Seq(Pieces) /\ Dropped(to', to, i)
    BY <1>0, <2>2, LostDrops
  <2> QED
    BY <2>1, <2>3, FaultIs
<1>3. CASE DamageReply
  <2>1. Fault("reply") /\ UNCHANGED to
    BY <1>3 DEF DamageReply
  <2>2. PICK i \in 1 .. Len(back) :
          \/ back' = SubSeq(back, 1, i - 1) \o SubSeq(back, i + 1, Len(back))
          \/ back' = [back EXCEPT ![i] = "NAK"]
    BY <1>3 DEF DamageReply
  <2>3. "NAK" \in Replies
    BY DEF Replies
  <2>4. back' \in Seq(Replies)
    <3>1. CASE back' = SubSeq(back, 1, i - 1) \o SubSeq(back, i + 1, Len(back))
      BY <1>0, <3>1, LostDrops
    <3>2. CASE back' = [back EXCEPT ![i] = "NAK"]
      BY <1>0, <2>3, <3>2, ExceptSeq
    <3> QED
      BY <2>2, <3>1, <3>2
  <2> QED
    BY <2>1, <2>4, FaultIs
<1> QED
  BY <1>1, <1>2, <1>3 DEF Line

\* A damaged piece is a piece.
LEMMA DamageKeepsLine ==
    ASSUME NEW s, NEW t, LineTypes(s), HasDamaged(t, s)
    PROVE  LineTypes(t)
  BY DEF LineTypes, HasDamaged

\* The line keeps the types.
LEMMA LineKeepsTypes ==
    ASSUME XmTypes, Line
    PROVE  XmTypes'
<1>0. LineTypes(to) /\ UNCHANGED <<rcv, saved, result, snd, again>> /\ happened' \in Seq(Faults) /\ back \in Seq(Replies)
  BY LineDoes DEF XmTypes, LineTypes
<1>1. LineTypes(to') /\ back' \in Seq(Replies)
  BY <1>0, LineDoes, DamageKeepsLine, DropKeepsLine
<1> QED
  BY <1>0, <1>1 DEF XmTypes, LineTypes

-----------------------------------------------------------------------------
\* Blocks stay in order when none moves.
LEMMA SameKeepsOrder ==
    ASSUME InOrder, UNCHANGED <<to, saved>>, snd'.blk = snd.blk
    PROVE  InOrder'
  BY DEF InOrder

\* Damage leaves the blocks in order.
LEMMA DamageKeepsOrder ==
    ASSUME XmTypes, InOrder, HasDamaged(to', to), UNCHANGED <<saved, snd>>
    PROVE  InOrder'
<1>1. Len(to') = Len(to) /\ \A k \in 1 .. Len(to) : to'[k].piece = to[k].piece /\ to'[k].blk = to[k].blk
  BY DEF HasDamaged
<1> QED
  BY <1>1 DEF InOrder

\* Where the places of a shorter line were.
LEMMA WherePieces ==
    ASSUME XmTypes, NEW i \in 1 .. Len(to), Dropped(to', to, i)
    PROVE  /\ \A k \in 1 .. Len(to') : \E n \in 1 .. Len(to) : to'[k] = to[n] /\ n >= k /\ n <= k + 1
           /\ \A k, l \in 1 .. Len(to') : k < l => \E m, n \in 1 .. Len(to) : m < n /\ to'[k] = to[m] /\ to'[l] = to[n]
<1>1. Len(to) \in Nat /\ Len(to') = Len(to) - 1 /\ \A k \in 1 .. Len(to') : to'[k] = to[IF k < i THEN k ELSE k + 1]
  BY LenProperties DEF Dropped, XmTypes
<1>2. PICK z \in Nat : z = Len(to)
  BY <1>1
<1>3. \A k \in 1 .. z - 1 : (IF k < i THEN k ELSE k + 1) \in 1 .. z
  BY <1>2
<1>4. \A k, l \in 1 .. z - 1 : k < l => (IF k < i THEN k ELSE k + 1) < (IF l < i THEN l ELSE l + 1)
  BY <1>2
<1>5. \A k \in 1 .. z - 1 : (IF k < i THEN k ELSE k + 1) >= k /\ (IF k < i THEN k ELSE k + 1) <= k + 1
  BY <1>2
<1> QED
  BY <1>1, <1>2, <1>3, <1>4, <1>5

\* A piece less leaves the blocks in order.
LEMMA DropKeepsOrder ==
    ASSUME XmTypes, InOrder, NEW i \in 1 .. Len(to), Dropped(to', to, i), UNCHANGED saved, snd'.blk = snd.blk
    PROVE  InOrder'
<1>1. /\ \A k \in 1 .. Len(to') : \E n \in 1 .. Len(to) : to'[k] = to[n]
      /\ \A k, l \in 1 .. Len(to') : k < l => \E m, n \in 1 .. Len(to) : m < n /\ to'[k] = to[m] /\ to'[l] = to[n]
  BY WherePieces
<1>2. \A k \in 1 .. Len(to') : to'[k].piece = "dat" => to'[k].blk \in 1 .. snd.blk
  BY <1>1 DEF InOrder
<1>3. ASSUME NEW k \in 1 .. Len(to'), NEW l \in 1 .. Len(to'), k < l, to'[k].piece = "dat", to'[l].piece = "dat"
      PROVE  to'[k].blk <= to'[l].blk
  <2>1. PICK m, n \in 1 .. Len(to) : m < n /\ to'[k] = to[m] /\ to'[l] = to[n]
    BY <1>1, <1>3
  <2>2. m < n /\ to[m].piece = "dat" /\ to[n].piece = "dat"
    BY <1>3, <2>1
  <2>3. to[m].blk <= to[n].blk
    BY <2>2 DEF InOrder
  <2> QED
    BY <2>1, <2>3
<1>4. \A n \in 1 .. Len(saved), j \in 1 .. Len(to') : to'[j].piece = "dat" => saved[n] <= to'[j].blk
  BY <1>1 DEF InOrder
<1> QED
  BY <1>2, <1>3, <1>4 DEF InOrder

\* The sender puts no block behind a later one.
LEMMA PutKeepsOrder ==
    ASSUME XmTypes, InOrder, NEW q \in Seq(Pieces), to' = to \o q, UNCHANGED saved,
           snd'.blk \in Nat, snd'.blk >= snd.blk,
           \A j \in 1 .. Len(q) : q[j].piece = "dat" => q[j].blk = snd'.blk /\ q[j].blk > 0,
           \A j, k \in 1 .. Len(q) : q[j].piece = "dat" /\ q[k].piece = "dat" => j = k
    PROVE  InOrder'
<1>0. to \in Seq(Pieces) /\ snd.blk \in Nat /\ \A k \in 1 .. Len(saved) : saved[k] \in Nat
  <2>1. saved \in Seq(Packets) /\ Packets \subseteq Nat
    BY XModemAssumption DEF InOrder, Packets
  <2> QED
    BY <2>1, SenderIs, ElementOfSeq
<1>1. /\ Len(to') = Len(to) + Len(q) /\ Len(to) \in Nat /\ Len(q) \in Nat
      /\ \A i \in 1 .. Len(to) : to'[i] = to[i]
      /\ \A j \in 1 .. Len(q) : to'[Len(to) + j] = q[j]
      /\ \A i \in 1 .. Len(to) + Len(q) : i \in 1 .. Len(to) \/ \E j \in 1 .. Len(q) : i = Len(to) + j
  BY <1>0, PutBehind
<1>2. \A i \in 1 .. Len(to) : to[i].piece = "dat" => to[i].blk \in 1 .. snd.blk
  BY DEF InOrder
<1>3. ASSUME NEW i \in 1 .. Len(to'), to'[i].piece = "dat"
      PROVE  to'[i].blk \in 1 .. snd'.blk /\ to'[i].blk \in Nat
  <2>1. CASE i \in 1 .. Len(to)
    BY <1>0, <1>1, <1>2, <1>3, <2>1
  <2>2. CASE \E j \in 1 .. Len(q) : i = Len(to) + j
    BY <1>1, <1>3, <2>2
  <2> QED
    BY <1>1, <2>1, <2>2
<1>4. \A i \in 1 .. Len(saved) : saved[i] <= snd'.blk
  BY <1>0 DEF InOrder
<1>5. ASSUME NEW i \in 1 .. Len(to'), NEW j \in 1 .. Len(to'), i < j, to'[i].piece = "dat", to'[j].piece = "dat"
      PROVE  to'[i].blk <= to'[j].blk
  <2>1. CASE j \in 1 .. Len(to)
    <3>1. i \in 1 .. Len(to)
      BY <1>1, <1>5, <2>1
    <3> QED
      BY <1>1, <1>5, <2>1, <3>1 DEF InOrder
  <2>2. CASE \E k \in 1 .. Len(q) : j = Len(to) + k
    <3>1. to'[j].blk = snd'.blk
      BY <1>1, <1>5, <2>2
    <3> QED
      BY <1>3, <1>5, <3>1
  <2> QED
    BY <1>1, <2>1, <2>2
<1>6. ASSUME NEW n \in 1 .. Len(saved), NEW j \in 1 .. Len(to'), to'[j].piece = "dat"
      PROVE  saved[n] <= to'[j].blk
  <2>1. CASE j \in 1 .. Len(to)
    BY <1>1, <1>6, <2>1 DEF InOrder
  <2>2. CASE \E k \in 1 .. Len(q) : j = Len(to) + k
    <3>0. PICK k \in 1 .. Len(q) : j = Len(to) + k
      BY <2>2
    <3>2. to'[j] = q[k] /\ q[k].piece = "dat"
      BY <1>1, <1>6, <3>0
    <3>1. to'[j].blk = snd'.blk
      BY <3>2
    <3> QED
      BY <1>4, <3>1
  <2> QED
    BY <1>1, <2>1, <2>2
<1> QED
  BY <1>3, <1>4, <1>5, <1>6 DEF InOrder

\* The receiver saves the block it has just taken from the line.
LEMMA SaveKeepsOrder ==
    ASSUME XmTypes, InOrder, TakesPiece, to[1].piece = "dat", saved' = Append(saved, to[1].blk), snd'.blk = snd.blk
    PROVE  InOrder'
<1>0. to \in Seq(Pieces) /\ snd.blk \in Nat /\ snd.blk <= NPackets /\ saved \in Seq(Packets) /\ to # <<>> /\ NPackets \in Nat
  BY SenderIs DEF InOrder, TakesPiece
<1>1. 1 \in 1 .. Len(to) /\ Dropped(to', to, 1)
  BY <1>0, TailDrops DEF TakesPiece
<1>2. /\ \A k \in 1 .. Len(to') : \E n \in 1 .. Len(to) : to'[k] = to[n] /\ n > 1
      /\ \A k, l \in 1 .. Len(to') : k < l => \E m, n \in 1 .. Len(to) : m < n /\ to'[k] = to[m] /\ to'[l] = to[n]
  <2>1. Len(to) \in Nat /\ Len(to') = Len(to) - 1 /\ \A k \in 1 .. Len(to') : to'[k] = to[IF k < 1 THEN k ELSE k + 1]
    BY <1>0, <1>1, LenProperties DEF Dropped
  <2>2. \A k \in 1 .. Len(to') : k + 1 \in 1 .. Len(to) /\ k + 1 > 1 /\ to'[k] = to[k + 1]
    BY <2>1
  <2> QED
    BY <1>1, <2>2, WherePieces
<1>3. to[1].blk \in 1 .. snd.blk /\ to[1].blk \in Packets
  <2>1. to[1].blk \in 1 .. snd.blk
    BY <1>1 DEF InOrder
  <2> QED
    BY <1>0, <2>1 DEF Packets
<1>4. /\ saved' \in Seq(Packets) /\ Len(saved') = Len(saved) + 1 /\ Len(saved) \in Nat
      /\ \A i \in 1 .. Len(saved) : saved'[i] = saved[i]
      /\ saved'[Len(saved) + 1] = to[1].blk
      /\ \A i \in 1 .. Len(saved') : i \in 1 .. Len(saved) \/ i = Len(saved) + 1
  <2>1. saved' \in Seq(Packets) /\ Len(saved') = Len(saved) + 1 /\ Len(saved) \in Nat
        /\ \A i \in 1 .. Len(saved) : saved'[i] = saved[i]
        /\ saved'[Len(saved) + 1] = to[1].blk
    BY <1>0, <1>3, AppendProperties, LenProperties
  <2>2. \A i \in 1 .. Len(saved') : i \in 1 .. Len(saved) \/ i = Len(saved) + 1
    BY <2>1
  <2> QED
    BY <2>1, <2>2
<1>5. \A i \in 1 .. Len(saved') : saved'[i] <= to[1].blk
  <2>1. \A i \in 1 .. Len(saved) : saved[i] <= to[1].blk
    BY <1>1 DEF InOrder
  <2>2. to[1].blk <= to[1].blk
    BY <1>3
  <2> QED
    BY <1>4, <2>1, <2>2
<1>6. \A i \in 1 .. Len(saved') : saved'[i] \in Nat
  <2>1. Packets \subseteq Nat
    BY DEF Packets
  <2> QED
    BY <1>4, <2>1, ElementOfSeq
<1>7. \A i \in 1 .. Len(saved') : saved'[i] <= snd.blk
  BY <1>0, <1>3, <1>5, <1>6
<1>8. \A k \in 1 .. Len(to') : to'[k].piece = "dat" => to'[k].blk \in 1 .. snd.blk /\ to[1].blk <= to'[k].blk
  BY <1>1, <1>2 DEF InOrder
<1>9. \A i \in 1 .. Len(saved'), k \in 1 .. Len(to') : to'[k].piece = "dat" => saved'[i] <= to'[k].blk
  BY <1>3, <1>5, <1>6, <1>8
<1>10. \A i, j \in 1 .. Len(saved') : i < j => saved'[i] <= saved'[j]
  <2> SUFFICES ASSUME NEW i \in 1 .. Len(saved'), NEW j \in 1 .. Len(saved'), i < j PROVE saved'[i] <= saved'[j]
    OBVIOUS
  <2>1. CASE j = Len(saved) + 1
    BY <1>4, <1>5, <2>1
  <2>2. CASE j \in 1 .. Len(saved)
    <3>1. i \in 1 .. Len(saved)
      BY <1>4, <2>2
    <3> QED
      BY <1>4, <2>2, <3>1 DEF InOrder
  <2> QED
    BY <1>4, <2>1, <2>2
<1>11. ASSUME NEW k \in 1 .. Len(to'), NEW l \in 1 .. Len(to'), k < l, to'[k].piece = "dat", to'[l].piece = "dat"
      PROVE  to'[k].blk <= to'[l].blk
  <2>1. PICK m, n \in 1 .. Len(to) : m < n /\ to'[k] = to[m] /\ to'[l] = to[n]
    BY <1>2, <1>11
  <2>2. m < n /\ to[m].piece = "dat" /\ to[n].piece = "dat"
    BY <1>11, <2>1
  <2>3. to[m].blk <= to[n].blk
    BY <2>2 DEF InOrder
  <2> QED
    BY <2>1, <2>3
<1> QED
  BY <1>4, <1>7, <1>8, <1>9, <1>10, <1>11 DEF InOrder

\* Only a block that came whole is saved.
LEMMA PackSaves ==
    ASSUME NEW g, NEW p, Gets(p), GoodPack(g, p), saved' = Accepted(p)
    PROVE  TakesPiece /\ p = to[1] /\ to[1].piece = "dat" /\ saved' = Append(saved, to[1].blk)
<1>1. p.piece = "dat" /\ p.ok
  BY DEF GoodPack
<1>2. p # Silence
  BY <1>1 DEF Silence
<1> QED
  BY <1>1, <1>2 DEF Gets, Accepted

\* The line without its first piece, which was read.
LEMMA TakenDrops ==
    ASSUME XmTypes, TakesPiece
    PROVE  1 \in 1 .. Len(to) /\ Dropped(to', to, 1) /\ to' \in Seq(Pieces) /\ to[1] \in Pieces /\ Tail(to) = to'
  BY TailDrops DEF TakesPiece, XmTypes

\* The receiver keeps blocks in order.
LEMMA ReceiverKeepsOrder ==
    ASSUME XmTypes, InOrder, Receiver
    PROVE  InOrder'
<1>0. snd'.blk = snd.blk
  BY ReceiverSteps
<1>1. CASE TakesPiece /\ UNCHANGED saved
  BY <1>0, <1>1, TakenDrops, DropKeepsOrder
<1>2. CASE UNCHANGED <<to, saved>>
  BY <1>0, <1>2, SameKeepsOrder
<1>3. CASE TakesHeader \/ TakesEnd \/ TakesOther
  BY <1>1, <1>3 DEF TakesHeader, TakesEnd, TakesOther
<1>4. CASE RecvTimeout
  BY <1>2, <1>4 DEF RecvTimeout
<1>5. ASSUME NEW p, Gets(p), RecvByte(p) \/ RecvPack(p)
      PROVE  InOrder'
  <2>1. CASE UNCHANGED saved
    BY <1>1, <1>2, <1>5, <2>1 DEF Gets
  <2>2. CASE GoodPack(rcv.got[1], p) /\ saved' = Accepted(p)
    BY <1>0, <1>5, <2>2, PackSaves, SaveKeepsOrder
  <2> QED
    BY <1>5, <2>1, <2>2 DEF RecvByte, RecvPack
<1> QED
  BY <1>3, <1>4, <1>5, ReceiverSteps

\* The sender keeps blocks in order.
LEMMA SenderKeepsOrder ==
    ASSUME XmTypes, InOrder, SenderSteps
    PROVE  InOrder'
<1>0. UNCHANGED saved /\ snd.blk \in Nat /\ snd.blk <= NPackets /\ NPackets \in Nat
  BY SenderIs, SenderDoes
<1>1. CASE SendsNothing \/ SendsLess
  BY <1>0, <1>1, SameKeepsOrder DEF SendsNothing, SendsLess
<1>2. CASE SendsPacket
  <2>1. PICK b \in Packets : (b = snd.blk \/ b = snd.blk + 1) /\ snd' = [blk |-> b, at |-> "block"] /\ to' = to \o Packet(b)
    BY <1>2 DEF SendsPacket
  <2>2. b \in Nat /\ b > 0 /\ b >= snd.blk /\ snd'.blk = b
    BY <1>0, <2>1 DEF Packets
  <2>3. PICK q \in Seq(Pieces) : q = Packet(b)
    BY <2>2, PacketIs
  <2>4. Len(q) = 3 /\ 1 .. 3 = {1, 2, 3} /\ q[1] = Soh /\ q[2] = Number(b) /\ q[3] = Data(b)
    BY <2>2, <2>3, PacketIs
  <2>5. \A j \in 1 .. Len(q) : q[j].piece = "dat" => j = 3 /\ q[j].blk = b
    BY <2>4 DEF Soh, Number, Data
  <2> QED
    BY <1>0, <2>1, <2>2, <2>3, <2>5, PutKeepsOrder
<1>3. CASE SendsEnd
  <2>1. \A j \in 1 .. Len(<<Eot>>) : <<Eot>>[j].piece # "dat"
    BY EndsAre DEF Eot
  <2>2. <<Eot>> \in Seq(Pieces) /\ to' = to \o <<Eot>> /\ snd'.blk \in Nat /\ snd'.blk >= snd.blk
    BY <1>0, <1>3, EndsAre DEF SendsEnd
  <2> QED
    BY <1>0, <2>1, <2>2, PutKeepsOrder
<1>4. CASE SendsCancel
  <2>1. \A j \in 1 .. Len(<<Can, Can>>) : <<Can, Can>>[j].piece # "dat"
    BY EndsAre DEF Can
  <2>2. <<Can, Can>> \in Seq(Pieces) /\ to' = to \o <<Can, Can>> /\ snd'.blk \in Nat /\ snd'.blk >= snd.blk
    BY <1>0, <1>4, EndsAre DEF SendsCancel
  <2> QED
    BY <1>0, <2>1, <2>2, PutKeepsOrder
<1> QED
  BY <1>1, <1>2, <1>3, <1>4, SenderDoes

\* The line keeps blocks in order.
LEMMA LineKeepsOrder ==
    ASSUME XmTypes, InOrder, Line
    PROVE  InOrder'
<1>0. UNCHANGED <<rcv, saved, result, snd, again>> /\ snd'.blk = snd.blk
  BY LineDoes
<1> QED
  BY <1>0, LineDoes, DamageKeepsOrder, DropKeepsOrder, SameKeepsOrder

-----------------------------------------------------------------------------
\* The rest of a line of whole packets.
LEMMA TailWhole ==
    ASSUME NEW s \in Seq(Pieces), NEW t \in Seq(Pieces), s # <<>>, Dropped(t, s, 1), Whole(s)
    PROVE  /\ Whole(t) /\ Len(t) = Len(s) - 1 /\ \A k \in 1 .. Len(t) : t[k] = s[k + 1]
           /\ t # <<>> => t[1].piece \in After(s[1].piece) /\ t[1] = s[2] /\ t[Len(t)] = s[Len(s)]
           /\ s[1].piece \in {"hdr", "num"} => t # <<>>
<1>1. Len(s) \in Nat /\ Len(s) > 0 /\ Len(t) = Len(s) - 1 /\ (t # <<>> => Len(t) > 0) /\ (t = <<>> => Len(t) = 0)
      /\ \A k \in 1 .. Len(t) : t[k] = s[IF k < 1 THEN k ELSE k + 1]
  BY LenProperties DEF Dropped
<1>2. PICK z \in Nat : z = Len(s)
  BY <1>1
<1>3. z > 0 /\ Len(t) = z - 1 /\ (t # <<>> => z > 1) /\ (t = <<>> => z = 1)
  BY <1>1, <1>2
<1>4. \A k \in 1 .. z - 1 : t[k] = s[k + 1]
  BY <1>1, <1>2
<1>5. \A k \in 1 .. (z - 1) - 1 : k \in 1 .. z - 1 /\ k + 1 \in 1 .. z - 1
  BY <1>2
<1>6. \A k \in 1 .. z - 1 : s[k + 1].piece \in After(s[k].piece)
  BY <1>2 DEF Whole
<1>7. \A k \in 1 .. (z - 1) - 1 : t[k + 1].piece \in After(t[k].piece)
  BY <1>4, <1>5, <1>6
<1>8. s[z].piece \in {"dat", "eot", "can"}
  BY <1>2 DEF Whole
<1>9. t # <<>> => t[1] = s[2] /\ t[z - 1] = s[z] /\ s[2].piece \in After(s[1].piece)
  <2> SUFFICES ASSUME t # <<>> PROVE t[1] = s[2] /\ t[z - 1] = s[z] /\ s[2].piece \in After(s[1].piece)
    OBVIOUS
  <2>1. 1 \in 1 .. z - 1 /\ z - 1 \in 1 .. z - 1 /\ 1 + 1 = 2 /\ (z - 1) + 1 = z
    BY <1>3
  <2>2. t[1] = s[1 + 1] /\ s[1 + 1].piece \in After(s[1].piece) /\ t[z - 1] = s[(z - 1) + 1]
    BY <1>4, <1>6, <2>1
  <2> QED
    BY <2>1, <2>2
<1>10. s[1].piece \in {"hdr", "num"} => t # <<>>
  BY <1>3, <1>8
<1> QED
  BY <1>2, <1>3, <1>4, <1>7, <1>8, <1>9, <1>10 DEF Whole

\* Whole packets behind whole packets.
LEMMA PutWhole ==
    ASSUME NEW s \in Seq(Pieces), NEW q \in Seq(Pieces), Whole(s), Whole(q), q # <<>>, q[1].piece \in {"hdr", "eot", "can"}
    PROVE  /\ Whole(s \o q) /\ s \o q # <<>>
           /\ (s \o q)[1] = (IF s = <<>> THEN q[1] ELSE s[1])
<1>1. PICK m, n \in Nat : m = Len(s) /\ n = Len(q)
  BY LenProperties
<1>2. n > 0 /\ (s # <<>> => m > 0) /\ (s = <<>> => m = 0)
  BY <1>1
<1>3. /\ Len(s \o q) = m + n /\ s \o q \in Seq(Pieces)
      /\ \A i \in 1 .. m : (s \o q)[i] = s[i]
      /\ \A j \in 1 .. n : (s \o q)[m + j] = q[j]
  BY <1>1, PutBehind
<1>4. s \o q # <<>>
  BY <1>1, <1>2, <1>3
<1>5. (s \o q)[1] = (IF s = <<>> THEN q[1] ELSE s[1])
  <2>1. CASE s = <<>>
    <3>1. 1 \in 1 .. n /\ m + 1 = 1
      BY <1>2, <2>1
    <3> QED
      BY <1>3, <2>1, <3>1
  <2>2. CASE s # <<>>
    <3>1. 1 \in 1 .. m
      BY <1>2, <2>2
    <3> QED
      BY <1>3, <2>2, <3>1
  <2> QED
    BY <2>1, <2>2
<1>6. (s \o q)[m + n].piece \in {"dat", "eot", "can"}
  <2>1. n \in 1 .. n /\ q[n].piece \in {"dat", "eot", "can"}
    BY <1>1, <1>2 DEF Whole
  <2> QED
    BY <1>3, <2>1
<1>7. ASSUME NEW i \in 1 .. (m + n) - 1 PROVE (s \o q)[i + 1].piece \in After((s \o q)[i].piece)
  <2>1. CASE i < m
    <3>1. i \in 1 .. m - 1 /\ i \in 1 .. m /\ i + 1 \in 1 .. m
      BY <2>1
    <3>2. s[i + 1].piece \in After(s[i].piece)
      BY <1>1, <3>1 DEF Whole
    <3> QED
      BY <1>3, <3>1, <3>2
  <2>2. CASE i = m
    <3>1. m \in 1 .. m /\ s # <<>> /\ 1 \in 1 .. n
      BY <2>2, <1>2
    <3>2. s[m].piece \in {"dat", "eot", "can"}
      BY <1>1, <3>1 DEF Whole
    <3>3. (s \o q)[i] = s[m] /\ (s \o q)[i + 1] = q[1]
      BY <1>3, <2>2, <3>1
    <3>4. q[1].piece \in After(s[m].piece)
      BY <3>2 DEF After
    <3> QED
      BY <3>3, <3>4
  <2>3. CASE i > m
    <3>1. PICK j \in Nat : i = m + j
      <4>1. i - m \in Nat /\ i = m + (i - m)
        BY <2>3
      <4> QED
        BY <4>1
    <3>2. j \in 1 .. n - 1 /\ j \in 1 .. n /\ j + 1 \in 1 .. n /\ i + 1 = m + (j + 1)
      BY <2>3, <3>1
    <3>3. q[j + 1].piece \in After(q[j].piece)
      BY <1>1, <3>2 DEF Whole
    <3>4. (s \o q)[i] = q[j] /\ (s \o q)[i + 1] = q[j + 1]
      BY <1>3, <3>1, <3>2
    <3> QED
      BY <3>3, <3>4
  <2>4. i < m \/ i = m \/ i > m
    OBVIOUS
  <2> QED
    BY <2>1, <2>2, <2>3, <2>4
<1> QED
  BY <1>3, <1>4, <1>5, <1>6, <1>7 DEF Whole

\* What the sender puts on the line are whole packets.
LEMMA PutsAreWhole ==
    /\ \A n \in Nat : Whole(Packet(n)) /\ Packet(n) # <<>> /\ Packet(n)[1].piece = "hdr"
    /\ Whole(<<Eot>>) /\ <<Eot>>[1].piece = "eot" /\ Whole(<<Can, Can>>) /\ <<Can, Can>>[1].piece = "can"
<1>1. ASSUME NEW n \in Nat PROVE Whole(Packet(n)) /\ Packet(n) # <<>> /\ Packet(n)[1].piece = "hdr"
  <2>1. PICK q \in Seq(Pieces) : q = Packet(n)
    BY PacketIs
  <2>5. Len(q) = 3 /\ q[1] = Soh /\ q[2] = Number(n) /\ q[3] = Data(n)
    BY <2>1, PacketIs
  <2>2. Len(q) = 3 /\ q[1].piece = "hdr" /\ q[2].piece = "num" /\ q[3].piece = "dat"
    BY <2>5 DEF Soh, Number, Data
  <2>3. \A i \in 1 .. 3 - 1 : (i = 1 /\ i + 1 = 2) \/ (i = 2 /\ i + 1 = 3)
    OBVIOUS
  <2>4. \A i \in 1 .. 3 - 1 : q[i + 1].piece \in After(q[i].piece)
    BY <2>2, <2>3 DEF After
  <2>6. Whole(q)
    BY <2>2, <2>4 DEF Whole
  <2>7. q # <<>>
    BY <2>2
  <2> QED
    BY <2>1, <2>2, <2>6, <2>7
<1>2. Whole(<<Eot>>) /\ <<Eot>>[1].piece = "eot"
  BY EndsAre DEF Whole, Eot
<1>3. Whole(<<Can, Can>>) /\ <<Can, Can>>[1].piece = "can"
  <2>1. \A i \in 1 .. 2 - 1 : i = 1 /\ i + 1 = 2
    OBVIOUS
  <2>2. <<Can, Can>>[1].piece = "can" /\ <<Can, Can>>[2].piece = "can" /\ Len(<<Can, Can>>) = 2
    BY EndsAre DEF Can
  <2>3. \A i \in 1 .. 2 - 1 : <<Can, Can>>[i + 1].piece \in After(<<Can, Can>>[i].piece)
    BY <2>1, <2>2 DEF After
  <2> QED
    BY <2>2, <2>3 DEF Whole
<1> QED
  BY <1>1, <1>2, <1>3

\* What is no number and no data is taken for what it is.
LEMMA HeaderIs ==
    ASSUME NEW p, p.piece \in {"hdr", "eot", "can"}
    PROVE  /\ "SOH" \in HeaderOf(p) => p.piece = "hdr"
           /\ "EOT" \in HeaderOf(p) => p.piece = "eot"
           /\ "UND" \in HeaderOf(p) => p.piece = "can"
<1>1. CASE p.piece = "hdr"
  BY <1>1 DEF HeaderOf
<1>2. CASE p.piece = "eot"
  BY <1>2 DEF HeaderOf
<1>3. CASE p.piece = "can"
  BY <1>3 DEF HeaderOf
<1> QED
  BY <1>1, <1>2, <1>3

\* The next piece, and what it leaves.
LEMMA FrameTaken ==
    ASSUME XmTypes, Framed, TakesPiece
    PROVE  /\ Whole(to') /\ (to' # <<>> => to'[1].piece \in After(to[1].piece))
           /\ Len(to') = Len(to) - 1 /\ (\A k \in 1 .. Len(to') : to'[k] = to[k + 1])
           /\ (to' # <<>> => to'[Len(to')] = to[Len(to)])
           /\ (to[1].piece \in {"hdr", "num"} => to' # <<>>)
           /\ (rcv.at = "header" => to[1].piece \in {"hdr", "eot", "can"})
           /\ (rcv.at = "number" => to[1].piece = "num")
           /\ (rcv.at = "data" => to[1].piece = "dat")
<1>1. to \in Seq(Pieces) /\ to' \in Seq(Pieces) /\ to # <<>> /\ Dropped(to', to, 1) /\ Whole(to)
  BY TakenDrops DEF XmTypes, TakesPiece, Framed
<1>2. rcv.at # "done" => to[1].piece \in Expected
  BY <1>1 DEF Framed
<1>3. /\ (rcv.at = "header" => to[1].piece \in {"hdr", "eot", "can"})
      /\ (rcv.at = "number" => to[1].piece = "num")
      /\ (rcv.at = "data" => to[1].piece = "dat")
  BY <1>2 DEF Expected
<1> QED
  BY <1>1, <1>3, TailWhole

\* The receiver's steps on a line that loses nothing.
LEMMA FramedReceiver ==
    ASSUME XmTypes, Framed, Receiver
    PROVE  /\ TakesHeader => to[1].piece = "hdr" /\ rcv'.at = "number"
           /\ TakesEnd => to[1].piece = "eot" /\ rcv'.at = "done" /\ result' = Len(saved) /\ back' = back \o <<"ACK">>
           /\ TakesOther => to[1].piece = "can" /\ rcv'.at = "header" /\ result' = result /\ back' = back \o (Refusal \o Asking)
           /\ RecvTimeout => to = <<>> /\ rcv'.at \in {"header", "done"}
           /\ \A p : Gets(p) /\ RecvByte(p) => TakesPiece /\ p = to[1] /\ p.piece = "num" /\ rcv'.at = "data" /\ rcv'.got[1] = p
           /\ \A p : Gets(p) /\ RecvPack(p) => TakesPiece /\ p = to[1] /\ p.piece = "dat" /\ rcv'.at \in {"header", "done"}
<1>0. back \in Seq(Replies) /\ (rcv.at \in {"number", "data"} => to # <<>>)
  BY DEF XmTypes, Framed
<1>1. TakesHeader => to[1].piece = "hdr" /\ rcv'.at = "number"
  BY FrameTaken, HeaderIs DEF TakesHeader
<1>2. TakesEnd => to[1].piece = "eot" /\ rcv'.at = "done" /\ result' = Len(saved) /\ back' = back \o <<"ACK">>
  <2> SUFFICES ASSUME TakesEnd PROVE to[1].piece = "eot" /\ rcv'.at = "done" /\ result' = Len(saved) /\ back' = back \o <<"ACK">>
    OBVIOUS
  <2>1. rcv.at = "header" /\ TakesPiece /\ "EOT" \in HeaderOf(to[1]) /\ Leaves(<<"ACK">>, Len(saved))
    BY DEF TakesEnd
  <2> QED
    BY <1>0, <2>1, FrameTaken, HeaderIs, LeavesTyped DEF ReceiverTyped
<1>3. TakesOther => to[1].piece = "can" /\ rcv'.at = "header" /\ result' = result /\ back' = back \o (Refusal \o Asking)
  <2> SUFFICES ASSUME TakesOther PROVE to[1].piece = "can" /\ rcv'.at = "header" /\ result' = result /\ back' = back \o (Refusal \o Asking)
    OBVIOUS
  <2>1. rcv.at = "header" /\ TakesPiece /\ "UND" \in HeaderOf(to[1]) /\ Continues(Refusal, Asking)
    BY DEF TakesOther
  <2> QED
    BY <1>0, <2>1, FrameTaken, HeaderIs, ContinuesTyped DEF ReceiverTyped
<1>4. RecvTimeout => to = <<>> /\ rcv'.at \in {"header", "done"}
  BY DEF RecvTimeout, Continues, Leaves
<1>5. ASSUME NEW p, Gets(p), RecvByte(p)
      PROVE  TakesPiece /\ p = to[1] /\ p.piece = "num" /\ rcv'.at = "data" /\ rcv'.got[1] = p
  <2>1. rcv.at = "number" /\ rcv' = [at |-> "data", got |-> <<p>>] /\ TakesPiece /\ p = to[1]
    BY <1>0, <1>5 DEF RecvByte, Gets
  <2> QED
    BY <2>1, FrameTaken
<1>6. ASSUME NEW p, Gets(p), RecvPack(p)
      PROVE  TakesPiece /\ p = to[1] /\ p.piece = "dat" /\ rcv'.at \in {"header", "done"}
  <2>1. rcv.at = "data" /\ TakesPiece /\ p = to[1]
    BY <1>0, <1>6 DEF RecvPack, Gets
  <2>2. rcv'.at \in {"header", "done"}
    BY <1>6 DEF RecvPack, Continues, Leaves
  <2> QED
    BY <2>1, <2>2, FrameTaken
<1> QED
  BY <1>1, <1>2, <1>3, <1>4, <1>5, <1>6

\* If nothing is lost, the receiver keeps the boundaries of packets.
LEMMA ReceiverKeepsFrame ==
    ASSUME XmTypes, Framed, Receiver
    PROVE  Framed'
<1>1. CASE TakesPiece /\ to[1].piece = "hdr" /\ rcv'.at = "number"
  BY <1>1, FrameTaken DEF Framed, Expected, After
<1>2. CASE TakesPiece /\ rcv'.at = "done"
  BY <1>2, FrameTaken DEF Framed
<1>3. CASE TakesPiece /\ to[1].piece \in {"dat", "can"} /\ rcv'.at = "header"
  BY <1>3, FrameTaken DEF Framed, Expected, After
<1>4. CASE TakesPiece /\ to[1].piece = "num" /\ rcv'.at = "data" /\ rcv'.got[1].piece = "num"
  BY <1>4, FrameTaken DEF Framed, Expected, After
<1>5. CASE to = <<>> /\ UNCHANGED to /\ rcv'.at \in {"header", "done"}
  BY <1>5 DEF Framed
<1>6. CASE TakesHeader
  BY <1>1, <1>6, FramedReceiver DEF TakesHeader
<1>7. CASE TakesEnd
  BY <1>2, <1>7, FramedReceiver DEF TakesEnd
<1>8. CASE TakesOther
  BY <1>3, <1>8, FramedReceiver DEF TakesOther
<1>9. CASE RecvTimeout
  BY <1>5, <1>9, FramedReceiver DEF RecvTimeout
<1>10. ASSUME NEW p, Gets(p), RecvByte(p) \/ RecvPack(p) PROVE Framed'
  BY <1>2, <1>3, <1>4, <1>10, FramedReceiver
<1> QED
  BY <1>6, <1>7, <1>8, <1>9, <1>10, ReceiverSteps

\* The sender begins a packet where the line ends one.
LEMMA SenderKeepsFrame ==
    ASSUME XmTypes, Framed, SenderSteps
    PROVE  Framed'
<1>0. UNCHANGED rcv /\ to \in Seq(Pieces) /\ Whole(to)
  BY SenderDoes DEF XmTypes, Framed
<1>1. ASSUME NEW q \in Seq(Pieces), to' = to \o q, Whole(q), q # <<>>, q[1].piece \in {"hdr", "eot", "can"}
      PROVE  Framed'
  <2>1. Whole(to') /\ to' # <<>> /\ to'[1] = (IF to = <<>> THEN q[1] ELSE to[1])
    BY <1>0, <1>1, PutWhole
  <2>2. Expected' = Expected
    BY <1>0 DEF Expected
  <2>3. rcv.at # "done" => to'[1].piece \in Expected
    <3>1. CASE to = <<>>
      <4>1. rcv.at \notin {"number", "data"}
        BY <3>1 DEF Framed
      <4> QED
        BY <1>1, <2>1, <3>1, <4>1 DEF Expected
    <3>2. CASE to # <<>>
      BY <2>1, <3>2 DEF Framed
    <3> QED
      BY <3>1, <3>2
  <2> QED
    BY <1>0, <2>1, <2>2, <2>3 DEF Framed
<1>2. CASE SendsNothing \/ SendsLess
  <2>1. UNCHANGED to
    BY <1>2 DEF SendsNothing, SendsLess
  <2> QED
    BY <1>0, <2>1 DEF Framed, Expected
<1>3. CASE SendsPacket
  <2>1. PICK b \in Packets : to' = to \o Packet(b)
    BY <1>3 DEF SendsPacket
  <2>2. b \in Nat
    BY DEF Packets
  <2> QED
    BY <1>1, <2>1, <2>2, PacketIs, PutsAreWhole
<1>4. CASE SendsEnd
  BY <1>1, <1>4, EndsAre, PutsAreWhole DEF SendsEnd
<1>5. CASE SendsCancel
  BY <1>1, <1>5, EndsAre, PutsAreWhole DEF SendsCancel
<1> QED
  BY <1>2, <1>3, <1>4, <1>5, SenderDoes

\* Damage does not move the boundaries of packets.
LEMMA LineKeepsFrame ==
    ASSUME XmTypes, Framed, Line, ~ Happened("piece")'
    PROVE  Framed'
<1>0. UNCHANGED rcv /\ (HasDamaged(to', to) \/ UNCHANGED to)
  BY LineDoes
<1>1. CASE UNCHANGED to
  BY <1>0, <1>1 DEF Framed, Expected
<1>2. CASE HasDamaged(to', to)
  <2>1. PICK z \in Nat : z = Len(to)
    BY LenProperties DEF XmTypes
  <2>2. to \in Seq(Pieces) /\ to' \in Seq(Pieces) /\ Len(to') = z /\ \A k \in 1 .. z : to'[k].piece = to[k].piece
    BY <1>2, <2>1 DEF HasDamaged, XmTypes
  <2>3. (to = <<>> <=> z = 0) /\ (to' = <<>> <=> z = 0)
    BY <2>1, <2>2
  <2>4. z # 0 => 1 \in 1 .. z /\ z \in 1 .. z
    BY <2>1
  <2>5. \A k \in 1 .. z - 1 : k \in 1 .. z /\ k + 1 \in 1 .. z
    BY <2>1
  <2>6. Whole(to')
    BY <2>1, <2>2, <2>3, <2>4, <2>5 DEF Framed, Whole
  <2> QED
    BY <1>0, <2>2, <2>3, <2>4, <2>6 DEF Framed, Expected
<1> QED
  BY <1>0, <1>1, <1>2

\* The receiver takes a piece and saves it if it is a block: nothing is missed.
LEMMA TakenKeepsAll ==
    ASSUME XmTypes, InOrder, Framed, Intact, EndLast, TakesPiece, UNCHANGED snd,
           (UNCHANGED saved /\ to[1].piece # "dat") \/ (saved' = Append(saved, to[1].blk) /\ to[1].piece = "dat")
    PROVE  Intact' /\ EndLast' /\ (AllThere => AllThere') /\ (\A n : IsSaved(n) => IsSaved(n)')
<1>1. PICK z \in Nat : z = Len(to)
  BY LenProperties DEF XmTypes
<1>2. Len(to') = z - 1 /\ (\A k \in 1 .. z - 1 : to'[k] = to[k + 1]) /\ 1 \in 1 .. z
  BY <1>1, FrameTaken, TakenDrops
<1>3. \A k \in 1 .. z - 1 : k + 1 \in 1 .. z
  BY <1>1
<1>4. Intact'
  BY <1>1, <1>2, <1>3 DEF Intact
<1>5. EndLast'
  <2> SUFFICES ASSUME NEW i \in 1 .. z - 1, to'[i].piece = "eot"
               PROVE  /\ snd.at \notin {"start", "block"} /\ snd.blk = NPackets
                      /\ \A j \in i .. z - 1 : to'[j].piece # "dat"
    BY <1>2 DEF EndLast
  <2>1. i + 1 \in 1 .. z /\ to[i + 1].piece = "eot"
    BY <1>2, <1>3
  <2>2. snd.at \notin {"start", "block"} /\ snd.blk = NPackets /\ \A j \in i + 1 .. z : to[j].piece # "dat"
    BY <1>1, <2>1 DEF EndLast
  <2>3. \A j \in i .. z - 1 : j \in 1 .. z - 1 /\ j + 1 \in i + 1 .. z
    BY <1>1
  <2> QED
    BY <1>2, <2>2, <2>3
<1>6. ASSUME NEW n, IsSaved(n) PROVE IsSaved(n)'
  <2>1. CASE UNCHANGED saved
    BY <1>6, <2>1 DEF IsSaved
  <2>2. CASE saved' = Append(saved, to[1].blk)
    <3>1. saved \in Seq(Packets) /\ Len(saved') = Len(saved) + 1 /\ Len(saved) \in Nat /\ \A i \in 1 .. Len(saved) : saved'[i] = saved[i]
      BY <2>2, LenProperties DEF InOrder
    <3>2. \A i \in 1 .. Len(saved) : i \in 1 .. Len(saved')
      BY <3>1
    <3> QED
      BY <1>6, <3>1, <3>2 DEF IsSaved
  <2> QED
    BY <2>1, <2>2
<1>7. to[1].piece = "dat" => \E i \in 1 .. Len(saved') : saved'[i] = to[1].blk
  <2> SUFFICES ASSUME to[1].piece = "dat" PROVE \E i \in 1 .. Len(saved') : saved'[i] = to[1].blk
    OBVIOUS
  <2>1. saved \in Seq(Packets) /\ saved' = Append(saved, to[1].blk)
    BY DEF InOrder
  <2>2. Len(saved') = Len(saved) + 1 /\ Len(saved) \in Nat /\ saved'[Len(saved) + 1] = to[1].blk
    BY <2>1, LenProperties
  <2>3. Len(saved) + 1 \in 1 .. Len(saved')
    BY <2>2
  <2> QED
    BY <2>2, <2>3
<1>8. ASSUME AllThere, NEW n \in 1 .. snd.blk PROVE IsSaved(n)' \/ OnLine(n)'
  <2>1. CASE IsSaved(n)
    BY <1>6, <2>1
  <2>2. CASE OnLine(n)
    <3>1. PICK i \in 1 .. z : to[i].piece = "dat" /\ to[i].blk = n
      BY <1>1, <2>2 DEF OnLine
    <3>2. CASE i = 1
      BY <1>7, <3>1, <3>2 DEF IsSaved
    <3>3. CASE i # 1
      <4>1. i - 1 \in 1 .. z - 1 /\ (i - 1) + 1 = i
        BY <1>1, <3>3
      <4>2. to'[i - 1] = to[i]
        BY <1>2, <4>1
      <4> QED
        BY <1>2, <3>1, <4>1, <4>2 DEF OnLine
    <3> QED
      BY <3>2, <3>3
  <2> QED
    BY <1>8, <2>1, <2>2 DEF AllThere
<1>9. AllThere => AllThere'
  BY <1>8 DEF AllThere
<1> QED
  BY <1>4, <1>5, <1>6, <1>9

\* A block that came is saved, or xmodem_receive fails; it succeeds at the end of
\* the file.
LEMMA ReceiverKeepsAll ==
    ASSUME XmTypes, InOrder, Framed, NoGaps, Receiver, rcv.at # "done" => result = 0
    PROVE  NoGaps'
<1>0. /\ UNCHANGED snd /\ Intact /\ EndLast /\ back \in Seq(Replies) /\ saved \in Seq(Packets) /\ Len(saved) \in Nat
      /\ NPackets \in Nat /\ NPackets > 0
  BY ReceiverSteps, LenProperties, SenderIs DEF NoGaps, XmTypes, InOrder
<1>1. rcv.at # "done" /\ result = 0 /\ AllThere
  BY DEF Receiver, RecvHeader, RecvTimeout, RecvRest, NoGaps
<1>2. ASSUME TakesPiece, (UNCHANGED saved /\ to[1].piece # "dat") \/ (saved' = Append(saved, to[1].blk) /\ to[1].piece = "dat"),
             rcv'.at = "data" => rcv'.got[1].ok,
             result' <= 0 \/ \A n \in Packets : IsSaved(n)
      PROVE  NoGaps'
  <2>1. Intact' /\ EndLast' /\ AllThere' /\ \A n : IsSaved(n) => IsSaved(n)'
    BY <1>0, <1>1, <1>2, TakenKeepsAll
  <2>2. result' \in Int
    BY ReceiverKeepsTypes DEF XmTypes
  <2>3. result' > 0 => \A n \in Packets : IsSaved(n)'
    BY <1>2, <2>1, <2>2
  <2> QED
    BY <1>2, <2>1, <2>3 DEF NoGaps
<1>3. CASE TakesHeader
  <2>1. TakesPiece /\ UNCHANGED <<saved, result>> /\ to[1].piece = "hdr" /\ rcv'.at = "number"
    BY <1>3, FramedReceiver DEF TakesHeader
  <2> QED
    BY <1>1, <1>2, <2>1
<1>4. CASE TakesEnd
  <2>1. TakesPiece /\ UNCHANGED saved /\ to[1].piece = "eot" /\ rcv'.at = "done"
    BY <1>4, FramedReceiver DEF TakesEnd
  <2>2. PICK z \in Nat : z = Len(to)
    BY LenProperties DEF XmTypes
  <2>3. 1 \in 1 .. z
    BY <2>1, <2>2, TakenDrops
  <2>4. snd.blk = NPackets /\ \A j \in 1 .. z : to[j].piece # "dat"
    BY <1>0, <2>1, <2>2, <2>3 DEF EndLast
  <2>5. \A n \in Packets : IsSaved(n)
    BY <1>1, <2>2, <2>4 DEF AllThere, OnLine, Packets
  <2> QED
    BY <1>2, <2>1, <2>5
<1>5. CASE TakesOther
  <2>1. TakesPiece /\ UNCHANGED saved /\ to[1].piece = "can" /\ rcv'.at = "header" /\ result' = result
    BY <1>5, FramedReceiver DEF TakesOther
  <2> QED
    BY <1>1, <1>2, <2>1
<1>6. CASE RecvTimeout
  <2>1. UNCHANGED <<to, saved>> /\ rcv'.at \in {"header", "done"} /\ (result' = result \/ result' = -1)
    BY <1>6 DEF RecvTimeout, Continues, Leaves
  <2>2. ~ (result' > 0)
    BY <1>1, <2>1
  <2>3. Intact' /\ EndLast' /\ AllThere'
    BY <1>0, <1>1, <2>1 DEF Intact, EndLast, AllThere, IsSaved, OnLine
  <2> QED
    BY <2>1, <2>2, <2>3 DEF NoGaps
<1>7. ASSUME NEW p, Gets(p), RecvByte(p) PROVE NoGaps'
  <2>1. TakesPiece /\ p = to[1] /\ p.piece = "num" /\ rcv'.at = "data" /\ rcv'.got[1] = p
    BY <1>7, FramedReceiver
  <2>2. p.ok
    BY <1>0, <2>1, TakenDrops DEF Intact
  <2>3. UNCHANGED <<saved, result>>
    BY <1>7 DEF RecvByte
  <2> QED
    BY <1>1, <1>2, <2>1, <2>2, <2>3
<1>8. ASSUME NEW p, Gets(p), RecvPack(p) PROVE NoGaps'
  <2>1. TakesPiece /\ p = to[1] /\ p.piece = "dat" /\ rcv'.at \in {"header", "done"}
    BY <1>8, FramedReceiver
  <2>2. p.ok /\ rcv.at = "data"
    BY <1>0, <1>8, <2>1, TakenDrops DEF Intact, RecvPack
  <2>3. GoodPack(rcv.got[1], p)
    BY <2>1, <2>2 DEF GoodPack, NoGaps, Framed
  <2>4. CASE saved' = Accepted(p) /\ Continues(<<"ACK">>, <<>>)
    <3>1. saved' = Append(saved, to[1].blk) /\ result' = result
      BY <2>1, <2>2, <2>4 DEF Accepted, Continues
    <3> QED
      BY <1>1, <1>2, <2>1, <3>1
  <2>5. CASE Leaves(<<"CAN">>, -1) /\ UNCHANGED saved
    <3>1. result' = -1 /\ rcv'.at = "done" /\ UNCHANGED snd
      BY <1>0, <2>5 DEF Leaves
    <3>2. PICK z \in Nat : z = Len(to)
      BY LenProperties DEF XmTypes
    <3>3. Len(to') = z - 1 /\ (\A k \in 1 .. z - 1 : to'[k] = to[k + 1] /\ k + 1 \in 1 .. z) /\ 1 \in 1 .. z
      BY <2>1, <3>2, FrameTaken, TakenDrops
    <3>4. Intact'
      BY <1>0, <3>2, <3>3 DEF Intact
    <3>5. EndLast'
      <4> SUFFICES ASSUME NEW i \in 1 .. z - 1, to'[i].piece = "eot"
                   PROVE  /\ snd.at \notin {"start", "block"} /\ snd.blk = NPackets
                          /\ \A j \in i .. z - 1 : to'[j].piece # "dat"
        BY <3>1, <3>3 DEF EndLast
      <4>1. i + 1 \in 1 .. z /\ to[i + 1].piece = "eot"
        BY <3>3
      <4>2. snd.at \notin {"start", "block"} /\ snd.blk = NPackets /\ \A j \in i + 1 .. z : to[j].piece # "dat"
        BY <1>0, <3>2, <4>1 DEF EndLast
      <4>3. \A j \in i .. z - 1 : j \in 1 .. z - 1 /\ j + 1 \in i + 1 .. z
        BY <3>2
      <4> QED
        BY <3>3, <4>2, <4>3
    <3> QED
      BY <3>1, <3>4, <3>5 DEF NoGaps
  <2> QED
    BY <1>8, <2>3, <2>4, <2>5 DEF RecvPack
<1> QED
  BY <1>3, <1>4, <1>5, <1>6, <1>7, <1>8, ReceiverSteps

\* What is put behind the line is intact, and its end is the end.
LEMMA PutKeepsAll ==
    ASSUME XmTypes, NoGaps, NEW q \in Seq(Pieces), to' = to \o q, UNCHANGED <<rcv, saved, result>>,
           \A j \in 1 .. Len(q) : q[j].ok,
           \A j \in 1 .. Len(q) : q[j].piece = "eot" => Len(q) = 1 /\ snd'.at \notin {"start", "block"} /\ snd'.blk = NPackets,
           (\A j \in 1 .. Len(q) : q[j].piece # "dat") \/ snd.at \in {"start", "block"},
           snd.at \in {"start", "block"} \/ (snd'.at \notin {"start", "block"} /\ snd'.blk = snd.blk),
           \A n \in 1 .. snd'.blk : n \in 1 .. snd.blk \/ \E j \in 1 .. Len(q) : q[j].piece = "dat" /\ q[j].blk = n
    PROVE  NoGaps'
<1>1. PICK m, k \in Nat : m = Len(to) /\ k = Len(q)
  BY LenProperties DEF XmTypes
<1>2. /\ Len(to') = m + k
      /\ \A i \in 1 .. m : to'[i] = to[i]
      /\ \A j \in 1 .. k : to'[m + j] = q[j]
      /\ \A i \in 1 .. m + k : i \in 1 .. m \/ \E j \in 1 .. k : i = m + j
  BY <1>1, PutBehind DEF XmTypes
<1>3. Intact'
  BY <1>1, <1>2 DEF Intact, NoGaps
<1>4. ASSUME NEW i \in 1 .. m + k, to'[i].piece = "eot"
      PROVE  snd'.at \notin {"start", "block"} /\ snd'.blk = NPackets /\ \A j \in i .. m + k : to'[j].piece # "dat"
  <2>1. CASE i \in 1 .. m
    <3>1. to[i].piece = "eot"
      BY <1>2, <1>4, <2>1
    <3>2. snd.at \notin {"start", "block"} /\ snd.blk = NPackets /\ \A j \in i .. m : to[j].piece # "dat"
      BY <1>1, <2>1, <3>1 DEF NoGaps, EndLast
    <3>3. \A j \in 1 .. k : q[j].piece # "dat"
      BY <1>1, <3>2
    <3>4. ASSUME NEW j \in i .. m + k PROVE to'[j].piece # "dat"
      <4>0. j \in 1 .. m + k
        BY <2>1
      <4>1. CASE j \in 1 .. m
        <5>1. j \in i .. m
          BY <4>1
        <5> QED
          BY <1>2, <3>2, <4>1, <5>1
      <4>2. CASE \E n \in 1 .. k : j = m + n
        <5>1. PICK n \in 1 .. k : j = m + n
          BY <4>2
        <5>2. to'[j] = q[n]
          BY <1>2, <5>1
        <5> QED
          BY <1>1, <3>3, <5>2
      <4> QED
        BY <1>2, <4>0, <4>1, <4>2
    <3> QED
      BY <3>2, <3>4
  <2>2. CASE \E j \in 1 .. k : i = m + j
    <3>1. PICK j \in 1 .. k : i = m + j
      BY <2>2
    <3>2. q[j].piece = "eot"
      BY <1>2, <1>4, <3>1
    <3>3. k = 1 /\ snd'.at \notin {"start", "block"} /\ snd'.blk = NPackets
      BY <1>1, <3>2
    <3>4. \A n \in i .. m + k : n = i
      BY <3>1, <3>3
    <3> QED
      BY <1>4, <3>3, <3>4
  <2> QED
    BY <1>2, <2>1, <2>2
<1>5. EndLast'
  BY <1>2, <1>4 DEF EndLast
<1>6. ASSUME AllThere, NEW n \in 1 .. snd'.blk PROVE IsSaved(n)' \/ OnLine(n)'
  <2>1. \A i \in 1 .. m : i \in 1 .. m + k
    BY <1>1
  <2>2. \A j \in 1 .. k : m + j \in 1 .. m + k
    BY <1>1
  <2>3. CASE n \in 1 .. snd.blk
    <3>1. CASE IsSaved(n)
      BY <3>1 DEF IsSaved
    <3>2. CASE OnLine(n)
      <4>1. PICK i \in 1 .. m : to[i].piece = "dat" /\ to[i].blk = n
        BY <1>1, <3>2 DEF OnLine
      <4>2. i \in 1 .. Len(to') /\ to'[i] = to[i]
        BY <1>2, <2>1
      <4> QED
        BY <4>1, <4>2 DEF OnLine
    <3> QED
      BY <1>6, <2>3, <3>1, <3>2 DEF AllThere
  <2>4. CASE \E j \in 1 .. Len(q) : q[j].piece = "dat" /\ q[j].blk = n
    <3>1. PICK j \in 1 .. k : q[j].piece = "dat" /\ q[j].blk = n
      BY <1>1, <2>4
    <3>2. m + j \in 1 .. Len(to') /\ to'[m + j] = q[j]
      BY <1>2, <2>2
    <3> QED
      BY <3>1, <3>2 DEF OnLine
  <2> QED
    BY <2>3, <2>4
<1>7. AllThere => AllThere'
  BY <1>6 DEF AllThere
<1>8. \A n \in Packets : IsSaved(n) => IsSaved(n)'
  BY DEF IsSaved
<1> QED
  BY <1>3, <1>5, <1>7, <1>8 DEF NoGaps

\* The sender leaves no block out, and ends the file behind the last one.
LEMMA SenderKeepsAll ==
    ASSUME XmTypes, NoGaps, SenderSteps
    PROVE  NoGaps'
<1>0. UNCHANGED <<rcv, saved, result>> /\ snd.blk \in Nat /\ snd.blk <= NPackets /\ NPackets \in Nat
      /\ snd.at \in {"start", "block", "eot", "done", "quit"}
  BY SenderIs, SenderDoes DEF XmTypes
<1>1. CASE SendsNothing
  BY <1>0, <1>1 DEF SendsNothing, NoGaps, Intact, EndLast, AllThere, IsSaved, OnLine
<1>2. CASE SendsLess
  <2>1. UNCHANGED to /\ snd'.blk = snd.blk /\ snd'.at \notin {"start", "block"}
    BY <1>2 DEF SendsLess
  <2>2. Intact' /\ (AllThere => AllThere') /\ \A n \in Packets : IsSaved(n) => IsSaved(n)'
    BY <1>0, <2>1 DEF NoGaps, Intact, AllThere, IsSaved, OnLine
  <2>3. EndLast'
    BY <2>1 DEF NoGaps, EndLast
  <2> QED
    BY <1>0, <2>2, <2>3 DEF NoGaps
<1>3. CASE SendsPacket
  <2>1. PICK b \in Packets : /\ snd.at \in {"start", "block"} /\ (b = snd.blk \/ b = snd.blk + 1)
                             /\ snd' = [blk |-> b, at |-> "block"] /\ to' = to \o Packet(b)
    BY <1>3 DEF SendsPacket
  <2>2. b \in Nat /\ b > 0 /\ snd'.blk = b
    BY <2>1 DEF Packets
  <2>3. PICK q \in Seq(Pieces) : q = Packet(b)
    BY <2>2, PacketIs
  <2>4. Len(q) = 3 /\ 1 .. 3 = {1, 2, 3} /\ q[1] = Soh /\ q[2] = Number(b) /\ q[3] = Data(b)
    BY <2>2, <2>3, PacketIs
  <2>5. (\A j \in 1 .. Len(q) : q[j].ok /\ q[j].piece # "eot") /\ q[3].piece = "dat" /\ q[3].blk = b /\ 3 \in 1 .. Len(q)
    BY <2>4 DEF Soh, Number, Data
  <2>6. \A n \in 1 .. b : n \in 1 .. snd.blk \/ n = b
    BY <1>0, <2>1, <2>2
  <2>7. \A n \in 1 .. snd'.blk : n \in 1 .. snd.blk \/ \E j \in 1 .. Len(q) : q[j].piece = "dat" /\ q[j].blk = n
    BY <2>2, <2>5, <2>6
  <2>8. to' = to \o q /\ snd.at \in {"start", "block"}
    BY <2>1, <2>3
  <2>9. \A j \in 1 .. Len(q) : q[j].piece = "eot" => Len(q) = 1 /\ snd'.at \notin {"start", "block"} /\ snd'.blk = NPackets
    BY <2>5
  <2>10. \A j \in 1 .. Len(q) : q[j].ok
    BY <2>5
  <2> QED
    BY <1>0, <2>7, <2>8, <2>9, <2>10, PutKeepsAll
<1>4. CASE SendsEnd
  <2>1. Len(<<Eot>>) = 1 /\ <<Eot>> \in Seq(Pieces) /\ \A j \in 1 .. Len(<<Eot>>) : <<Eot>>[j].ok /\ <<Eot>>[j].piece # "dat"
    BY EndsAre DEF Eot
  <2>2. snd'.at = "eot" /\ snd'.blk = NPackets /\ snd.blk = NPackets /\ to' = to \o <<Eot>>
    BY <1>4 DEF SendsEnd
  <2>3. \A n \in 1 .. snd'.blk : n \in 1 .. snd.blk
    BY <2>2
  <2> QED
    BY <1>0, <2>1, <2>2, <2>3, PutKeepsAll
<1>5. CASE SendsCancel
  <2>1. <<Can, Can>> \in Seq(Pieces)
        /\ \A j \in 1 .. Len(<<Can, Can>>) : <<Can, Can>>[j].ok /\ <<Can, Can>>[j].piece \notin {"dat", "eot"}
    BY EndsAre DEF Can
  <2>2. snd'.at = "quit" /\ snd'.blk = snd.blk /\ to' = to \o <<Can, Can>>
    BY <1>5 DEF SendsCancel
  <2>3. \A n \in 1 .. snd'.blk : n \in 1 .. snd.blk
    BY <2>2
  <2> QED
    BY <1>0, <2>1, <2>2, <2>3, PutKeepsAll
<1> QED
  BY <1>1, <1>2, <1>3, <1>4, <1>5, SenderDoes

\* Faults of replies touch no block.
LEMMA LineKeepsAll ==
    ASSUME XmTypes, NoGaps, Line, ~ Happened("piece")', ~ Happened("data")'
    PROVE  NoGaps'
<1>1. UNCHANGED <<to, rcv, saved, result, snd>>
  BY LineDoes
<1> QED
  BY <1>1 DEF NoGaps, Intact, EndLast, AllThere, IsSaved, OnLine

-----------------------------------------------------------------------------
\* One more reply.
LEMMA ReplyPut ==
    ASSUME NEW s \in Seq(Replies), NEW r \in Replies
    PROVE  /\ s \o <<r>> \in Seq(Replies)
           /\ OnlyC(s) => OneReply(s \o <<r>>, r)
           /\ r = "C" => (OnlyC(s) => OnlyC(s \o <<r>>))
           /\ r = "C" => \A a : OneReply(s, a) => OneReply(s \o <<r>>, a)
<1>0. <<r>> \in Seq(Replies) /\ Len(<<r>>) = 1 /\ <<r>>[1] = r
  OBVIOUS
<1>1. PICK m \in Nat : m = Len(s)
  BY LenProperties
<1>2. /\ s \o <<r>> \in Seq(Replies) /\ Len(s \o <<r>>) = m + 1
      /\ \A i \in 1 .. m : (s \o <<r>>)[i] = s[i]
      /\ (s \o <<r>>)[m + 1] = r
  <2>1. 1 \in 1 .. 1
    OBVIOUS
  <2> QED
    BY <1>0, <1>1, <2>1, PutBehind
<1>3. PICK t : t = s \o <<r>>
  OBVIOUS
<1>4. Len(t) = m + 1 /\ (\A i \in 1 .. m : t[i] = s[i]) /\ t[m + 1] = r
  BY <1>2, <1>3
<1>5. \A i \in 1 .. m + 1 : i \in 1 .. m \/ i = m + 1
  BY <1>1
<1>6. m + 1 \in 1 .. m + 1 /\ \A i \in 1 .. m : i \in 1 .. m + 1 /\ i # m + 1
  BY <1>1
<1>7. OnlyC(s) => OneReply(t, r)
  BY <1>1, <1>4, <1>5, <1>6 DEF OnlyC, OneReply
<1>8. r = "C" => (OnlyC(s) => OnlyC(t))
  BY <1>1, <1>4, <1>5, <1>6 DEF OnlyC
<1>9. ASSUME r = "C", NEW a, OneReply(s, a) PROVE OneReply(t, a)
  <2>1. PICK i \in 1 .. m : s[i] = a /\ \A j \in 1 .. m : j # i => s[j] = "C"
    BY <1>1, <1>9 DEF OneReply
  <2>2. i \in 1 .. Len(t) /\ t[i] = a /\ \A j \in 1 .. Len(t) : j # i => t[j] = "C"
    BY <1>4, <1>5, <1>6, <1>9, <2>1
  <2> QED
    BY <2>2 DEF OneReply
<1> QED
  BY <1>2, <1>3, <1>7, <1>8, <1>9

\* The first reply is read.
LEMMA ReplyRead ==
    ASSUME NEW s \in Seq(Replies), s # <<>>
    PROVE  /\ Tail(s) \in Seq(Replies) /\ Head(s) \in Replies
           /\ OnlyC(s) => Head(s) = "C" /\ OnlyC(Tail(s))
           /\ \A a : OneReply(s, a) => (Head(s) = a /\ OnlyC(Tail(s))) \/ (Head(s) = "C" /\ OneReply(Tail(s), a))
<1>1. PICK z \in Nat : z = Len(s)
  BY LenProperties
<1>2. PICK t, h : t = Tail(s) /\ h = Head(s)
  OBVIOUS
<1>3. h = s[1] /\ 1 \in 1 .. z /\ h \in Replies /\ t \in Seq(Replies) /\ Dropped(t, s, 1)
  BY <1>1, <1>2, TailDrops
<1>4. Len(t) = z - 1 /\ \A k \in 1 .. z - 1 : t[k] = s[k + 1]
  <2>1. Len(t) = z - 1 /\ \A k \in 1 .. z - 1 : t[k] = s[IF k < 1 THEN k ELSE k + 1]
    BY <1>1, <1>3 DEF Dropped
  <2> QED
    BY <2>1
<1>5. \A k \in 1 .. z - 1 : k + 1 \in 1 .. z /\ k + 1 # 1
  BY <1>1
<1>6. OnlyC(s) => h = "C" /\ OnlyC(t)
  BY <1>1, <1>3, <1>4, <1>5 DEF OnlyC
<1>7. ASSUME NEW a, OneReply(s, a)
      PROVE  (h = a /\ OnlyC(t)) \/ (h = "C" /\ OneReply(t, a))
  <2>1. PICK i \in 1 .. z : s[i] = a /\ \A j \in 1 .. z : j # i => s[j] = "C"
    BY <1>1, <1>7 DEF OneReply
  <2>2. CASE i = 1
    <3>1. h = a /\ \A k \in 1 .. z - 1 : t[k] = "C"
      BY <1>3, <1>4, <1>5, <2>1, <2>2
    <3> QED
      BY <1>4, <3>1 DEF OnlyC
  <2>3. CASE i # 1
    <3>1. i - 1 \in 1 .. z - 1 /\ (i - 1) + 1 = i
      BY <1>1, <2>3
    <3>2. h = "C" /\ t[i - 1] = a
      BY <1>3, <1>4, <2>1, <2>3, <3>1
    <3>3. \A j \in 1 .. z - 1 : j # i - 1 => j + 1 # i
      BY <1>1
    <3>4. \A j \in 1 .. z - 1 : j # i - 1 => t[j] = "C"
      BY <1>4, <1>5, <2>1, <3>3
    <3> QED
      BY <1>4, <3>1, <3>2, <3>4 DEF OneReply
  <2> QED
    BY <2>2, <2>3
<1> QED
  BY <1>2, <1>3, <1>6, <1>7

\* What the receiver's replies come to.
LEMMA ReceiverReplies ==
    ASSUME XmTypes
    PROVE  /\ Continues(<<>>, Asking) /\ OnlyC(back) => OnlyC(back')
           /\ \A r : Continues(<<>>, Asking) /\ OneReply(back, r) => OneReply(back', r)
           /\ Continues(Refusal, Asking) /\ OnlyC(back) => OneReply(back', "NAK")
           /\ Continues(<<"ACK">>, <<>>) /\ OnlyC(back) => OneReply(back', "ACK")
<1>0. back \in Seq(Replies) /\ "C" \in Replies /\ "NAK" \in Replies /\ "ACK" \in Replies
  BY DEF XmTypes, Replies
<1>1. Asking = <<>> \/ Asking = <<"C">>
  BY DEF Asking
<1>2. back \o <<>> = back
  BY <1>0, ConcatEmptySeq
<1>3. <<>> \o <<"C">> = <<"C">> /\ <<>> \o <<>> = <<>> /\ <<"ACK">> \o <<>> = <<"ACK">> /\ <<"NAK">> \o <<>> = <<"NAK">>
  BY ConcatEmptySeq, <1>0
<1>4. /\ Continues(<<>>, Asking) => back' = back \/ back' = back \o <<"C">>
      /\ Continues(<<"ACK">>, <<>>) => back' = back \o <<"ACK">>
      /\ Continues(Refusal, Asking) => back' = back \o <<"NAK">> \/ back' = back \o (<<"NAK">> \o <<"C">>)
  BY <1>0, <1>1, <1>2, <1>3, ContinuesTyped DEF Refusal
<1>5. back \o (<<"NAK">> \o <<"C">>) = (back \o <<"NAK">>) \o <<"C">>
  BY <1>0, ConcatAssociative
<1>6. OnlyC(back) => OneReply(back \o <<"NAK">>, "NAK") /\ OneReply((back \o <<"NAK">>) \o <<"C">>, "NAK")
  <2>1. back \o <<"NAK">> \in Seq(Replies) /\ (OnlyC(back) => OneReply(back \o <<"NAK">>, "NAK"))
    BY <1>0, ReplyPut
  <2> QED
    BY <1>0, <2>1, ReplyPut
<1>7. /\ OnlyC(back) => OnlyC(back \o <<"C">>) /\ OneReply(back \o <<"ACK">>, "ACK")
      /\ \A r : OneReply(back, r) => OneReply(back \o <<"C">>, r)
  BY <1>0, ReplyPut
<1> QED
  BY <1>4, <1>5, <1>6, <1>7

Waits == NotBegun \/ InTransit \/ Refused \/ Acknowledged \/ Ended \/ Cancelled

\* The next block of a file.
LEMMA FileGrows ==
    ASSUME NEW s \in Seq(Packets), IsFile(s), NEW b, b \in Packets, b = Len(s) + 1
    PROVE  IsFile(Append(s, b)) /\ Len(Append(s, b)) = b
<1>1. PICK m \in Nat : m = Len(s)
  BY LenProperties
<1>2. PICK t : t = Append(s, b)
  OBVIOUS
<1>3. t \in Seq(Packets) /\ Len(t) = m + 1 /\ (\A i \in 1 .. m : t[i] = s[i]) /\ t[m + 1] = b
  BY <1>1, <1>2, AppendProperties
<1>4. \A i \in 1 .. m : s[i] = i
  BY <1>1 DEF IsFile
<1>5. \A i \in 1 .. m + 1 : t[i] = i
  <2> SUFFICES ASSUME NEW i \in 1 .. m + 1 PROVE t[i] = i
    OBVIOUS
  <2>1. i \in 1 .. m \/ i = m + 1
    BY <1>1
  <2> QED
    BY <1>1, <1>3, <1>4, <2>1
<1>6. t = [i \in 1 .. m + 1 |-> t[i]]
  BY <1>3
<1>7. t = [i \in 1 .. m + 1 |-> i]
  BY <1>5, <1>6
<1> QED
  BY <1>1, <1>2, <1>3, <1>7 DEF IsFile

\* The length of the line.
LEMMA PacketsOnLine ==
    ASSUME XmTypes
    PROVE  Len(to) \in Nat /\ (to = <<>> <=> Len(to) = 0)
  BY LenProperties DEF XmTypes

\* What the receiver takes is what the sender waits for.
LEMMA ReceiverWaits ==
    ASSUME XmTypes, InOrder, Framed, StopAndWait, result = 0, Receiver
    PROVE  StopAndWait'
<1>0. /\ UNCHANGED snd /\ rcv.at # "done" /\ Waits /\ IsFile(saved) /\ saved \in Seq(Packets) /\ Len(saved) \in Nat /\ NPackets \in Nat
      /\ snd.blk \in Nat /\ snd.blk <= NPackets /\ Len(to) \in Nat /\ (to = <<>> <=> Len(to) = 0) /\ back \in Seq(Replies)
  <2>1. rcv.at # "done"
    BY DEF Receiver, RecvHeader, RecvTimeout, RecvRest
  <2> QED
    BY <2>1, ReceiverSteps, SenderIs, LenProperties, PacketsOnLine DEF StopAndWait, Waits, InOrder, XmTypes
<1>1. CASE TakesHeader
  <2>1. TakesPiece /\ UNCHANGED <<back, result, saved>> /\ to[1].piece = "hdr" /\ rcv'.at = "number" /\ rcv.at = "header" /\ to # <<>>
    BY <1>1, FramedReceiver DEF TakesHeader, TakesPiece
  <2>2. Len(to') = Len(to) - 1 /\ (\A k \in 1 .. Len(to') : to'[k] = to[k + 1]) /\ to' # <<>> /\ to'[Len(to')] = to[Len(to)] /\ 1 \in 1 .. Len(to)
    BY <2>1, FrameTaken, TakenDrops
  <2>3. InTransit
    BY <1>0, <2>1, <2>2 DEF Waits, NotBegun, LineQuiet, Refused, Acknowledged, Ended, Cancelled
  <2>4. Len(to) = 3 /\ to[Len(to)].blk = snd.blk
    BY <2>1, <2>3 DEF InTransit, InFlight
  <2>5. \A k \in 1 .. Len(to') : k + 1 \in 1 .. Len(to)
    BY <2>2, <2>4
  <2>6. InFlight(snd.blk)'
    BY <1>0, <2>1, <2>2, <2>4 DEF InFlight
  <2>7. InTransit'
    BY <1>0, <2>1, <2>2, <2>3, <2>5, <2>6 DEF InTransit, InFlight, OnlyC
  <2> QED
    BY <1>0, <2>1, <2>7 DEF StopAndWait
<1>2. CASE TakesEnd
  <2>1. TakesPiece /\ UNCHANGED saved /\ to[1].piece = "eot" /\ rcv'.at = "done" /\ rcv.at = "header" /\ to # <<>> /\ result' = Len(saved)
    BY <1>2, FramedReceiver DEF TakesEnd, TakesPiece
  <2>2. 1 \in 1 .. Len(to)
    BY <2>1, TakenDrops
  <2>3. Ended
    BY <1>0, <2>1, <2>2 DEF Waits, NotBegun, LineQuiet, InTransit, Refused, Acknowledged, Cancelled
  <2> QED
    BY <1>0, <2>1, <2>3 DEF StopAndWait, Ended
<1>3. CASE TakesOther
  <2>1. TakesPiece /\ UNCHANGED saved /\ to[1].piece = "can" /\ rcv'.at = "header" /\ rcv.at = "header" /\ to # <<>> /\ result' = result
    BY <1>3, FramedReceiver DEF TakesOther, TakesPiece
  <2>2. 1 \in 1 .. Len(to) /\ Len(to') = Len(to) - 1 /\ \A k \in 1 .. Len(to') : to'[k] = to[k + 1]
    BY <2>1, FrameTaken, TakenDrops
  <2>3. Cancelled
    BY <1>0, <2>1, <2>2 DEF Waits, NotBegun, LineQuiet, InTransit, Refused, Acknowledged, Ended
  <2>4. \A k \in 1 .. Len(to') : k + 1 \in 1 .. Len(to)
    BY <1>0, <2>2
  <2>5. Cancelled'
    BY <1>0, <2>1, <2>2, <2>3, <2>4 DEF Cancelled
  <2> QED
    BY <1>0, <2>1, <2>5 DEF StopAndWait
<1>4. CASE RecvTimeout
  <2>1. to = <<>> /\ UNCHANGED <<to, saved>> /\ rcv.at = "header"
        /\ ((saved = <<>> /\ Continues(<<>>, Asking)) \/ Leaves(<<"CAN">>, -1))
    BY <1>4 DEF RecvTimeout, First
  <2>2. CASE saved = <<>> /\ Continues(<<>>, Asking)
    <3>1. rcv'.at = "header" /\ UNCHANGED result
      BY <2>2 DEF Continues
    <3>2. (OnlyC(back) => OnlyC(back')) /\ \A r : OneReply(back, r) => OneReply(back', r)
      BY <2>2, ReceiverReplies
    <3>3. NotBegun \/ Refused \/ Acknowledged \/ Cancelled
      BY <1>0, <2>1 DEF Waits, InTransit, InFlight, Ended
    <3>4. NotBegun \/ Refused \/ Acknowledged => (NotBegun \/ Refused \/ Acknowledged)'
      BY <1>0, <2>1, <2>2, <3>1, <3>2 DEF NotBegun, Refused, Acknowledged, LineQuiet
    <3>5. Cancelled => Cancelled'
      BY <1>0, <2>1, <3>1 DEF Cancelled
    <3> QED
      BY <1>0, <2>1, <3>1, <3>3, <3>4, <3>5 DEF StopAndWait
  <2>3. CASE Leaves(<<"CAN">>, -1)
    <3>1. rcv'.at = "done" /\ result' = -1
      BY <2>3 DEF Leaves
    <3> QED
      BY <1>0, <2>1, <3>1 DEF StopAndWait
  <2> QED
    BY <2>1, <2>2, <2>3
<1>5. ASSUME NEW p, Gets(p), RecvByte(p) PROVE StopAndWait'
  <2>1. TakesPiece /\ UNCHANGED <<back, result, saved>> /\ to[1].piece = "num" /\ rcv'.at = "data" /\ rcv.at = "number"
    BY <1>5, FramedReceiver DEF RecvByte
  <2>2. Len(to') = Len(to) - 1 /\ (\A k \in 1 .. Len(to') : to'[k] = to[k + 1]) /\ to' # <<>> /\ to'[Len(to')] = to[Len(to)]
    BY <2>1, FrameTaken
  <2>3. InTransit
    BY <1>0, <2>1 DEF Waits, NotBegun, LineQuiet, Refused, Acknowledged, Ended, Cancelled
  <2>4. Len(to) = 2 /\ to[Len(to)].blk = snd.blk
    BY <2>1, <2>3 DEF InTransit, InFlight
  <2>5. \A k \in 1 .. Len(to') : k + 1 \in 1 .. Len(to)
    BY <2>2, <2>4
  <2>7. InTransit'
    BY <1>0, <2>1, <2>2, <2>3, <2>4, <2>5 DEF InTransit, InFlight, OnlyC
  <2> QED
    BY <1>0, <2>1, <2>7 DEF StopAndWait
<1>6. ASSUME NEW p, Gets(p), RecvPack(p) PROVE StopAndWait'
  <2>1. TakesPiece /\ p = to[1] /\ to[1].piece = "dat" /\ rcv.at = "data"
    BY <1>6, FramedReceiver DEF RecvPack
  <2>2. Len(to') = Len(to) - 1 /\ to' \in Seq(Pieces)
    BY <2>1, FrameTaken, TakenDrops
  <2>3. InTransit
    BY <1>0, <2>1 DEF Waits, NotBegun, LineQuiet, Refused, Acknowledged, Ended, Cancelled
  <2>4. Len(to) = 1 /\ to[1].blk = snd.blk
    BY <2>1, <2>3 DEF InTransit, InFlight
  <2>5. to' = <<>>
    BY <2>2, <2>4
  <2>6. CASE Continues(Refusal, Asking) /\ UNCHANGED saved
    <3>1. rcv'.at = "header" /\ UNCHANGED result
      BY <2>6 DEF Continues
    <3>2. OneReply(back', "NAK")
      BY <2>3, <2>6, ReceiverReplies DEF InTransit
    <3>3. Refused'
      BY <1>0, <2>3, <2>5, <2>6, <3>1, <3>2 DEF InTransit, Refused, LineQuiet
    <3> QED
      BY <1>0, <2>6, <3>1, <3>3 DEF StopAndWait
  <2>7. CASE GoodPack(rcv.got[1], p) /\ saved' = Accepted(p) /\ Continues(<<"ACK">>, <<>>)
    <3>1. rcv'.at = "header" /\ UNCHANGED result
      BY <2>7 DEF Continues
    <3>2. OneReply(back', "ACK")
      BY <2>3, <2>7, ReceiverReplies DEF InTransit
    <3>3. saved' = Append(saved, snd.blk)
      BY <1>6, <2>4, <2>7, PackSaves
    <3>4. Len(saved) = snd.blk - 1 /\ snd.at = "block"
      BY <2>3 DEF InTransit
    <3>5. PICK b \in Nat : b = snd.blk
      BY <1>0
    <3>6. b \in Packets /\ b = Len(saved) + 1
      BY <1>0, <3>4, <3>5 DEF Packets
    <3>7. IsFile(saved') /\ Len(saved') = b
      BY <1>0, <3>3, <3>5, <3>6, FileGrows
    <3>8. Acknowledged'
      BY <1>0, <2>5, <3>1, <3>2, <3>4, <3>5, <3>7 DEF Acknowledged, LineQuiet
    <3>9. result' = 0
      BY <3>1
    <3> QED
      BY <3>7, <3>8, <3>9 DEF StopAndWait
  <2>8. CASE Leaves(<<"CAN">>, -1) /\ UNCHANGED saved
    <3>1. rcv'.at = "done" /\ result' = -1
      BY <2>8 DEF Leaves
    <3> QED
      BY <1>0, <2>8, <3>1 DEF StopAndWait
  <2> QED
    BY <1>6, <2>6, <2>7, <2>8 DEF RecvPack
<1> QED
  BY <1>1, <1>2, <1>3, <1>4, <1>5, <1>6, ReceiverSteps

\* A packet that is sent to an idle receiver.
LEMMA PacketSent ==
    ASSUME XmTypes, LineQuiet, NEW b \in Packets, to' = to \o Packet(b), snd' = [blk |-> b, at |-> "block"],
           UNCHANGED <<rcv, saved>>, OnlyC(back'), Len(saved) = b - 1
    PROVE  InTransit'
<1>1. b \in Nat /\ snd'.blk = b /\ snd'.at = "block"
  BY DEF Packets
<1>2. PICK q \in Seq(Pieces) : q = Packet(b)
  BY <1>1, PacketIs
<1>3. Len(q) = 3 /\ 1 .. 3 = {1, 2, 3} /\ q[1] = Soh /\ q[2] = Number(b) /\ q[3] = Data(b)
  BY <1>1, <1>2, PacketIs
<1>4. to' = q
  BY <1>2, ConcatEmptySeq DEF LineQuiet
<1>5. q[3].blk = b /\ \A i \in 1 .. 3 : q[i].piece \in {"hdr", "num", "dat"}
  BY <1>3 DEF Soh, Number, Data
<1>6. rcv'.at = "header" /\ Len(to') = 3 /\ to'[3].blk = b /\ \A i \in 1 .. Len(to') : to'[i].piece \in {"hdr", "num", "dat"}
  BY <1>3, <1>4, <1>5 DEF LineQuiet
<1>7. to'[Len(to')].blk = snd'.blk
  BY <1>1, <1>6
<1>8. InFlight(snd.blk)'
  BY <1>6, <1>7 DEF InFlight
<1> QED
  BY <1>1, <1>6, <1>8 DEF InTransit

\* The end of the file, sent to a receiver that waits.
LEMMA EndSent ==
    ASSUME XmTypes, LineQuiet, to' = to \o <<Eot>>, snd'.at = "eot", UNCHANGED <<rcv, saved>>, OnlyC(back'), Len(saved) = NPackets
    PROVE  Ended'
<1>1. to' = <<Eot>>
  BY EndsAre, ConcatEmptySeq DEF LineQuiet
<1>2. Len(to') = 1 /\ to'[1] = Eot
  BY <1>1, EndsAre
<1>3. to'[1].piece = "eot" /\ rcv'.at = "header"
  BY <1>2 DEF Eot, LineQuiet
<1> QED
  BY <1>2, <1>3 DEF Ended

\* What a reply does to what the sender waits for.
LEMMA SenderReadsOne ==
    ASSUME XmTypes, InOrder, Waits, ~ again, SenderReads
    PROVE  Waits'
<1>0. /\ UNCHANGED <<rcv, saved, result>> /\ back \in Seq(Replies) /\ back # <<>> /\ back' = Tail(back) /\ SendReply(Head(back))
      /\ Len(to) \in Nat /\ (to = <<>> <=> Len(to) = 0) /\ LineMax \in Nat /\ NPackets \in Nat /\ NPackets > 0
      /\ snd.blk \in Nat /\ snd.blk <= NPackets /\ snd = [blk |-> snd.blk, at |-> snd.at]
  BY PacketsOnLine, XModemAssumption, SenderIs DEF SenderReads, XmTypes
<1>1. PICK r \in Replies : r = Head(back) /\ SendReply(r)
  BY <1>0, ReplyRead
<1>2. /\ OnlyC(back) => r = "C" /\ OnlyC(back')
      /\ \A a : OneReply(back, a) => (r = a /\ OnlyC(back')) \/ (r = "C" /\ OneReply(back', a))
  BY <1>0, <1>1, ReplyRead
<1>3. ReplyDone(r)
  BY <1>1, ReplyDoes
<1>4. LineQuiet => ~ (Len(to) > LineMax)
  BY <1>0 DEF LineQuiet
<1>5. CASE NotBegun
  <2>1. r = "C" /\ OnlyC(back') /\ snd.at = "start" /\ LineQuiet /\ saved = <<>> /\ Len(saved) = 0
    BY <1>2, <1>5 DEF NotBegun
  <2>2. CASE SendsNothing
    BY <1>0, <2>1, <2>2 DEF SendsNothing, Waits, NotBegun, LineQuiet
  <2>3. CASE to' = to \o Packet(1) /\ snd' = [blk |-> 1, at |-> "block"]
    <3>1. PICK b \in Packets : b = 1
      BY <1>0 DEF Packets
    <3>2. Len(saved) = b - 1
      BY <2>1, <3>1
    <3> QED
      BY <1>0, <2>1, <2>3, <3>1, <3>2, PacketSent DEF Waits
  <2> QED
    BY <1>3, <2>1, <2>2, <2>3 DEF ReplyDone
<1>6. CASE InTransit
  <2>1. r = "C" /\ OnlyC(back') /\ snd.at = "block"
    BY <1>2, <1>6 DEF InTransit
  <2>2. SendsNothing
    BY <1>3, <2>1 DEF ReplyDone
  <2> QED
    BY <1>0, <1>6, <2>1, <2>2 DEF SendsNothing, Waits, InTransit, InFlight
<1>7. CASE Refused
  <2>0. snd.at = "block" /\ LineQuiet /\ Len(saved) = snd.blk - 1 /\ ((r = "NAK" /\ OnlyC(back')) \/ (r = "C" /\ OneReply(back', "NAK")))
    BY <1>2, <1>7 DEF Refused
  <2>1. CASE r = "C" /\ OneReply(back', "NAK")
    <3>1. SendsNothing
      BY <1>3, <2>0, <2>1 DEF ReplyDone
    <3> QED
      BY <1>0, <2>0, <2>1, <3>1 DEF SendsNothing, Waits, Refused, LineQuiet
  <2>2. CASE r = "NAK" /\ OnlyC(back')
    <3>1. to' = to \o Packet(snd.blk) /\ snd' = snd
      BY <1>3, <1>4, <2>0, <2>2 DEF ReplyDone
    <3>2. PICK b \in Packets : b = snd.blk
      BY <1>0, <2>0 DEF Packets, XmTypes
    <3> QED
      BY <1>0, <2>0, <2>2, <3>1, <3>2, PacketSent DEF Waits
  <2> QED
    BY <2>0, <2>1, <2>2
<1>8. CASE Acknowledged
  <2>0. snd.at = "block" /\ LineQuiet /\ Len(saved) = snd.blk /\ ((r = "ACK" /\ OnlyC(back')) \/ (r = "C" /\ OneReply(back', "ACK")))
    BY <1>2, <1>8 DEF Acknowledged
  <2>1. CASE r = "C" /\ OneReply(back', "ACK")
    <3>1. SendsNothing
      BY <1>3, <2>0, <2>1 DEF ReplyDone
    <3> QED
      BY <1>0, <2>0, <2>1, <3>1 DEF SendsNothing, Waits, Acknowledged, LineQuiet
  <2>2. CASE r = "ACK" /\ OnlyC(back')
    <3>1. \/ snd.blk < NPackets /\ to' = to \o Packet(snd.blk + 1) /\ snd' = [blk |-> snd.blk + 1, at |-> "block"]
          \/ snd.blk = NPackets /\ SendsEnd
      BY <1>3, <1>4, <2>0, <2>2 DEF ReplyDone
    <3>2. CASE snd.blk < NPackets /\ to' = to \o Packet(snd.blk + 1) /\ snd' = [blk |-> snd.blk + 1, at |-> "block"]
      <4>1. PICK b \in Packets : b = snd.blk + 1
        BY <1>0, <3>2 DEF Packets
      <4>2. Len(saved) = b - 1
        BY <1>0, <2>0, <4>1
      <4> QED
        BY <1>0, <2>0, <2>2, <3>2, <4>1, <4>2, PacketSent DEF Waits
    <3>3. CASE snd.blk = NPackets /\ SendsEnd
      BY <1>0, <2>0, <2>2, <3>3, EndSent DEF SendsEnd, Waits
    <3> QED
      BY <3>1, <3>2, <3>3
  <2> QED
    BY <2>0, <2>1, <2>2
<1>9. CASE Ended
  <2>1. r = "C" /\ OnlyC(back') /\ snd.at = "eot"
    BY <1>2, <1>9 DEF Ended
  <2>2. SendsNothing
    BY <1>3, <2>1 DEF ReplyDone, SendsLess
  <2> QED
    BY <1>0, <1>9, <2>1, <2>2 DEF SendsNothing, Waits, Ended
<1>10. CASE Cancelled
  <2>1. SendsNothing \/ (SendsLess /\ snd'.at = "quit")
    BY <1>3, <1>10 DEF ReplyDone, Cancelled
  <2>2. UNCHANGED to /\ snd'.at = "quit"
    BY <1>10, <2>1 DEF SendsNothing, SendsLess, Cancelled
  <2> QED
    BY <1>0, <1>10, <2>2 DEF Waits, Cancelled
<1> QED
  BY <1>5, <1>6, <1>7, <1>8, <1>9, <1>10 DEF Waits

\* If no reply is lost, the sender sends one packet, or repeats it, for each answer.
LEMMA SenderWaits ==
    ASSUME XmTypes, InOrder, StopAndWait, ~ again, SenderSteps
    PROVE  StopAndWait'
<1>0. UNCHANGED <<rcv, saved, result, again>>
  BY SenderDoes
<1>1. SUFFICES ASSUME rcv.at # "done" PROVE Waits'
  BY <1>0 DEF StopAndWait, Waits
<1>2. Waits /\ back \in Seq(Replies)
  BY <1>1 DEF StopAndWait, Waits, XmTypes
<1>3. CASE SenderReads
  BY <1>2, <1>3, SenderReadsOne
<1>4. CASE SenderTimeout
  <2>1. /\ back \in Seq({"C"}) /\ to = <<>> /\ Len(to) = 0 /\ snd.at \in {"block", "eot"}
    BY <1>4 DEF SenderTimeout
  <2>2. \A i \in 1 .. Len(back) : back[i] = "C"
    BY <2>1, ElementOfSeq
  <2>3. ~ OneReply(back, "NAK") /\ ~ OneReply(back, "ACK")
    BY <2>2 DEF OneReply
  <2> QED
    BY <1>2, <2>1, <2>3 DEF Waits, NotBegun, InTransit, InFlight, Refused, Acknowledged, Ended, Cancelled
<1>5. CASE SenderCancels
  <2>1. snd.at \in {"start", "block"} /\ to = <<>> /\ snd'.at = "quit" /\ to' = to \o <<Can, Can>>
    BY <1>5 DEF SenderCancels, SenderPuts, XmTypes
  <2>2. to' = <<Can, Can>>
    BY <2>1, EndsAre, ConcatEmptySeq
  <2>3. rcv.at = "header"
    BY <1>2, <2>1 DEF Waits, NotBegun, InTransit, InFlight, Refused, Acknowledged, Ended, Cancelled, LineQuiet
  <2>4. \A i \in 1 .. Len(to') : to'[i].piece = "can"
    BY <2>2, EndsAre DEF Can
  <2> QED
    BY <1>0, <2>1, <2>3, <2>4 DEF Waits, Cancelled
<1> QED
  BY <1>3, <1>4, <1>5 DEF SenderSteps

\* Damage leaves the packet on its way.
LEMMA LineWaits ==
    ASSUME XmTypes, StopAndWait, Line, ~ Happened("piece")', ~ Happened("reply")'
    PROVE  StopAndWait'
<1>0. UNCHANGED <<rcv, saved, result, snd, back>> /\ HasDamaged(to', to)
  BY LineDoes
<1>1. PICK z \in Nat : z = Len(to)
  BY LenProperties DEF XmTypes
<1>2. to' \in Seq(Pieces) /\ Len(to') = z /\ \A k \in 1 .. z : to'[k].piece = to[k].piece /\ to'[k].blk = to[k].blk
  BY <1>0, <1>1 DEF HasDamaged
<1>3. (to = <<>> <=> z = 0) /\ (to' = <<>> <=> z = 0)
  BY <1>1, <1>2 DEF XmTypes
<1>4. z # 0 => 1 \in 1 .. z /\ z \in 1 .. z
  BY <1>1
<1>5. ASSUME Waits PROVE Waits'
  <2>1. LineQuiet => LineQuiet'
    BY <1>0, <1>3 DEF LineQuiet
  <2>2. NotBegun \/ Refused \/ Acknowledged => (NotBegun \/ Refused \/ Acknowledged)'
    BY <1>0, <2>1 DEF NotBegun, Refused, Acknowledged
  <2>3. InTransit => InTransit'
    BY <1>0, <1>1, <1>2, <1>4 DEF InTransit, InFlight
  <2>4. Ended => Ended'
    BY <1>0, <1>1, <1>2, <1>4 DEF Ended
  <2>5. Cancelled => Cancelled'
    BY <1>0, <1>1, <1>2 DEF Cancelled
  <2> QED
    BY <1>5, <2>2, <2>3, <2>4, <2>5 DEF Waits
<1> QED
  BY <1>0, <1>5 DEF StopAndWait, Waits

-----------------------------------------------------------------------------
\* What the run checks follows from the invariant.
LEMMA DownloadExactFollows == XmInv => DownloadExact
<1> SUFFICES ASSUME XmInv PROVE DownloadExact
  OBVIOUS
<1>1. XmTypeOK
  <2>1. XmTypes /\ InOrder
    BY DEF XmInv
  <2> QED
    BY <2>1 DEF XmTypes, InOrder, XmTypeOK, Replies, Kinds
<1>2. SavedInOrder
  BY DEF XmInv, InOrder, SavedInOrder
<1>3. DamageIsRepaired
  BY DEF XmInv, StopAndWait, DamageIsRepaired
<1>4. NothingMissing
  BY DEF XmInv, NoGaps, NothingMissing, IsSaved
<1> QED
  BY <1>1, <1>2, <1>3, <1>4 DEF DownloadExact

\* The faults so far, if nothing new happens.
LEMMA DownloadKept == XmInv /\ [XmNext]_xmVars => XmInv'
<1> SUFFICES ASSUME XmInv, [XmNext]_xmVars PROVE XmInv'
  OBVIOUS
<1>0. XmTypes /\ InOrder /\ (rcv.at # "done" => result = 0)
      /\ (~ Happened("piece") => Framed) /\ (~ Happened("piece") /\ ~ Happened("data") => NoGaps)
      /\ (~ Happened("piece") /\ ~ Happened("reply") /\ ~ again => StopAndWait)
  BY DEF XmInv
<1>1. CASE Receiver
  <2>1. UNCHANGED <<again, happened>>
    BY <1>0, <1>1, ReceiverSteps
  <2>2. \A f : Happened(f)' <=> Happened(f)
    BY <2>1 DEF Happened
  <2>3. XmTypes' /\ InOrder'
    BY <1>0, <1>1, ReceiverKeepsTypes, ReceiverKeepsOrder
  <2>4. rcv.at # "done" /\ result = 0
    BY <1>0, <1>1 DEF Receiver, RecvHeader, RecvTimeout, RecvRest
  <2>5. rcv'.at # "done" => result' = 0
    BY <1>1, <2>4 DEF Receiver, RecvHeader, RecvTimeout, RecvRest, RecvByte, RecvPack, Continues, Leaves
  <2>6. ~ Happened("piece") => Framed'
    BY <1>0, <1>1, ReceiverKeepsFrame
  <2>7. ~ Happened("piece") /\ ~ Happened("data") => NoGaps'
    BY <1>0, <1>1, <2>4, ReceiverKeepsAll
  <2>8. ~ Happened("piece") /\ ~ Happened("reply") /\ ~ again => StopAndWait'
    BY <1>0, <1>1, <2>4, ReceiverWaits
  <2> QED
    BY <2>1, <2>2, <2>3, <2>5, <2>6, <2>7, <2>8 DEF XmInv
<1>2. CASE SenderSteps
  <2>1. UNCHANGED <<rcv, result, again, happened>>
    BY <1>0, <1>2, SenderDoes
  <2>2. \A f : Happened(f)' <=> Happened(f)
    BY <2>1 DEF Happened
  <2>3. XmTypes' /\ InOrder'
    BY <1>0, <1>2, SenderKeepsTypes, SenderKeepsOrder
  <2>4. rcv'.at # "done" => result' = 0
    BY <1>0, <2>1
  <2>6. ~ Happened("piece") => Framed'
    BY <1>0, <1>2, SenderKeepsFrame
  <2>7. ~ Happened("piece") /\ ~ Happened("data") => NoGaps'
    BY <1>0, <1>2, SenderKeepsAll
  <2>8. ~ Happened("piece") /\ ~ Happened("reply") /\ ~ again => StopAndWait'
    BY <1>0, <1>2, SenderWaits
  <2> QED
    BY <2>1, <2>2, <2>3, <2>4, <2>6, <2>7, <2>8 DEF XmInv
<1>3. CASE Line
  <2>1. UNCHANGED <<rcv, result, again>> /\ \A f : Happened(f) => Happened(f)'
    BY <1>0, <1>3, LineDoes
  <2>2. XmTypes' /\ InOrder'
    BY <1>0, <1>3, LineKeepsTypes, LineKeepsOrder
  <2>3. rcv'.at # "done" => result' = 0
    BY <1>0, <2>1
  <2>4. ~ Happened("piece")' => Framed'
    BY <1>0, <1>3, <2>1, LineKeepsFrame
  <2>5. ~ Happened("piece")' /\ ~ Happened("data")' => NoGaps'
    BY <1>0, <1>3, <2>1, LineKeepsAll
  <2>6. ~ Happened("piece")' /\ ~ Happened("reply")' /\ ~ again => StopAndWait'
    BY <1>0, <1>3, <2>1, LineWaits
  <2> QED
    BY <2>1, <2>2, <2>3, <2>4, <2>5, <2>6 DEF XmInv
<1>4. CASE UNCHANGED xmVars
  <2>1. UNCHANGED <<to, back, rcv, saved, result, snd, again, happened>>
    BY <1>4 DEF xmVars
  <2>2. (\A f : Happened(f)' <=> Happened(f)) /\ XmTypes' /\ InOrder' /\ (rcv'.at # "done" => result' = 0)
    BY <1>0, <2>1, SameKeepsOrder DEF Happened, XmTypes
  <2>3. (Framed => Framed') /\ (NoGaps => NoGaps') /\ (StopAndWait => StopAndWait')
    BY <2>1 DEF Framed, Expected, NoGaps, Intact, EndLast, AllThere, IsSaved, OnLine, StopAndWait, NotBegun, InTransit, Refused,
                Acknowledged, Ended, Cancelled, LineQuiet, InFlight
  <2> QED
    BY <1>0, <2>1, <2>2, <2>3 DEF XmInv
<1> QED
  BY <1>1, <1>2, <1>3, <1>4 DEF XmNext, SenderSteps

\* A download saves only intact blocks, in order, whatever the line does; if
\* packets are only damaged, each block once, and the whole file when it
\* succeeds; if only replies are, all blocks when it succeeds.
THEOREM DownloadIsExact == XmSpec => []DownloadExact
<1>1. XmInit => XmInv
  BY DownloadStarts
<1>2. XmInv /\ [XmNext]_xmVars => XmInv'
  BY DownloadKept
<1>3. XmInv => DownloadExact
  BY DownloadExactFollows
<1> QED
  BY <1>1, <1>2, <1>3, PTL DEF XmSpec

-----------------------------------------------------------------------------
(* The SD card.                                                            *)

SdHostT == [cmd : SdCommands \cup {"none"}, arg : Int, dat : {"idle", "read", "write"}, count : 0 .. NBlocks,
            left : 0 .. NBlocks, buf : Int, open : BOOLEAN, int : SUBSET {"cc", "rd", "wr", "xc"},
            err : BOOLEAN, clk : {"off", "ident", "tran", "fast"},
            resp : [cmd : SdCommands \cup {"none"}, st : {"idle", "ready", "ident", "stby", "tran", "data", "rcv", "prg"}, ready : BOOLEAN, ok : BOOLEAN]]
SdCardT == [kind : Cards, st : {"idle", "ready", "ident", "stby", "tran", "data", "rcv", "prg"}, app : BOOLEAN,
            count : Int, at : Int, er : [1 .. 2 -> Int]]
SdDrvT == [call : {"off", "idle", "dead", "enumerate", "read", "write", "erase"}, pc : 1 .. 18, sent : BOOLEAN,
           i : Nat, lba : Nat, n : 0 .. NBlocks, tries : 0 .. StateRetries + OpCondRetries,
           type : {"hc", "sd"}, ocr : {"byte", "sector"}, rca : BOOLEAN, wild : BOOLEAN, ret : Int,
           calls : Nat, last : {"none", "read", "write", "erase"}, bad : BOOLEAN, asked : SUBSET Int]
SdTypes ==
    /\ host \in SdHostT
    /\ card \in SdCardT
    /\ media \in [Blocks -> Int \ {None}]
    /\ drv \in SdDrvT
    /\ mem \in Seq(Int)
    /\ faults \in 0 .. MaxFaults

\* The first k places of the buffer hold the blocks from lba on; the first k
\* blocks from lba on hold the data of the call.
SdCopied(m, d, lba, k) == \A j \in 0 .. k - 1 : m[j + 1] = d[lba + j]
SdLanded(d, lba, k) == \A j \in 0 .. k - 1 : d[lba + j] = Written(j)

SdXfer == drv.call \in {"read", "write"}
SdLast(call) == IF call = "enumerate" THEN 18 ELSE IF call = "erase" THEN 4 ELSE 5
SdPolls == \/ drv.call = "enumerate" /\ drv.pc \in {10, 17}
           \/ SdXfer /\ drv.pc = 5
           \/ drv.call = "erase" /\ drv.pc = 4

\* Where the driver is in its call, and what the call may touch.
SdInCall ==
    /\ ~Running => drv.pc = 1 /\ ~drv.sent /\ drv.i = 0
    /\ Running => drv.pc <= SdLast(drv.call)
    /\ drv.sent => (drv.call = "enumerate" => drv.pc \notin {1, 11, 14, 18}) /\ (SdXfer => drv.pc \notin {1, 4})
    /\ drv.call \in {"read", "write", "erase"} => drv.last = drv.call
    /\ drv.call \in {"off", "enumerate", "dead"} => drv.last = "none" /\ ~drv.bad
    /\ drv.last # "none" => drv.n > 0 /\ drv.lba + drv.n <= NBlocks
    /\ drv.last \in {"write", "erase"} => \A b \in drv.lba .. drv.lba + drv.n - 1 : b \in drv.asked
    /\ SdPolls \/ (drv.call = "enumerate" /\ drv.pc \in {4, 5}) => drv.tries > 0

SdMatch == IF card.kind.hc THEN drv.type = "hc" /\ drv.ocr = "sector" ELSE drv.type = "sd" /\ drv.ocr = "byte"

\* While the card has no address there is one command at a time.
SdEarlyStep == CASE drv.pc = 2 -> "CMD0" [] drv.pc = 3 -> "CMD8" [] drv.pc = 4 -> "CMD55"
                 [] drv.pc = 5 -> "ACMD41" [] drv.pc = 6 -> "CMD2" [] OTHER -> "none"
SdEarly ==
    drv.call = "enumerate" /\ drv.pc <= 6 =>
        /\ host.dat = "idle"
        /\ ~drv.sent => host.cmd = "none" /\ "cc" \notin host.int
        /\ host.cmd # "none" => host.cmd = SdEarlyStep /\ "cc" \notin host.int
        /\ "cc" \in host.int => host.resp.cmd = SdEarlyStep
        /\ drv.pc <= 4 => card.st = "idle"
        /\ drv.pc = 5 => card.st = "idle" \/ (card.st = "ready" /\ (host.err \/ ("cc" \in host.int /\ host.resp.ok)))
        /\ drv.pc = 6 /\ ("cc" \in host.int \/ card.st = "ready") => SdMatch

\* The driver addresses the card in the right unit once it has been set up.
SdKnown ==
    /\ drv.call = "off" => card.st = "idle" /\ host.cmd = "none" /\ host.dat = "idle"
    /\ drv.call \in {"idle", "read", "write", "erase"} \/ (drv.call = "enumerate" /\ drv.pc > 6) => SdMatch

\* The data path; what is under way to the card stays inside what was asked.
SdData ==
    /\ host.dat = "idle" => host.buf = None
    /\ host.open => host.dat = "write" /\ host.buf = None
    /\ host.dat = "write" /\ (host.open \/ host.buf # None) => host.left > 0
    /\ host.dat = "write" /\ host.buf # None => card.at \in drv.asked
    /\ host.cmd \notin {"none", "ACMD51"} \/ card.app => host.dat = "idle"
    /\ host.cmd = "CMD38" /\ card.kind.hc => \A b \in card.er[1] .. card.er[2] : b \in drv.asked

\* The card expects the blocks of the call.
SdExpects == card.st = "tran" /\ card.count = drv.n

\* CMD23 of this call is on its way or answered.
SdAnnounced ==
    SdXfer /\ ((drv.pc = 2 /\ drv.sent) \/ (drv.pc = 3 /\ ~drv.sent)) =>
        /\ host.dat = "idle" /\ host.cmd \in {"none", "CMD23"}
        /\ host.cmd = "CMD23" => host.arg = drv.n
        /\ host.cmd = "none" => host.err \/ SdExpects

\* Before the data command nothing of the call has moved.
SdFresh ==
    /\ SdXfer /\ drv.pc >= 2 => host.count = drv.n
    /\ drv.call = "read" /\ drv.pc <= 3 => mem = <<>>
    /\ SdXfer /\ drv.pc <= 3 => drv.i = 0
    /\ SdXfer /\ drv.pc = 3 /\ ~drv.sent => "xc" \notin host.int

SdMoved == drv.n - host.left
SdBuffer == IF host.buf = None THEN 0 ELSE 1

\* The data command is on its way.
SdPending ==
    /\ drv.call = "read" => host.cmd = "CMD18" /\ host.arg = ReadArg /\ drv.i = 0 /\ mem = <<>>
    /\ drv.call = "write" => host.cmd = "CMD25" /\ host.arg = WriteArg
    /\ host.err \/ SdExpects
    /\ "xc" \notin host.int

\* A read in transfer: every block that came is in the buffer or next to it.
SdReading ==
    /\ drv.call = "read" /\ host.dat = "read" /\ host.cmd = "none" /\ "xc" \notin host.int
    /\ host.left <= drv.n /\ drv.i + SdBuffer = SdMoved /\ Len(mem) = drv.i
    /\ host.err \/ /\ card.at = drv.lba + SdMoved /\ card.count = host.left /\ (host.left > 0 => card.st = "data")
                   /\ SdCopied(mem, media, drv.lba, drv.i)
                   /\ host.buf # None => host.buf = media[drv.lba + drv.i]

\* A write in transfer: the driver is ahead by the block it has lost, or not.
SdWriting ==
    /\ drv.call = "write" /\ host.dat = "write" /\ host.cmd = "none" /\ "xc" \notin host.int
    /\ card.at = drv.lba + SdMoved
    /\ host.left <= drv.n /\ SdMoved + SdBuffer <= drv.i
    /\ SdMoved + SdBuffer = drv.i =>
         /\ SdLanded(media, drv.lba, SdMoved)
         /\ host.buf # None => host.buf = Written(SdMoved)

\* The command was not obeyed.
SdRefused ==
    /\ host.cmd = "none" /\ host.dat = "idle" /\ host.err /\ "xc" \notin host.int
    /\ drv.call = "read" => Len(mem) = drv.i

\* The transfer is over.
SdReadDone == /\ host.cmd \in {"none", "CMD13"} /\ host.dat = "idle" /\ Len(mem) = drv.n
              /\ host.err \/ SdCopied(mem, media, drv.lba, drv.n)
SdWriteDone == host.cmd \in {"none", "CMD13"} /\ host.dat = "idle" /\ SdLanded(media, drv.lba, drv.n)
SdDone == drv.i = drv.n /\ (drv.call = "read" => SdReadDone) /\ (drv.call = "write" => SdWriteDone)

SdTransfers ==
    SdXfer /\ ((drv.pc = 3 /\ drv.sent) \/ drv.pc = 4) =>
        drv.i <= drv.n /\ (SdPending \/ SdReading \/ SdWriting \/ SdRefused \/ SdDone)

SdEnded ==
    /\ drv.call = "read" /\ drv.pc = 5 => SdReadDone
    /\ drv.call = "write" /\ drv.pc = 5 => SdWriteDone
    /\ drv.call = "idle" /\ drv.last = "read" /\ drv.ret > 0 /\ ~drv.wild =>
         /\ host.cmd \in {"none", "CMD13"} /\ host.dat = "idle" /\ Len(mem) = drv.n
         /\ SdCopied(mem, media, drv.lba, drv.n)
    /\ drv.call = "idle" /\ drv.last = "write" /\ drv.ret > 0 => SdWriteDone

\* The bounds of an erase, on a card that takes block numbers.
SdErStart == card.st = "tran" /\ (card.kind.hc => card.er[1] = drv.lba)
SdErEnd == card.kind.hc => card.er[2] = drv.lba + drv.n - 1
SdErasing ==
    drv.call = "erase" =>
        /\ (drv.pc = 1 /\ drv.sent) \/ (drv.pc = 2 /\ ~drv.sent) =>
              /\ host.cmd \in {"CMD32", "none"} /\ (host.cmd = "CMD32" => host.arg = drv.lba)
              /\ host.cmd = "none" => host.err \/ SdErStart
        /\ (drv.pc = 2 /\ drv.sent) \/ (drv.pc = 3 /\ ~drv.sent) =>
              /\ host.cmd \in {"CMD33", "none"} /\ (host.cmd = "CMD33" => host.arg = drv.lba + drv.n - 1)
              /\ (host.err /\ drv.pc = 2) \/ (SdErStart /\ (host.cmd = "none" => SdErEnd))

SdErrors ==
    drv.bad => /\ host.err /\ drv.call \in {"idle", "read", "write", "erase"}
               /\ SdXfer => drv.pc <= 2
               /\ drv.call = "erase" => drv.pc = 1
               /\ drv.call = "idle" => drv.ret \in {None, 0}

SdInv ==
    /\ SdTypes /\ SdInCall /\ SdEarly /\ SdKnown /\ SdData /\ SdAnnounced /\ SdFresh
    /\ SdTransfers /\ SdEnded /\ SdErasing /\ SdErrors

\* What the fields of the state are.
LEMMA SdFields ==
    ASSUME SdTypes
    PROVE  /\ host.cmd \in SdCommands \cup {"none"} /\ host.arg \in Int /\ host.dat \in {"idle", "read", "write"}
           /\ host.count \in 0 .. NBlocks /\ host.left \in 0 .. NBlocks /\ host.buf \in Int /\ host.open \in BOOLEAN
           /\ host.int \subseteq {"cc", "rd", "wr", "xc"} /\ host.err \in BOOLEAN
           /\ card.kind \in Cards /\ card.kind.hc \in BOOLEAN /\ card.count \in Int /\ card.at \in Int
           /\ card.er[1] \in Int /\ card.er[2] \in Int /\ card.app \in BOOLEAN
           /\ card.st \in {"idle", "ready", "ident", "stby", "tran", "data", "rcv", "prg"}
           /\ drv.call \in {"off", "idle", "dead", "enumerate", "read", "write", "erase"} /\ drv.pc \in 1 .. 18
           /\ drv.sent \in BOOLEAN /\ drv.i \in Nat /\ drv.lba \in Nat /\ drv.n \in 0 .. NBlocks
           /\ drv.tries \in 0 .. StateRetries + OpCondRetries /\ drv.ret \in Int /\ drv.bad \in BOOLEAN
           /\ drv.wild \in BOOLEAN /\ NBlocks \in Nat /\ StateRetries \in Nat \ {0} /\ OpCondRetries \in Nat \ {0}
<1>1. host \in SdHostT /\ card \in SdCardT /\ drv \in SdDrvT
  BY DEF SdTypes
<1>2. card.kind.hc \in BOOLEAN
  BY <1>1 DEF SdCardT, Cards
<1> QED
  BY <1>1, <1>2, SdAssumption DEF SdHostT, SdCardT, SdDrvT

\* The steps of the calls.
LEMMA SdEnumerate ==
    LET s == Script("enumerate")
    IN  /\ Len(s) = 18 /\ s[1] = "init" /\ s[2] = "CMD0" /\ s[3] = "CMD8" /\ s[4] = "CMD55" /\ s[5] = "ACMD41"
        /\ s[6] = "CMD2" /\ s[7] = "CMD3" /\ s[8] = "CMD9" /\ s[9] = "CMD7" /\ s[10] = "state" /\ s[11] = "prepare"
        /\ s[12] = "CMD55" /\ s[13] = "ACMD51" /\ s[14] = "read" /\ s[15] = "CMD55" /\ s[16] = "ACMD6"
        /\ s[17] = "state" /\ s[18] = "ios"
  BY DEF Script, mmc_enumerate

\* The steps of a read, a write and an erase.
LEMMA SdCalls ==
    /\ LET s == Script("read") IN Len(s) = 5 /\ s[1] = "prepare" /\ s[2] = "CMD23" /\ s[3] = "CMD18" /\ s[4] = "read" /\ s[5] = "state"
    /\ LET s == Script("write") IN Len(s) = 5 /\ s[1] = "prepare" /\ s[2] = "CMD23" /\ s[3] = "CMD25" /\ s[4] = "write" /\ s[5] = "state"
    /\ LET s == Script("erase") IN Len(s) = 4 /\ s[1] = "CMD32" /\ s[2] = "CMD33" /\ s[3] = "CMD38" /\ s[4] = "state"
  BY DEF Script, mmc_read_blocks, mmc_write_blocks, mmc_erase_blocks

\* The step the driver is at.
LEMMA SdStep ==
    ASSUME SdTypes, SdInCall, Running
    PROVE  /\ drv.pc \in 1 .. SdLast(drv.call) /\ drv.call \in {"enumerate", "read", "write", "erase"}
           /\ drv.call = "enumerate" =>
                /\ drv.pc = 1 => Step = "init"
                /\ drv.pc = 2 => Step = "CMD0"
                /\ drv.pc = 3 => Step = "CMD8"
                /\ drv.pc = 4 => Step = "CMD55"
                /\ drv.pc = 5 => Step = "ACMD41"
                /\ drv.pc = 6 => Step = "CMD2"
                /\ drv.pc = 7 => Step = "CMD3"
                /\ drv.pc = 8 => Step = "CMD9"
                /\ drv.pc = 9 => Step = "CMD7"
                /\ drv.pc = 10 => Step = "state"
                /\ drv.pc = 11 => Step = "prepare"
                /\ drv.pc = 12 => Step = "CMD55"
                /\ drv.pc = 13 => Step = "ACMD51"
                /\ drv.pc = 14 => Step = "read"
                /\ drv.pc = 15 => Step = "CMD55"
                /\ drv.pc = 16 => Step = "ACMD6"
                /\ drv.pc = 17 => Step = "state"
                /\ drv.pc = 18 => Step = "ios"
           /\ drv.call = "erase" =>
                /\ drv.pc = 1 => Step = "CMD32"
                /\ drv.pc = 2 => Step = "CMD33"
                /\ drv.pc = 3 => Step = "CMD38"
                /\ drv.pc = 4 => Step = "state"
           /\ drv.call \in {"read", "write"} =>
                /\ drv.pc = 1 => Step = "prepare"
                /\ drv.pc = 2 => Step = "CMD23"
                /\ drv.pc = 5 => Step = "state"
           /\ drv.call = "read" => (drv.pc = 3 => Step = "CMD18") /\ (drv.pc = 4 => Step = "read")
           /\ drv.call = "write" => (drv.pc = 3 => Step = "CMD25") /\ (drv.pc = 4 => Step = "write")
<1>1. drv.pc \in 1 .. 18 /\ drv.call \in {"enumerate", "read", "write", "erase"} /\ drv.pc <= SdLast(drv.call)
  BY SdFields DEF SdInCall, Running
<1>2. CASE drv.call = "enumerate"
  BY <1>1, <1>2, SdEnumerate DEF Step, SdLast
<1>3. CASE drv.call \in {"read", "write", "erase"}
  BY <1>1, <1>3, SdCalls DEF Step, SdLast
<1> QED
  BY <1>1, <1>2, <1>3

\* Where a running call is.
LEMMA SdAt ==
    ASSUME SdTypes, SdInCall, Running
    PROVE  /\ drv \in SdDrvT /\ drv.pc \in 1 .. 18 /\ drv.pc \in 1 .. SdLast(drv.call) /\ SdLast(drv.call) \in 4 .. 18
           /\ drv.call \in {"enumerate", "read", "write", "erase"}
           /\ Step = "state" => SdPolls /\ ~(drv.call = "enumerate" /\ drv.pc \in {4, 5}) /\ drv.tries > 0
           /\ Step = "ACMD51" => drv.call = "enumerate" /\ drv.pc = 13 /\ ~SdPolls
<1>1. drv \in SdDrvT /\ drv.pc \in 1 .. 18 /\ drv.call \in {"enumerate", "read", "write", "erase"}
  BY SdFields DEF SdTypes, Running
<1>2. drv.pc \in 1 .. SdLast(drv.call)
  BY SdStep
<1>3. SdLast(drv.call) \in 4 .. 18
  BY <1>1 DEF SdLast
<1>4. Step = "state" => SdPolls /\ ~(drv.call = "enumerate" /\ drv.pc \in {4, 5})
  <2>1. CASE drv.call = "enumerate"
    BY <1>1, <2>1, SdStep DEF SdPolls
  <2>2. CASE drv.call # "enumerate"
    BY <1>1, <1>2, <2>2, SdStep DEF SdPolls, SdXfer, SdLast
  <2> QED
    BY <2>1, <2>2
<1>5. SdPolls => drv.tries > 0
  BY DEF SdInCall
<1>6. Step = "ACMD51" => drv.call = "enumerate" /\ drv.pc = 13
  <2>1. CASE drv.call = "enumerate"
    BY <1>1, <2>1, SdStep
  <2>2. CASE drv.call # "enumerate"
    BY <1>1, <1>2, <2>2, SdStep DEF SdLast
  <2> QED
    BY <2>1, <2>2
<1>7. drv.call = "enumerate" /\ drv.pc = 13 => ~SdPolls
  BY DEF SdPolls, SdXfer
<1> QED
  BY <1>1, <1>2, <1>3, <1>4, <1>5, <1>6, <1>7

\* Where a running call is when it is at a step.
LEMMA SdWhere ==
    ASSUME SdTypes, SdInCall, Running
    PROVE
        /\ Step = "init" => drv.call = "enumerate" /\ drv.pc = 1
        /\ Step = "CMD0" => drv.call = "enumerate" /\ drv.pc = 2
        /\ Step = "CMD8" => drv.call = "enumerate" /\ drv.pc = 3
        /\ Step = "ACMD41" => drv.call = "enumerate" /\ drv.pc = 5
        /\ Step = "CMD2" => drv.call = "enumerate" /\ drv.pc = 6
        /\ Step = "CMD3" => drv.call = "enumerate" /\ drv.pc = 7
        /\ Step = "CMD9" => drv.call = "enumerate" /\ drv.pc = 8
        /\ Step = "CMD7" => drv.call = "enumerate" /\ drv.pc = 9
        /\ Step = "ACMD51" => drv.call = "enumerate" /\ drv.pc = 13
        /\ Step = "ACMD6" => drv.call = "enumerate" /\ drv.pc = 16
        /\ Step = "ios" => drv.call = "enumerate" /\ drv.pc = 18
        /\ Step = "CMD32" => drv.call = "erase" /\ drv.pc = 1
        /\ Step = "CMD33" => drv.call = "erase" /\ drv.pc = 2
        /\ Step = "CMD38" => drv.call = "erase" /\ drv.pc = 3
        /\ Step = "CMD55" => drv.call = "enumerate" /\ drv.pc \in {4, 12, 15}
        /\ Step = "prepare" => (drv.call = "enumerate" /\ drv.pc = 11) \/ (SdXfer /\ drv.pc = 1)
        /\ Step = "CMD23" => SdXfer /\ drv.pc = 2
        /\ Step = "CMD18" => drv.call = "read" /\ drv.pc = 3
        /\ Step = "CMD25" => drv.call = "write" /\ drv.pc = 3
        /\ Step = "read" => (drv.call = "enumerate" /\ drv.pc = 14) \/ (drv.call = "read" /\ drv.pc = 4)
        /\ Step = "write" => drv.call = "write" /\ drv.pc = 4
<1>1. drv.pc \in 1 .. 18 /\ drv.call \in {"enumerate", "read", "write", "erase"} /\ drv.pc \in 1 .. SdLast(drv.call)
  BY SdStep, SdFields
<1>2. CASE drv.call = "enumerate"
  BY <1>1, <1>2, SdStep
<1>3. CASE drv.call = "erase"
  BY <1>1, <1>3, SdStep DEF SdLast
<1>4. CASE drv.call \in {"read", "write"}
  BY <1>1, <1>4, SdStep DEF SdLast, SdXfer
<1> QED
  BY <1>1, <1>2, <1>3, <1>4

\* What a call keeps while it runs.
SdKeeps == drv'.lba = drv.lba /\ drv'.n = drv.n /\ drv'.last = drv.last /\ drv'.bad = drv.bad /\ drv'.asked = drv.asked

\* The ways a step of the driver leads on: it gives up with 0, ends with its
\* result, goes on to step pc, or tries its command again.
SdGivesUp ==
    /\ drv'.call = (IF drv.call = "enumerate" THEN "dead" ELSE "idle") /\ drv'.pc = 1 /\ drv'.ret = 0
    /\ ~drv'.sent /\ drv'.i = 0 /\ SdKeeps /\ drv'.type = drv.type /\ drv'.ocr = drv.ocr
SdEnds ==
    /\ drv.pc = SdLast(drv.call)
    /\ drv'.call = "idle" /\ drv'.pc = 1 /\ drv'.ret = (IF drv.call = "enumerate" THEN 1 ELSE drv.n)
    /\ ~drv'.sent /\ drv'.i = 0 /\ SdKeeps
SdGoes(pc) ==
    /\ pc <= SdLast(drv.call)
    /\ drv'.call = drv.call /\ drv'.pc = pc /\ drv'.ret = drv.ret
    /\ ~drv'.sent /\ (SdXfer => drv'.i = 0) /\ SdKeeps
    /\ SdPolls' \/ (drv'.call = "enumerate" /\ drv'.pc = 4) => drv'.tries > 0
SdAgain ==
    /\ SdPolls \/ (drv.call = "enumerate" /\ drv.pc = 13)
    /\ drv'.call = drv.call /\ drv'.pc = drv.pc /\ drv'.ret = drv.ret /\ ~drv'.sent
    /\ SdPolls => drv'.tries > 0
    /\ SdKeeps /\ drv'.type = drv.type /\ drv'.ocr = drv.ocr

\* A call that returns.
LEMMA SdReturns ==
    ASSUME SdTypes, Returns(0)
    PROVE  drv' \in SdDrvT /\ SdGivesUp
<1>1. drv \in SdDrvT
  BY DEF SdTypes
<1>2. SdGivesUp
  BY <1>1 DEF Returns, SdDrvT, SdGivesUp, SdKeeps
<1>3. 0 \in 0 .. StateRetries + OpCondRetries /\ 0 \in Nat /\ 0 \in Int /\ 1 \in 1 .. 18
  BY SdFields
<1>4. drv' \in SdDrvT
  BY <1>1, <1>3 DEF Returns, SdDrvT
<1> QED
  BY <1>2, <1>4

\* A call that goes on with what d has noted.
LEMMA SdGoesOn ==
    ASSUME SdTypes, SdInCall, Running, NEW d \in SdDrvT, NEW pc \in 1 .. 19, pc <= SdLast(drv.call) + 1, Goto(d, pc),
           d.call = drv.call, d.lba = drv.lba, d.n = drv.n, d.last = drv.last, d.bad = drv.bad, d.asked = drv.asked, d.ret = drv.ret,
           drv.call = "enumerate" /\ pc = 5 => d.tries > 0
    PROVE  /\ drv' \in SdDrvT /\ drv'.type = d.type /\ drv'.ocr = d.ocr /\ drv'.wild = d.wild
           /\ pc <= SdLast(drv.call) => SdGoes(pc)
           /\ drv.call = "enumerate" /\ pc = 5 => drv'.tries > 0
           /\ pc > SdLast(drv.call) /\ pc = drv.pc + 1 => SdEnds
<1>0. /\ Len(Script(d.call)) = SdLast(drv.call) /\ d.call \in {"enumerate", "read", "write", "erase"}
      /\ SdLast(drv.call) \in {4, 5, 18} /\ (SdLast(drv.call) = 18 => drv.call = "enumerate")
      /\ drv.pc \in Nat /\ NBlocks \in Nat
  <2>1. d.call \in {"enumerate", "read", "write", "erase"} /\ drv.pc \in Nat /\ NBlocks \in Nat
    BY SdFields DEF Running
  <2>2. SdLast(drv.call) \in {4, 5, 18} /\ (SdLast(drv.call) = 18 => drv.call = "enumerate")
    BY <2>1 DEF SdLast
  <2>3. Len(Script(d.call)) = SdLast(drv.call)
    <3>1. CASE d.call = "enumerate"
      BY <3>1, SdEnumerate DEF SdLast
    <3>2. CASE d.call \in {"read", "write", "erase"}
      BY <3>2, SdCalls DEF SdLast
    <3> QED
      BY <2>1, <3>1, <3>2
  <2> QED
    BY <2>1, <2>2, <2>3
<1>1. CASE pc > SdLast(drv.call)
  <2>1. drv' = [d EXCEPT !.call = "idle", !.pc = 1, !.sent = FALSE, !.i = 0, !.tries = 0,
                            !.ret = IF d.call = "enumerate" THEN 1 ELSE d.n]
    BY <1>0, <1>1 DEF Goto
  <2>2. 0 \in 0 .. StateRetries + OpCondRetries /\ 0 \in Nat /\ 0 \in Int /\ 1 \in 1 .. 18 /\ 1 \in Int /\ d.n \in Int
    BY SdFields
  <2>3. drv' \in SdDrvT
    BY <2>1, <2>2 DEF SdDrvT
  <2>4. /\ drv'.type = d.type /\ drv'.ocr = d.ocr /\ drv'.wild = d.wild
        /\ drv'.call = "idle" /\ drv'.pc = 1 /\ drv'.ret = (IF drv.call = "enumerate" THEN 1 ELSE drv.n)
        /\ ~drv'.sent /\ drv'.i = 0
    BY <2>1 DEF SdDrvT
  <2>6. SdKeeps
    BY <2>1 DEF SdDrvT, SdKeeps
  <2>5. pc = drv.pc + 1 => drv.pc = SdLast(drv.call)
    BY <1>0, <1>1
  <2>7. ~(drv.call = "enumerate" /\ pc = 5) /\ ~(pc <= SdLast(drv.call))
    BY <1>0, <1>1 DEF SdLast
  <2> QED
    BY <2>3, <2>4, <2>5, <2>6, <2>7 DEF SdEnds
<1>2. CASE pc <= SdLast(drv.call)
  <2> DEFINE t == Tries(d, pc)
  <2>1. drv' = [d EXCEPT !.pc = pc, !.sent = FALSE, !.i = 0, !.tries = t]
    <3>1. ~(pc > Len(Script(d.call)))
      <4>1. PICK l \in Nat : l = SdLast(drv.call)
        BY <1>0
      <4>2. pc <= l /\ pc \in Nat
        BY <4>1, <1>2
      <4>3. ~(pc > l)
        BY <4>2
      <4> QED
        BY <1>0, <4>1, <4>3, Zenon
    <3> QED
      BY <3>1 DEF Goto
  <2>2. /\ d.tries \in 0 .. StateRetries + OpCondRetries /\ StateRetries \in Nat \ {0} /\ OpCondRetries \in Nat \ {0}
    BY SdFields DEF SdDrvT
  <2>3. /\ t \in 0 .. StateRetries + OpCondRetries
        /\ \/ d.call = "enumerate" /\ pc \in {4, 10, 17}
           \/ d.call \in {"read", "write"} /\ pc = 5
           \/ d.call = "erase" /\ pc = 4
           => t > 0
        /\ d.call = "enumerate" /\ pc = 5 => t = d.tries
    BY <2>2, SdEnumerate, SdCalls DEF Tries
  <2> HIDE DEF t
  <2>4. 0 \in Nat /\ pc \in 1 .. 18
    BY <1>0, <1>2
  <2>5. drv' \in SdDrvT
    BY <2>1, <2>3, <2>4 DEF SdDrvT
  <2>6. /\ drv'.type = d.type /\ drv'.ocr = d.ocr /\ drv'.wild = d.wild /\ drv'.tries = t
        /\ drv'.call = drv.call /\ drv'.pc = pc /\ drv'.ret = drv.ret /\ ~drv'.sent /\ drv'.i = 0
    BY <2>1 DEF SdDrvT
  <2>7. SdKeeps
    BY <2>1 DEF SdDrvT, SdKeeps
  <2>8. SdPolls' \/ (drv'.call = "enumerate" /\ drv'.pc = 4) => t > 0
    BY <2>3, <2>6 DEF SdPolls, SdXfer
  <2>9. SdGoes(pc)
    BY <2>6, <2>7, <2>8, <1>2 DEF SdGoes
  <2>10. ~(pc > SdLast(drv.call))
    <3>1. PICK l \in Nat : l = SdLast(drv.call)
      BY <1>0
    <3>2. pc <= l /\ pc \in Nat
      BY <3>1, <1>2
    <3>3. ~(pc > l)
      BY <3>2
    <3> QED
      BY <3>1, <3>3, Zenon
  <2>11. drv.call = "enumerate" /\ pc = 5 => drv'.tries > 0
    BY <2>3, <2>6
  <2> QED
    BY <2>5, <2>6, <2>9, <2>10, <2>11
<1>3. pc <= SdLast(drv.call) \/ pc > SdLast(drv.call)
  <2>1. PICK l \in Nat : l = SdLast(drv.call)
    BY <1>0
  <2>2. pc <= l \/ pc > l
    OBVIOUS
  <2> QED
    BY <2>1, <2>2, Zenon
<1> QED
  BY <1>1, <1>2, <1>3, Zenon

\* A command that is tried again.
LEMMA SdTriesAgain ==
    ASSUME SdTypes, SdInCall, Running, NEW i \in Nat, NEW t \in 0 .. StateRetries + OpCondRetries, NEW w \in BOOLEAN,
           SdPolls => t > 0, SdPolls \/ (drv.call = "enumerate" /\ drv.pc = 13),
           drv' = [drv EXCEPT !.sent = FALSE, !.tries = t, !.i = i, !.wild = w]
    PROVE  drv' \in SdDrvT /\ SdAgain
<1>1. drv \in SdDrvT
  BY DEF SdTypes
<1> QED
  BY <1>1 DEF SdAgain, SdKeeps, SdDrvT

\* What follows a command the card has answered.
LEMMA SdAnswered ==
    ASSUME SdTypes, SdInCall, SdEarly, Running, drv.sent, ~host.err, "cc" \in host.int, TakeResponse(host.resp), card'.kind = card.kind
    PROVE  /\ drv' \in SdDrvT
           /\ \/ SdGivesUp \/ SdAgain
              \/ SdEnds /\ drv'.type = drv.type /\ drv'.ocr = drv.ocr
              \/ SdGoes(drv.pc + 1) /\ ~(drv.call = "enumerate" /\ drv.pc = 5) /\ drv'.type = drv.type /\ drv'.ocr = drv.ocr
                   /\ (drv.call = "enumerate" /\ drv.pc = 4 => drv'.tries > 0)
              \/ drv.call = "enumerate" /\ drv.pc = 3 /\ SdGoes(6)
              \/ drv.call = "enumerate" /\ drv.pc = 5 /\ ~host.resp.ok /\ SdGoes(4) /\ drv'.tries > 0
              \/ drv.call = "enumerate" /\ drv.pc = 5 /\ host.resp.ok /\ SdGoes(6) /\ SdMatch'
<1> DEFINE r == host.resp
<1>0. /\ drv \in SdDrvT /\ drv.pc \in 1 .. 18 /\ drv.pc \in 1 .. SdLast(drv.call) /\ SdLast(drv.call) \in 4 .. 18
      /\ drv.call \in {"enumerate", "read", "write", "erase"}
  BY SdAt
<1>1. CASE Step = "state"
  <2>0. SdPolls /\ ~(drv.call = "enumerate" /\ drv.pc \in {4, 5}) /\ drv.tries > 0
    BY <1>1, SdAt
  <2>1. mmc_device_state(r)
    BY <1>1 DEF TakeResponse
  <2>2. CASE Next1(drv)
    BY <1>0, <2>0, <2>2, SdGoesOn DEF Next1
  <2>3. CASE drv' = [drv EXCEPT !.sent = FALSE, !.tries = StateRetries]
    <3>1. drv' = [drv EXCEPT !.sent = FALSE, !.tries = StateRetries, !.i = drv.i, !.wild = drv.wild]
      BY <1>0, <2>3 DEF SdDrvT
    <3>2. StateRetries \in 0 .. StateRetries + OpCondRetries /\ StateRetries > 0 /\ drv.i \in Nat /\ drv.wild \in BOOLEAN
      BY SdFields
    <3> QED
      BY <2>0, <3>1, <3>2, SdTriesAgain
  <2>4. CASE drv.tries = 1 /\ Returns(0)
    BY <2>4, SdReturns
  <2>5. CASE drv.tries # 1 /\ drv' = [drv EXCEPT !.sent = FALSE, !.tries = @ - 1, !.i = 1]
    <3>1. drv' = [drv EXCEPT !.sent = FALSE, !.tries = drv.tries - 1, !.i = 1, !.wild = drv.wild]
      BY <1>0, <2>5 DEF SdDrvT
    <3>2. drv.tries - 1 \in 0 .. StateRetries + OpCondRetries /\ drv.tries - 1 > 0 /\ drv.wild \in BOOLEAN
      BY <2>0, <2>5, SdFields
    <3> QED
      BY <2>0, <3>1, <3>2, SdTriesAgain
  <2> QED
    BY <2>1, <2>2, <2>3, <2>4, <2>5 DEF mmc_device_state
<1>2. CASE Step = "ACMD41"
  <2>0. drv.call = "enumerate" /\ drv.pc = 5 /\ drv.tries > 0 /\ r.cmd = "ACMD41" /\ SdLast(drv.call) = 18
    <3>1. drv.call = "enumerate" /\ drv.pc = 5 /\ SdLast(drv.call) = 18
      BY <1>0, <1>2, SdStep DEF SdLast
    <3>2. SdEarlyStep = "ACMD41"
      BY <3>1 DEF SdEarlyStep
    <3> QED
      BY <3>1, <3>2 DEF SdEarly, SdInCall
  <2>1. sd_send_op_cond(r)
    BY <1>2 DEF TakeResponse
  <2>2. CASE r.ok
    <3> DEFINE d == [drv EXCEPT !.type = IF card.kind.hc THEN "hc" ELSE "sd", !.ocr = IF card.kind.hc THEN "sector" ELSE "byte"]
    <3>1. Next1(d)
      BY <2>0, <2>1, <2>2 DEF sd_send_op_cond
    <3>2. /\ d \in SdDrvT /\ d.pc = drv.pc /\ d.call = drv.call /\ d.lba = drv.lba /\ d.n = drv.n /\ d.last = drv.last
          /\ d.bad = drv.bad /\ d.asked = drv.asked /\ d.ret = drv.ret
          /\ IF card.kind.hc THEN d.type = "hc" /\ d.ocr = "sector" ELSE d.type = "sd" /\ d.ocr = "byte"
      BY <1>0 DEF SdDrvT
    <3> HIDE DEF d
    <3>3. /\ drv' \in SdDrvT /\ drv'.type = d.type /\ drv'.ocr = d.ocr /\ SdGoes(6)
      BY <2>0, <3>1, <3>2, SdGoesOn DEF Next1
    <3> QED
      BY <2>0, <2>2, <3>2, <3>3, SdFields DEF SdMatch
  <2>3. CASE ~r.ok
    <3>1. CASE Returns(0)
      BY <3>1, SdReturns
    <3>2. CASE drv.tries # 1 /\ drv' = [drv EXCEPT !.pc = 4, !.sent = FALSE, !.tries = @ - 1]
      <4>1. drv.tries - 1 \in 0 .. StateRetries + OpCondRetries /\ drv.tries - 1 > 0
        BY <2>0, <3>2, SdFields
      <4>2. drv' \in SdDrvT
        <5>1. drv' = [drv EXCEPT !.pc = 4, !.sent = FALSE, !.tries = drv.tries - 1]
          BY <1>0, <3>2 DEF SdDrvT
        <5>2. 4 \in 1 .. 18
          OBVIOUS
        <5> QED
          BY <1>0, <5>1, <5>2, <4>1 DEF SdDrvT
      <4>3. /\ drv'.call = drv.call /\ drv'.pc = 4 /\ drv'.ret = drv.ret /\ ~drv'.sent /\ drv'.i = drv.i /\ SdKeeps
            /\ drv'.tries = drv.tries - 1
        BY <1>0, <3>2 DEF SdDrvT, SdKeeps
      <4> QED
        BY <2>0, <2>3, <4>1, <4>2, <4>3 DEF SdGoes, SdXfer
    <3> QED
      BY <2>0, <2>1, <2>3, <3>1, <3>2 DEF sd_send_op_cond
  <2> QED
    BY <2>2, <2>3
<1>3. CASE Step = "CMD8"
  <2>0. drv.call = "enumerate" /\ drv.pc = 3 /\ SdLast(drv.call) = 18
    BY <1>0, <1>3, SdStep DEF SdLast
  <2>1. Goto(drv, 4) \/ Goto(drv, 6)
    BY <2>0, <1>3 DEF TakeResponse
  <2> QED
    BY <1>0, <2>0, <2>1, SdGoesOn
<1>4. CASE Step = "CMD3"
  <2>0. drv.call = "enumerate" /\ drv.pc = 7 /\ SdLast(drv.call) = 18
    BY <1>0, <1>4, SdStep DEF SdLast
  <2> DEFINE d == [drv EXCEPT !.rca = (r.cmd = "CMD3")]
  <2>1. Next1(d)
    BY <1>4 DEF TakeResponse
  <2>2. /\ d \in SdDrvT /\ d.pc = drv.pc /\ d.call = drv.call /\ d.lba = drv.lba /\ d.n = drv.n /\ d.last = drv.last
        /\ d.bad = drv.bad /\ d.asked = drv.asked /\ d.ret = drv.ret /\ d.type = drv.type /\ d.ocr = drv.ocr
    BY <1>0 DEF SdDrvT
  <2> HIDE DEF d
  <2> QED
    BY <2>0, <2>1, <2>2, SdGoesOn DEF Next1
<1>5. CASE Step \notin {"state", "ACMD41", "CMD8", "CMD3"}
  <2>1. Next1(drv)
    BY <1>5 DEF TakeResponse
  <2>2. ~(drv.call = "enumerate" /\ drv.pc = 5)
    BY <1>5, SdStep
  <2>3. drv.call = "enumerate" /\ drv.pc = 4 => drv.tries > 0
    BY DEF SdInCall
  <2> QED
    BY <1>0, <2>1, <2>2, <2>3, SdGoesOn DEF Next1
<1> QED
  BY <1>1, <1>2, <1>3, <1>4, <1>5

\* What follows a command that failed.
LEMMA SdFailed ==
    ASSUME SdTypes, SdInCall, Running, drv.sent, CommandFailed
    PROVE  /\ drv' \in SdDrvT
           /\ \/ SdGivesUp \/ SdAgain
              \/ drv'.wild /\ drv'.type = drv.type /\ drv'.ocr = drv.ocr /\ SdPolls /\ (SdEnds \/ SdGoes(drv.pc + 1))
<1>0. /\ drv \in SdDrvT /\ drv.pc \in 1 .. 18 /\ drv.pc \in 1 .. SdLast(drv.call) /\ SdLast(drv.call) \in 4 .. 18
      /\ drv.call \in {"enumerate", "read", "write", "erase"}
  BY SdAt
<1>1. CASE Step = "state"
  <2>0. SdPolls /\ ~(drv.call = "enumerate" /\ drv.pc \in {4, 5}) /\ drv.tries > 0
    BY <1>1, SdAt
  <2>1. StateFailed
    BY <1>1 DEF CommandFailed
  <2>2. CASE Goto([drv EXCEPT !.wild = TRUE], drv.pc + 1)
    <3> DEFINE d == [drv EXCEPT !.wild = TRUE]
    <3>2. /\ d \in SdDrvT /\ d.pc = drv.pc /\ d.call = drv.call /\ d.lba = drv.lba /\ d.n = drv.n /\ d.last = drv.last
          /\ d.bad = drv.bad /\ d.asked = drv.asked /\ d.ret = drv.ret /\ d.type = drv.type /\ d.ocr = drv.ocr /\ d.wild
      BY <1>0 DEF SdDrvT
    <3>3. Goto(d, drv.pc + 1)
      BY <2>2
    <3> HIDE DEF d
    <3> QED
      BY <1>0, <2>0, <3>2, <3>3, SdGoesOn
  <2>3. CASE drv' = [drv EXCEPT !.wild = TRUE, !.sent = FALSE, !.tries = StateRetries]
    <3>1. drv' = [drv EXCEPT !.sent = FALSE, !.tries = StateRetries, !.i = drv.i, !.wild = TRUE]
      BY <1>0, <2>3 DEF SdDrvT
    <3>2. StateRetries \in 0 .. StateRetries + OpCondRetries /\ StateRetries > 0 /\ drv.i \in Nat /\ drv.wild \in BOOLEAN
      BY SdFields
    <3> QED
      BY <2>0, <3>1, <3>2, SdTriesAgain
  <2>4. CASE drv.tries = 1 /\ Returns(0)
    BY <2>4, SdReturns
  <2>5. CASE drv.tries # 1 /\ drv' = [drv EXCEPT !.sent = FALSE, !.tries = @ - 1]
    <3>1. drv' = [drv EXCEPT !.sent = FALSE, !.tries = drv.tries - 1, !.i = drv.i, !.wild = drv.wild]
      BY <1>0, <2>5 DEF SdDrvT
    <3>2. drv.tries - 1 \in 0 .. StateRetries + OpCondRetries /\ drv.tries - 1 > 0 /\ drv.wild \in BOOLEAN /\ drv.i \in Nat
      BY <2>0, <2>5, SdFields
    <3> QED
      BY <2>0, <3>1, <3>2, SdTriesAgain
  <2> QED
    BY <2>1, <2>2, <2>3, <2>4, <2>5 DEF StateFailed
<1>2. CASE Step = "ACMD51" /\ drv.tries > 0 /\ drv' = [drv EXCEPT !.sent = FALSE, !.tries = @ - 1]
  <2>0. drv.call = "enumerate" /\ drv.pc = 13 /\ ~SdPolls
    BY <1>2, SdAt
  <2>1. drv' = [drv EXCEPT !.sent = FALSE, !.tries = drv.tries - 1, !.i = drv.i, !.wild = drv.wild]
    BY <1>0, <1>2 DEF SdDrvT
  <2>2. drv.tries - 1 \in 0 .. StateRetries + OpCondRetries /\ drv.wild \in BOOLEAN /\ drv.i \in Nat
    BY <1>2, SdFields
  <2> QED
    BY <2>0, <2>1, <2>2, SdTriesAgain
<1>3. CASE Returns(0)
  BY <1>3, SdReturns
<1> QED
  BY <1>1, <1>2, <1>3 DEF CommandFailed

\* The probe starts the enumeration.
LEMMA SdInits ==
    ASSUME SdInv, bm_sd_init
    PROVE  SdInv'
<1>0. SdTypes /\ SdInCall /\ SdEarly /\ SdKnown /\ SdData /\ SdAnnounced /\ SdFresh /\ SdTransfers /\ SdEnded /\ SdErasing /\ SdErrors
  BY DEF SdInv
<1>1. /\ drv.call = "off" /\ drv.pc = 1 /\ ~drv.sent /\ card' = card /\ media' = media /\ mem' = mem /\ faults' = faults
      /\ host' = HostReset /\ host'.cmd = "none" /\ host'.dat = "idle" /\ host'.buf = None /\ host'.open = FALSE
      /\ host'.int = {} /\ host'.err = FALSE /\ host' \in SdHostT
      /\ drv'.call = "enumerate" /\ drv'.pc = 1 /\ ~drv'.sent /\ SdKeeps /\ drv' \in SdDrvT
  <2>1. drv \in SdDrvT /\ drv.call = "off" /\ drv.pc = 1 /\ ~drv.sent /\ NBlocks \in Nat
    BY <1>0, SdFields DEF SdTypes, bm_sd_init, SdInCall, Running
  <2>2. drv'.call = "enumerate" /\ drv'.pc = 1 /\ ~drv'.sent /\ SdKeeps /\ drv' \in SdDrvT
    BY <2>1 DEF bm_sd_init, SdDrvT, SdKeeps
  <2>3. HostReset \in SdHostT
    <3>1. [cmd |-> "none", st |-> "idle", ready |-> FALSE, ok |-> FALSE] \in [cmd : SdCommands \cup {"none"}, st : {"idle", "ready", "ident", "stby", "tran", "data", "rcv", "prg"}, ready : BOOLEAN, ok : BOOLEAN]
      OBVIOUS
    <3>2. 0 \in 0 .. NBlocks /\ None \in Int /\ {} \in SUBSET {"cc", "rd", "wr", "xc"} /\ "none" \in SdCommands \cup {"none"} /\ 0 \in Int
      BY <2>1 DEF None
    <3> QED
      BY <3>1, <3>2 DEF HostReset, SdHostT
  <2> QED
    BY <2>1, <2>2, <2>3 DEF bm_sd_init, HostReset
<1>9. SdTypes'
  BY <1>0, <1>1 DEF SdTypes
<1>10. SdInCall'
  BY <1>0, <1>1, SdFields DEF SdInCall, Running, SdXfer, SdLast, SdPolls, SdKeeps
<1>11. SdEarly'
  BY <1>0, <1>1, SdFields DEF SdEarly, SdEarlyStep, SdMatch, SdInCall, Running, SdXfer, SdLast, SdPolls, SdKnown, SdData, SdKeeps
<1>12. SdKnown'
  BY <1>0, <1>1, SdFields DEF SdKnown, SdMatch, SdEarly, SdEarlyStep, SdInCall, Running, SdXfer, SdLast, SdPolls, SdKeeps
<1>13. SdData'
  BY <1>0, <1>1, SdFields DEF SdData, SdInCall, Running, SdXfer, SdLast, SdPolls, SdKeeps
<1>14. SdAnnounced'
  BY <1>0, <1>1, SdFields DEF SdAnnounced, SdExpects, SdXfer, SdInCall, Running, SdLast, SdPolls, SdFresh, SdKnown, SdMatch, SdData, SdKeeps
<1>15. SdFresh'
  BY <1>0, <1>1, SdFields DEF SdFresh, SdXfer, SdInCall, Running, SdLast, SdPolls, SdData, SdAnnounced, SdExpects, SdKeeps
<1>16. SdTransfers'
  BY <1>0, <1>1, SdFields DEF SdTransfers, SdXfer, SdPending, SdExpects, SdReading, SdWriting, SdRefused, SdDone, SdReadDone, SdWriteDone, SdMoved, SdBuffer, ReadArg, WriteArg, SdInCall, Running, SdLast, SdPolls, SdFresh, SdAnnounced, SdKnown, SdMatch, SdData, SdKeeps
<1>17. SdEnded'
  BY <1>0, <1>1, SdFields DEF SdEnded, SdReadDone, SdWriteDone, SdInCall, Running, SdXfer, SdLast, SdPolls, SdTransfers, SdPending, SdExpects, SdReading, SdWriting, SdRefused, SdDone, SdMoved, SdBuffer, ReadArg, WriteArg, SdKeeps
<1>18. SdErasing'
  BY <1>0, <1>1, SdFields DEF SdErasing, SdErStart, SdErEnd, SdInCall, Running, SdXfer, SdLast, SdPolls, SdKeeps
<1>19. SdErrors'
  BY <1>0, <1>1, SdFields DEF SdErrors, SdXfer, SdInCall, Running, SdLast, SdPolls, SdKeeps
<1> QED
  BY <1>9, <1>10, <1>11, <1>12, <1>13, <1>14, <1>15, <1>16, <1>17, <1>18, <1>19 DEF SdInv

\* A call of the block device.
LEMMA SdCall ==
    ASSUME SdInv, NEW call \in {"read", "write", "erase"}, NEW lba \in Blocks, NEW n \in 1 .. NBlocks, BlkCall(call, lba, n)
    PROVE  SdInv'
<1>0. SdTypes /\ SdInCall /\ SdEarly /\ SdKnown /\ SdData /\ SdAnnounced /\ SdFresh /\ SdTransfers /\ SdEnded /\ SdErasing /\ SdErrors
  BY DEF SdInv
<1>1. /\ drv.call = "idle" /\ host' = host /\ card' = card /\ media' = media /\ mem' = <<>> /\ faults' = faults
      /\ drv'.call = call /\ drv'.pc = 1 /\ ~drv'.sent /\ drv'.i = 0 /\ drv'.lba = lba /\ drv'.n = n /\ drv'.ret = None
      /\ drv'.last = call /\ drv'.bad = host.err /\ drv'.type = drv.type /\ drv'.ocr = drv.ocr
      /\ drv'.asked = (IF call = "read" THEN drv.asked ELSE drv.asked \cup (lba .. lba + n - 1))
      /\ lba \in Nat /\ n \in Nat /\ n > 0 /\ lba + n <= NBlocks /\ drv' \in SdDrvT
  <2>1. drv \in SdDrvT /\ drv.call = "idle" /\ drv.pc = 1 /\ ~drv.sent /\ drv.i = 0 /\ NBlocks \in Nat /\ host.err \in BOOLEAN
    BY <1>0, SdFields DEF SdTypes, BlkCall, SdInCall, Running
  <2>2. lba \in Nat /\ n \in 0 .. NBlocks /\ n > 0 /\ lba + n <= NBlocks /\ n \in Nat
    BY <2>1 DEF Blocks, BlkCall
  <2>3. drv.asked \cup (lba .. lba + n - 1) \in SUBSET Int /\ drv.calls + 1 \in Nat /\ None \in Int
    BY <2>1, <2>2 DEF SdDrvT, None
  <2>4. drv' \in SdDrvT
    <3> DEFINE asked == IF call = "read" THEN drv.asked ELSE drv.asked \cup (lba .. lba + n - 1)
    <3>1. drv' = [drv EXCEPT !.call = call, !.pc = 1, !.lba = lba, !.n = n, !.ret = None, !.calls = drv.calls + 1,
                          !.wild = FALSE, !.last = call, !.bad = host.err, !.asked = asked]
      BY <2>1 DEF BlkCall, SdDrvT
    <3>2. asked \in SUBSET Int
      BY <2>1, <2>3 DEF SdDrvT
    <3> HIDE DEF asked
    <3>3. call \in {"off", "idle", "dead", "enumerate", "read", "write", "erase"} /\ call \in {"none", "read", "write", "erase"} /\ 1 \in 1 .. 18
      OBVIOUS
    <3>4. drv.calls + 1 \in Nat /\ None \in Int /\ lba \in Nat /\ n \in 0 .. NBlocks /\ host.err \in BOOLEAN /\ drv \in SdDrvT
      BY <2>1, <2>2, <2>3
    <3> QED
      BY <3>1, <3>2, <3>3, <3>4 DEF SdDrvT
  <2>5. /\ drv'.call = call /\ drv'.pc = 1 /\ ~drv'.sent /\ drv'.i = 0 /\ drv'.lba = lba /\ drv'.n = n /\ drv'.ret = None
        /\ drv'.last = call /\ drv'.bad = host.err /\ drv'.type = drv.type /\ drv'.ocr = drv.ocr
        /\ drv'.asked = (IF call = "read" THEN drv.asked ELSE drv.asked \cup (lba .. lba + n - 1))
    BY <2>1 DEF BlkCall, SdDrvT
  <2> QED
    BY <2>1, <2>2, <2>4, <2>5 DEF BlkCall
<1>9. SdTypes'
  BY <1>0, <1>1 DEF SdTypes
<1>10. SdInCall'
  <2>1. drv'.last \in {"write", "erase"} => \A b \in drv'.lba .. drv'.lba + drv'.n - 1 : b \in drv'.asked
    BY <1>1
  <2>2. drv'.call \in {"read", "write", "erase"} /\ drv'.pc = 1 /\ drv'.n > 0 /\ drv'.lba + drv'.n <= NBlocks /\ drv'.last = drv'.call /\ ~drv'.sent
    BY <1>1
  <2> QED
    BY <2>1, <2>2 DEF SdInCall, Running, SdXfer, SdLast, SdPolls
<1>11. SdEarly'
  BY <1>0, <1>1, SdFields DEF SdEarly, SdEarlyStep, SdMatch, SdInCall, Running, SdXfer, SdLast, SdPolls, SdKnown, SdData, SdKeeps
<1>12. SdKnown'
  BY <1>0, <1>1, SdFields DEF SdKnown, SdMatch, SdEarly, SdEarlyStep, SdInCall, Running, SdXfer, SdLast, SdPolls, SdKeeps
<1>13. SdData'
  BY <1>0, <1>1, SdFields DEF SdData, SdInCall, Running, SdXfer, SdLast, SdPolls, SdKeeps
<1>14. SdAnnounced'
  BY <1>0, <1>1, SdFields DEF SdAnnounced, SdExpects, SdXfer, SdInCall, Running, SdLast, SdPolls, SdFresh, SdKnown, SdMatch, SdData, SdKeeps
<1>15. SdFresh'
  BY <1>0, <1>1, SdFields DEF SdFresh, SdXfer, SdInCall, Running, SdLast, SdPolls, SdData, SdAnnounced, SdExpects, SdKeeps
<1>16. SdTransfers'
  BY <1>0, <1>1, SdFields DEF SdTransfers, SdXfer, SdPending, SdExpects, SdReading, SdWriting, SdRefused, SdDone, SdReadDone, SdWriteDone, SdMoved, SdBuffer, ReadArg, WriteArg, SdInCall, Running, SdLast, SdPolls, SdFresh, SdAnnounced, SdKnown, SdMatch, SdData, SdKeeps
<1>17. SdEnded'
  BY <1>1 DEF SdEnded, None
<1>18. SdErasing'
  BY <1>1 DEF SdErasing
<1>19. SdErrors'
  BY <1>0, <1>1, SdFields DEF SdErrors, SdXfer, SdInCall, Running, SdLast, SdPolls, SdKeeps
<1> QED
  BY <1>9, <1>10, <1>11, <1>12, <1>13, <1>14, <1>15, <1>16, <1>17, <1>18, <1>19 DEF SdInv

\* bm_sd_prepare.
LEMMA SdPrepares ==
    ASSUME SdInv, bm_sd_prepare
    PROVE  SdInv'
<1>0. SdTypes /\ SdInCall /\ SdEarly /\ SdKnown /\ SdData /\ SdAnnounced /\ SdFresh /\ SdTransfers /\ SdEnded /\ SdErasing /\ SdErrors
  BY DEF SdInv
<1>1. /\ ((drv.call = "enumerate" /\ drv.pc = 11) \/ (SdXfer /\ drv.pc = 1))
      /\ host'.cmd = host.cmd /\ host'.arg = host.arg /\ host'.dat = host.dat /\ host'.count = (IF drv.call = "enumerate" THEN 1 ELSE drv.n) /\ host'.left = host.left /\ host'.buf = host.buf /\ host'.open = host.open /\ host'.int = host.int /\ host'.err = host.err /\ host'.resp = host.resp
      /\ card' = card /\ media' = media /\ mem' = mem /\ faults' = faults /\ host' \in SdHostT /\ drv' \in SdDrvT
      /\ SdGoes(drv.pc + 1)
      /\ drv'.type = drv.type /\ drv'.ocr = drv.ocr
  <2>0. /\ ((drv.call = "enumerate" /\ drv.pc = 11) \/ (SdXfer /\ drv.pc = 1)) /\ drv \in SdDrvT /\ host \in SdHostT /\ NBlocks \in Nat /\ drv.n \in 0 .. NBlocks /\ Running
        /\ drv.pc \in 1 .. SdLast(drv.call) /\ SdLast(drv.call) \in 4 .. 18 /\ drv.pc \in 1 .. 18 /\ drv.call \in {"enumerate", "read", "write", "erase"}
    <3>1. Running
      BY DEF bm_sd_prepare
    <3>2. (drv.call = "enumerate" /\ drv.pc = 11) \/ (SdXfer /\ drv.pc = 1)
      BY <1>0, <3>1, SdWhere DEF bm_sd_prepare
    <3> QED
      BY <1>0, <3>1, <3>2, SdFields, SdAt DEF SdTypes
  <2>2. host' \in SdHostT /\ (host'.cmd = host.cmd /\ host'.arg = host.arg /\ host'.dat = host.dat /\ host'.count = (IF drv.call = "enumerate" THEN 1 ELSE drv.n) /\ host'.left = host.left /\ host'.buf = host.buf /\ host'.open = host.open /\ host'.int = host.int /\ host'.err = host.err /\ host'.resp = host.resp)
    <3>1. InitClock \in {"off", "ident", "tran", "fast"} /\ TranClock \in {"off", "ident", "tran", "fast"} /\ None \in Int
      BY DEF InitClock, TranClock, None
    <3>2. drv.call # "enumerate" \/ 1 \in 0 .. NBlocks
      BY SdAssumption
    <3> QED
      BY <2>0, <3>1, <3>2 DEF bm_sd_prepare, SdHostT
  <2>3. drv' \in SdDrvT /\ (SdGoes(drv.pc + 1)) /\ drv'.type = drv.type /\ drv'.ocr = drv.ocr
    <3>1. Goto(drv, drv.pc + 1)
      BY <2>0 DEF Next1, bm_sd_prepare
    <3>2. drv.pc < SdLast(drv.call) /\ ~(drv.call = "enumerate" /\ drv.pc = 4)
      BY <2>0 DEF SdLast, SdXfer
    <3> QED
      BY <1>0, <2>0, <3>1, <3>2, SdGoesOn
  <2> QED
    BY <2>0, <2>2, <2>3 DEF bm_sd_prepare
<1>9. SdTypes'
  BY <1>0, <1>1 DEF SdTypes
<1>10. SdInCall'
  <2>1. CASE drv.call = "enumerate" /\ drv.pc = 11
    BY <1>0, <1>1, <2>1, SdFields DEF SdInCall, Running, SdXfer, SdLast, SdPolls, SdKeeps, SdEnds, SdGoes
  <2>2. CASE drv.call = "read" /\ drv.pc = 1
    BY <1>0, <1>1, <2>2, SdFields DEF SdInCall, Running, SdXfer, SdLast, SdPolls, SdKeeps, SdEnds, SdGoes
  <2>3. CASE drv.call = "write" /\ drv.pc = 1
    BY <1>0, <1>1, <2>3, SdFields DEF SdInCall, Running, SdXfer, SdLast, SdPolls, SdKeeps, SdEnds, SdGoes
  <2> QED
    BY <1>1, <2>1, <2>2, <2>3 DEF SdXfer
<1>11. SdEarly'
  <2>1. CASE drv.call = "enumerate" /\ drv.pc = 11
    BY <1>0, <1>1, <2>1, SdFields DEF SdEarly, SdEarlyStep, SdMatch, SdInCall, Running, SdXfer, SdLast, SdPolls, SdKnown, SdData, SdKeeps, SdEnds, SdGoes
  <2>2. CASE drv.call = "read" /\ drv.pc = 1
    BY <1>0, <1>1, <2>2, SdFields DEF SdEarly, SdEarlyStep, SdMatch, SdInCall, Running, SdXfer, SdLast, SdPolls, SdKnown, SdData, SdKeeps, SdEnds, SdGoes
  <2>3. CASE drv.call = "write" /\ drv.pc = 1
    BY <1>0, <1>1, <2>3, SdFields DEF SdEarly, SdEarlyStep, SdMatch, SdInCall, Running, SdXfer, SdLast, SdPolls, SdKnown, SdData, SdKeeps, SdEnds, SdGoes
  <2> QED
    BY <1>1, <2>1, <2>2, <2>3 DEF SdXfer
<1>12. SdKnown'
  <2>1. CASE drv.call = "enumerate" /\ drv.pc = 11
    BY <1>0, <1>1, <2>1, SdFields DEF SdKnown, SdMatch, SdEarly, SdEarlyStep, SdInCall, Running, SdXfer, SdLast, SdPolls, SdKeeps, SdEnds, SdGoes
  <2>2. CASE drv.call = "read" /\ drv.pc = 1
    BY <1>0, <1>1, <2>2, SdFields DEF SdKnown, SdMatch, SdEarly, SdEarlyStep, SdInCall, Running, SdXfer, SdLast, SdPolls, SdKeeps, SdEnds, SdGoes
  <2>3. CASE drv.call = "write" /\ drv.pc = 1
    BY <1>0, <1>1, <2>3, SdFields DEF SdKnown, SdMatch, SdEarly, SdEarlyStep, SdInCall, Running, SdXfer, SdLast, SdPolls, SdKeeps, SdEnds, SdGoes
  <2> QED
    BY <1>1, <2>1, <2>2, <2>3 DEF SdXfer
<1>13. SdData'
  <2>1. CASE drv.call = "enumerate" /\ drv.pc = 11
    BY <1>0, <1>1, <2>1, SdFields DEF SdData, SdInCall, Running, SdXfer, SdLast, SdPolls, SdKeeps, SdEnds, SdGoes
  <2>2. CASE drv.call = "read" /\ drv.pc = 1
    BY <1>0, <1>1, <2>2, SdFields DEF SdData, SdInCall, Running, SdXfer, SdLast, SdPolls, SdKeeps, SdEnds, SdGoes
  <2>3. CASE drv.call = "write" /\ drv.pc = 1
    BY <1>0, <1>1, <2>3, SdFields DEF SdData, SdInCall, Running, SdXfer, SdLast, SdPolls, SdKeeps, SdEnds, SdGoes
  <2> QED
    BY <1>1, <2>1, <2>2, <2>3 DEF SdXfer
<1>14. SdAnnounced'
  <2>1. CASE drv.call = "enumerate" /\ drv.pc = 11
    BY <1>0, <1>1, <2>1, SdFields DEF SdAnnounced, SdExpects, SdXfer, SdInCall, Running, SdLast, SdPolls, SdFresh, SdKnown, SdMatch, SdData, SdKeeps, SdEnds, SdGoes
  <2>2. CASE drv.call = "read" /\ drv.pc = 1
    BY <1>1, <2>2 DEF SdAnnounced, SdXfer, SdLast, SdKeeps, SdEnds, SdGoes
  <2>3. CASE drv.call = "write" /\ drv.pc = 1
    BY <1>1, <2>3 DEF SdAnnounced, SdXfer, SdLast, SdKeeps, SdEnds, SdGoes
  <2> QED
    BY <1>1, <2>1, <2>2, <2>3 DEF SdXfer
<1>15. SdFresh'
  <2>1. CASE drv.call = "enumerate" /\ drv.pc = 11
    BY <1>0, <1>1, <2>1, SdFields DEF SdFresh, SdXfer, SdInCall, Running, SdLast, SdPolls, SdData, SdAnnounced, SdExpects, SdKeeps, SdEnds, SdGoes
  <2>2. CASE drv.call = "read" /\ drv.pc = 1
    BY <1>0, <1>1, <2>2, SdFields DEF SdFresh, SdXfer, SdInCall, Running, SdLast, SdPolls, SdData, SdAnnounced, SdExpects, SdKeeps, SdEnds, SdGoes
  <2>3. CASE drv.call = "write" /\ drv.pc = 1
    BY <1>0, <1>1, <2>3, SdFields DEF SdFresh, SdXfer, SdInCall, Running, SdLast, SdPolls, SdData, SdAnnounced, SdExpects, SdKeeps, SdEnds, SdGoes
  <2> QED
    BY <1>1, <2>1, <2>2, <2>3 DEF SdXfer
<1>16. SdTransfers'
  <2>1. CASE drv.call = "enumerate" /\ drv.pc = 11
    BY <1>0, <1>1, <2>1, SdFields DEF SdTransfers, SdXfer, SdPending, SdExpects, SdReading, SdWriting, SdRefused, SdDone, SdReadDone, SdWriteDone, SdMoved, SdBuffer, ReadArg, WriteArg, SdInCall, Running, SdLast, SdPolls, SdFresh, SdAnnounced, SdKnown, SdMatch, SdData, SdKeeps, SdEnds, SdGoes
  <2>2. CASE drv.call = "read" /\ drv.pc = 1
    BY <1>0, <1>1, <2>2, SdFields DEF SdTransfers, SdXfer, SdPending, SdExpects, SdReading, SdWriting, SdRefused, SdDone, SdReadDone, SdWriteDone, SdMoved, SdBuffer, ReadArg, WriteArg, SdInCall, Running, SdLast, SdPolls, SdFresh, SdAnnounced, SdKnown, SdMatch, SdData, SdKeeps, SdEnds, SdGoes
  <2>3. CASE drv.call = "write" /\ drv.pc = 1
    BY <1>0, <1>1, <2>3, SdFields DEF SdTransfers, SdXfer, SdPending, SdExpects, SdReading, SdWriting, SdRefused, SdDone, SdReadDone, SdWriteDone, SdMoved, SdBuffer, ReadArg, WriteArg, SdInCall, Running, SdLast, SdPolls, SdFresh, SdAnnounced, SdKnown, SdMatch, SdData, SdKeeps, SdEnds, SdGoes
  <2> QED
    BY <1>1, <2>1, <2>2, <2>3 DEF SdXfer
<1>17. SdEnded'
  <2>1. CASE drv.call = "enumerate" /\ drv.pc = 11
    BY <1>0, <1>1, <2>1, SdFields DEF SdEnded, SdReadDone, SdWriteDone, SdInCall, Running, SdXfer, SdLast, SdPolls, SdTransfers, SdPending, SdExpects, SdReading, SdWriting, SdRefused, SdDone, SdMoved, SdBuffer, ReadArg, WriteArg, SdKeeps, SdEnds, SdGoes
  <2>2. CASE drv.call = "read" /\ drv.pc = 1
    BY <1>0, <1>1, <2>2, SdFields DEF SdEnded, SdReadDone, SdWriteDone, SdInCall, Running, SdXfer, SdLast, SdPolls, SdTransfers, SdPending, SdExpects, SdReading, SdWriting, SdRefused, SdDone, SdMoved, SdBuffer, ReadArg, WriteArg, SdKeeps, SdEnds, SdGoes
  <2>3. CASE drv.call = "write" /\ drv.pc = 1
    BY <1>0, <1>1, <2>3, SdFields DEF SdEnded, SdReadDone, SdWriteDone, SdInCall, Running, SdXfer, SdLast, SdPolls, SdTransfers, SdPending, SdExpects, SdReading, SdWriting, SdRefused, SdDone, SdMoved, SdBuffer, ReadArg, WriteArg, SdKeeps, SdEnds, SdGoes
  <2> QED
    BY <1>1, <2>1, <2>2, <2>3 DEF SdXfer
<1>18. SdErasing'
  <2>1. CASE drv.call = "enumerate" /\ drv.pc = 11
    BY <1>0, <1>1, <2>1, SdFields DEF SdErasing, SdErStart, SdErEnd, SdInCall, Running, SdXfer, SdLast, SdPolls, SdKeeps, SdEnds, SdGoes
  <2>2. CASE drv.call = "read" /\ drv.pc = 1
    BY <1>0, <1>1, <2>2, SdFields DEF SdErasing, SdErStart, SdErEnd, SdInCall, Running, SdXfer, SdLast, SdPolls, SdKeeps, SdEnds, SdGoes
  <2>3. CASE drv.call = "write" /\ drv.pc = 1
    BY <1>0, <1>1, <2>3, SdFields DEF SdErasing, SdErStart, SdErEnd, SdInCall, Running, SdXfer, SdLast, SdPolls, SdKeeps, SdEnds, SdGoes
  <2> QED
    BY <1>1, <2>1, <2>2, <2>3 DEF SdXfer
<1>19. SdErrors'
  <2>1. CASE drv.call = "enumerate" /\ drv.pc = 11
    BY <1>0, <1>1, <2>1, SdFields DEF SdErrors, SdXfer, SdInCall, Running, SdLast, SdPolls, SdKeeps, SdEnds, SdGoes
  <2>2. CASE drv.call = "read" /\ drv.pc = 1
    BY <1>0, <1>1, <2>2, SdFields DEF SdErrors, SdXfer, SdInCall, Running, SdLast, SdPolls, SdKeeps, SdEnds, SdGoes
  <2>3. CASE drv.call = "write" /\ drv.pc = 1
    BY <1>0, <1>1, <2>3, SdFields DEF SdErrors, SdXfer, SdInCall, Running, SdLast, SdPolls, SdKeeps, SdEnds, SdGoes
  <2> QED
    BY <1>1, <2>1, <2>2, <2>3 DEF SdXfer
<1> QED
  BY <1>9, <1>10, <1>11, <1>12, <1>13, <1>14, <1>15, <1>16, <1>17, <1>18, <1>19 DEF SdInv

\* bm_sd_hw_init.
LEMMA SdInitsClock ==
    ASSUME SdInv, bm_sd_hw_init
    PROVE  SdInv'
<1>0. SdTypes /\ SdInCall /\ SdEarly /\ SdKnown /\ SdData /\ SdAnnounced /\ SdFresh /\ SdTransfers /\ SdEnded /\ SdErasing /\ SdErrors
  BY DEF SdInv
<1>1. /\ (drv.call = "enumerate" /\ drv.pc = 1)
      /\ host'.cmd = "none" /\ host'.arg = host.arg /\ host'.dat = "idle" /\ host'.count = host.count /\ host'.left = host.left /\ host'.buf = None /\ host'.open = host.open /\ host'.int = host.int /\ host'.err = host.err /\ host'.resp = host.resp
      /\ card' = card /\ media' = media /\ mem' = mem /\ faults' = faults /\ host' \in SdHostT /\ drv' \in SdDrvT
      /\ SdGoes(drv.pc + 1)
      /\ drv'.type = drv.type /\ drv'.ocr = drv.ocr
  <2>0. /\ (drv.call = "enumerate" /\ drv.pc = 1) /\ drv \in SdDrvT /\ host \in SdHostT /\ NBlocks \in Nat /\ drv.n \in 0 .. NBlocks /\ Running
        /\ drv.pc \in 1 .. SdLast(drv.call) /\ SdLast(drv.call) \in 4 .. 18 /\ drv.pc \in 1 .. 18 /\ drv.call \in {"enumerate", "read", "write", "erase"}
    <3>1. Running
      BY DEF bm_sd_hw_init
    <3>2. drv.call = "enumerate" /\ drv.pc = 1
      BY <1>0, <3>1, SdWhere DEF bm_sd_hw_init
    <3> QED
      BY <1>0, <3>1, <3>2, SdFields, SdAt DEF SdTypes
  <2>2. host' \in SdHostT /\ (host'.cmd = "none" /\ host'.arg = host.arg /\ host'.dat = "idle" /\ host'.count = host.count /\ host'.left = host.left /\ host'.buf = None /\ host'.open = host.open /\ host'.int = host.int /\ host'.err = host.err /\ host'.resp = host.resp)
    <3>1. InitClock \in {"off", "ident", "tran", "fast"} /\ TranClock \in {"off", "ident", "tran", "fast"} /\ None \in Int
      BY DEF InitClock, TranClock, None
    <3>2. drv.call # "enumerate" \/ 1 \in 0 .. NBlocks
      BY SdAssumption
    <3> QED
      BY <2>0, <3>1, <3>2 DEF bm_sd_hw_init, SdHostT
  <2>3. drv' \in SdDrvT /\ (SdGoes(drv.pc + 1)) /\ drv'.type = drv.type /\ drv'.ocr = drv.ocr
    <3>1. Goto(drv, drv.pc + 1)
      BY <2>0 DEF Next1, bm_sd_hw_init
    <3>2. drv.pc < SdLast(drv.call) /\ ~(drv.call = "enumerate" /\ drv.pc = 4)
      BY <2>0 DEF SdLast, SdXfer
    <3> QED
      BY <1>0, <2>0, <3>1, <3>2, SdGoesOn
  <2> QED
    BY <2>0, <2>2, <2>3 DEF bm_sd_hw_init
<1>9. SdTypes'
  BY <1>0, <1>1 DEF SdTypes
<1>10. SdInCall'
  BY <1>0, <1>1, SdFields DEF SdInCall, Running, SdXfer, SdLast, SdPolls, SdKeeps, SdEnds, SdGoes
<1>11. SdEarly'
  BY <1>0, <1>1, SdFields DEF SdEarly, SdEarlyStep, SdMatch, SdInCall, Running, SdXfer, SdLast, SdPolls, SdKnown, SdData, SdKeeps, SdEnds, SdGoes
<1>12. SdKnown'
  BY <1>0, <1>1, SdFields DEF SdKnown, SdMatch, SdEarly, SdEarlyStep, SdInCall, Running, SdXfer, SdLast, SdPolls, SdKeeps, SdEnds, SdGoes
<1>13. SdData'
  BY <1>0, <1>1, SdFields DEF SdData, SdInCall, Running, SdXfer, SdLast, SdPolls, SdEarly, SdEarlyStep, SdMatch, SdKeeps, SdEnds, SdGoes
<1>14. SdAnnounced'
  BY <1>0, <1>1, SdFields DEF SdAnnounced, SdExpects, SdXfer, SdInCall, Running, SdLast, SdPolls, SdFresh, SdKnown, SdMatch, SdData, SdKeeps, SdEnds, SdGoes
<1>15. SdFresh'
  BY <1>0, <1>1, SdFields DEF SdFresh, SdXfer, SdInCall, Running, SdLast, SdPolls, SdData, SdAnnounced, SdExpects, SdKeeps, SdEnds, SdGoes
<1>16. SdTransfers'
  BY <1>0, <1>1, SdFields DEF SdTransfers, SdXfer, SdPending, SdExpects, SdReading, SdWriting, SdRefused, SdDone, SdReadDone, SdWriteDone, SdMoved, SdBuffer, ReadArg, WriteArg, SdInCall, Running, SdLast, SdPolls, SdFresh, SdAnnounced, SdKnown, SdMatch, SdData, SdKeeps, SdEnds, SdGoes
<1>17. SdEnded'
  BY <1>0, <1>1, SdFields DEF SdEnded, SdReadDone, SdWriteDone, SdInCall, Running, SdXfer, SdLast, SdPolls, SdTransfers, SdPending, SdExpects, SdReading, SdWriting, SdRefused, SdDone, SdMoved, SdBuffer, ReadArg, WriteArg, SdKeeps, SdEnds, SdGoes
<1>18. SdErasing'
  BY <1>0, <1>1, SdFields DEF SdErasing, SdErStart, SdErEnd, SdInCall, Running, SdXfer, SdLast, SdPolls, SdKeeps, SdEnds, SdGoes
<1>19. SdErrors'
  BY <1>0, <1>1, SdFields DEF SdErrors, SdXfer, SdInCall, Running, SdLast, SdPolls, SdKeeps, SdEnds, SdGoes
<1> QED
  BY <1>9, <1>10, <1>11, <1>12, <1>13, <1>14, <1>15, <1>16, <1>17, <1>18, <1>19 DEF SdInv

\* bm_sd_set_ios.
LEMMA SdSetsIos ==
    ASSUME SdInv, bm_sd_set_ios
    PROVE  SdInv'
<1>0. SdTypes /\ SdInCall /\ SdEarly /\ SdKnown /\ SdData /\ SdAnnounced /\ SdFresh /\ SdTransfers /\ SdEnded /\ SdErasing /\ SdErrors
  BY DEF SdInv
<1>1. /\ (drv.call = "enumerate" /\ drv.pc = 18)
      /\ host'.cmd = host.cmd /\ host'.arg = host.arg /\ host'.dat = host.dat /\ host'.count = host.count /\ host'.left = host.left /\ host'.buf = host.buf /\ host'.open = host.open /\ host'.int = host.int /\ host'.err = host.err /\ host'.resp = host.resp
      /\ card' = card /\ media' = media /\ mem' = mem /\ faults' = faults /\ host' \in SdHostT /\ drv' \in SdDrvT
      /\ SdEnds
      /\ drv'.type = drv.type /\ drv'.ocr = drv.ocr
  <2>0. /\ (drv.call = "enumerate" /\ drv.pc = 18) /\ drv \in SdDrvT /\ host \in SdHostT /\ NBlocks \in Nat /\ drv.n \in 0 .. NBlocks /\ Running
        /\ drv.pc \in 1 .. SdLast(drv.call) /\ SdLast(drv.call) \in 4 .. 18 /\ drv.pc \in 1 .. 18 /\ drv.call \in {"enumerate", "read", "write", "erase"}
    <3>1. Running
      BY DEF bm_sd_set_ios
    <3>2. drv.call = "enumerate" /\ drv.pc = 18
      BY <1>0, <3>1, SdWhere DEF bm_sd_set_ios
    <3> QED
      BY <1>0, <3>1, <3>2, SdFields, SdAt DEF SdTypes
  <2>2. host' \in SdHostT /\ (host'.cmd = host.cmd /\ host'.arg = host.arg /\ host'.dat = host.dat /\ host'.count = host.count /\ host'.left = host.left /\ host'.buf = host.buf /\ host'.open = host.open /\ host'.int = host.int /\ host'.err = host.err /\ host'.resp = host.resp)
    <3>1. InitClock \in {"off", "ident", "tran", "fast"} /\ TranClock \in {"off", "ident", "tran", "fast"} /\ None \in Int
      BY DEF InitClock, TranClock, None
    <3>2. drv.call # "enumerate" \/ 1 \in 0 .. NBlocks
      BY SdAssumption
    <3> QED
      BY <2>0, <3>1, <3>2 DEF bm_sd_set_ios, SdHostT
  <2>3. drv' \in SdDrvT /\ (SdEnds) /\ drv'.type = drv.type /\ drv'.ocr = drv.ocr
    <3>1. Goto(drv, drv.pc + 1)
      BY <2>0 DEF Next1, bm_sd_set_ios
    <3>2. drv.pc = SdLast(drv.call)
      BY <2>0 DEF SdLast, SdXfer
    <3> QED
      BY <1>0, <2>0, <3>1, <3>2, SdGoesOn
  <2> QED
    BY <2>0, <2>2, <2>3 DEF bm_sd_set_ios
<1>9. SdTypes'
  BY <1>0, <1>1 DEF SdTypes
<1>10. SdInCall'
  BY <1>0, <1>1, SdFields DEF SdInCall, Running, SdXfer, SdLast, SdPolls, SdKeeps, SdEnds, SdGoes
<1>11. SdEarly'
  BY <1>0, <1>1, SdFields DEF SdEarly, SdEarlyStep, SdMatch, SdInCall, Running, SdXfer, SdLast, SdPolls, SdKnown, SdData, SdKeeps, SdEnds, SdGoes
<1>12. SdKnown'
  BY <1>0, <1>1, SdFields DEF SdKnown, SdMatch, SdEarly, SdEarlyStep, SdInCall, Running, SdXfer, SdLast, SdPolls, SdKeeps, SdEnds, SdGoes
<1>13. SdData'
  BY <1>0, <1>1, SdFields DEF SdData, SdInCall, Running, SdXfer, SdLast, SdPolls, SdKeeps, SdEnds, SdGoes
<1>14. SdAnnounced'
  BY <1>0, <1>1, SdFields DEF SdAnnounced, SdExpects, SdXfer, SdInCall, Running, SdLast, SdPolls, SdFresh, SdKnown, SdMatch, SdData, SdKeeps, SdEnds, SdGoes
<1>15. SdFresh'
  BY <1>0, <1>1, SdFields DEF SdFresh, SdXfer, SdInCall, Running, SdLast, SdPolls, SdData, SdAnnounced, SdExpects, SdKeeps, SdEnds, SdGoes
<1>16. SdTransfers'
  BY <1>0, <1>1, SdFields DEF SdTransfers, SdXfer, SdPending, SdExpects, SdReading, SdWriting, SdRefused, SdDone, SdReadDone, SdWriteDone, SdMoved, SdBuffer, ReadArg, WriteArg, SdInCall, Running, SdLast, SdPolls, SdFresh, SdAnnounced, SdKnown, SdMatch, SdData, SdKeeps, SdEnds, SdGoes
<1>17. SdEnded'
  BY <1>0, <1>1, SdFields DEF SdEnded, SdReadDone, SdWriteDone, SdInCall, Running, SdXfer, SdLast, SdPolls, SdTransfers, SdPending, SdExpects, SdReading, SdWriting, SdRefused, SdDone, SdMoved, SdBuffer, ReadArg, WriteArg, SdKeeps, SdEnds, SdGoes
<1>18. SdErasing'
  BY <1>0, <1>1, SdFields DEF SdErasing, SdErStart, SdErEnd, SdInCall, Running, SdXfer, SdLast, SdPolls, SdKeeps, SdEnds, SdGoes
<1>19. SdErrors'
  BY <1>0, <1>1, SdFields DEF SdErrors, SdXfer, SdInCall, Running, SdLast, SdPolls, SdKeeps, SdEnds, SdGoes
<1> QED
  BY <1>9, <1>10, <1>11, <1>12, <1>13, <1>14, <1>15, <1>16, <1>17, <1>18, <1>19 DEF SdInv

\* bm_sd_send_cmd.
LEMMA SdSends ==
    ASSUME SdInv, NEW c \in SdCommands, SendCommand(c)
    PROVE  SdInv'
<1>0. SdTypes /\ SdInCall /\ SdEarly /\ SdKnown /\ SdData /\ SdAnnounced /\ SdFresh /\ SdTransfers /\ SdEnded /\ SdErasing /\ SdErrors
  BY DEF SdInv
<1>1. /\ host.cmd = "none" /\ c # "none" /\ ~drv.sent /\ Running
      /\ c \in {"CMD0", "ACMD51", "CMD18", "CMD25"} \/ host.dat = "idle"
      /\ drv.call = "enumerate" => (drv.pc <= 6 => c = SdEarlyStep) /\ drv.pc \notin {1, 11, 14, 18} /\ c \notin {"CMD38", "CMD18", "CMD25"} /\ (c = "CMD0" => drv.pc = 2)
      /\ SdXfer => \/ drv.pc = 2 /\ c = "CMD23" /\ host'.arg = drv.n
                   \/ drv.pc = 3 /\ drv.call = "read" /\ c = "CMD18" /\ host'.arg = ReadArg
                   \/ drv.pc = 3 /\ drv.call = "write" /\ c = "CMD25" /\ host'.arg = WriteArg
                   \/ drv.pc = 5 /\ c = "CMD13"
      /\ drv.call = "erase" => \/ drv.pc = 1 /\ c = "CMD32" /\ host'.arg = drv.lba
                               \/ drv.pc = 2 /\ c = "CMD33" /\ host'.arg = drv.lba + drv.n - 1
                               \/ drv.pc = 3 /\ c = "CMD38"
                               \/ drv.pc = 4 /\ c = "CMD13"
      /\ host'.cmd = c /\ host'.dat = host.dat /\ host'.count = host.count /\ host'.left = host.left /\ host'.buf = host.buf
      /\ host'.open = host.open /\ host'.int = host.int /\ host'.err = host.err /\ host'.resp = host.resp /\ host' \in SdHostT
      /\ drv' \in SdDrvT /\ drv'.sent /\ drv'.call = drv.call /\ drv'.pc = drv.pc /\ drv'.i = drv.i /\ drv'.tries = drv.tries
      /\ SdKeeps /\ drv'.type = drv.type /\ drv'.ocr = drv.ocr /\ drv'.wild = drv.wild /\ drv'.ret = drv.ret
      /\ card' = card /\ media' = media /\ mem' = mem /\ faults' = faults
  <2>0. Running /\ ~drv.sent /\ host.cmd = "none" /\ (IF Step = "state" THEN c = "CMD13" ELSE c = Step) /\ drv \in SdDrvT /\ host \in SdHostT
        /\ (c \in {"CMD0", "ACMD51", "CMD18", "CMD25"} \/ host.dat = "idle")
    BY <1>0 DEF SendCommand, Sends, SdTypes, WithData
  <2>1. drv.pc \in 1 .. 18 /\ drv.pc \in 1 .. SdLast(drv.call) /\ drv.call \in {"enumerate", "read", "write", "erase"} /\ c # "none"
    BY <1>0, <2>0, SdAt DEF SdCommands
  <2>2. c \notin {"init", "ios", "prepare", "read", "write", "state"}
    BY DEF SdCommands
  <2>3. ASSUME drv.call = "enumerate" PROVE (drv.pc <= 6 => c = SdEarlyStep) /\ drv.pc \notin {1, 11, 14, 18} /\ c \notin {"CMD38", "CMD18", "CMD25"} /\ (c = "CMD0" => drv.pc = 2)
    BY <1>0, <2>0, <2>1, <2>2, <2>3, SdStep DEF SdEarlyStep
  <2>4. SdXfer => \/ drv.pc = 2 /\ c = "CMD23"
                  \/ drv.pc = 3 /\ drv.call = "read" /\ c = "CMD18"
                  \/ drv.pc = 3 /\ drv.call = "write" /\ c = "CMD25"
                  \/ drv.pc = 5 /\ c = "CMD13"
    BY <1>0, <2>0, <2>1, <2>2, SdStep DEF SdXfer, SdLast
  <2>5. drv.call = "erase" => \/ drv.pc = 1 /\ c = "CMD32"
                              \/ drv.pc = 2 /\ c = "CMD33"
                              \/ drv.pc = 3 /\ c = "CMD38"
                              \/ drv.pc = 4 /\ c = "CMD13"
    BY <1>0, <2>0, <2>1, <2>2, SdStep DEF SdLast
  <2>6. Argument(c) \in Int /\ (c = "CMD23" => Argument(c) = drv.n) /\ (c = "CMD18" => Argument(c) = ReadArg) /\ (c = "CMD25" => Argument(c) = WriteArg)
        /\ (c = "CMD32" => Argument(c) = drv.lba) /\ (c = "CMD33" => Argument(c) = drv.lba + drv.n - 1)
    <3>1. drv.lba \in Int /\ drv.n \in Int
      BY <1>0, SdFields
    <3>2. ReadArg \in Int /\ WriteArg \in Int
      BY <3>1 DEF ReadArg, WriteArg, MMC_BLOCK_SIZE
    <3>3. drv.lba + drv.n - 1 \in Int
      BY <3>1
    <3> QED
      BY <3>1, <3>2, <3>3 DEF Argument
  <2>7. host'.cmd = c /\ host'.dat = host.dat /\ host'.count = host.count /\ host'.left = host.left /\ host'.buf = host.buf
        /\ host'.open = host.open /\ host'.int = host.int /\ host'.err = host.err /\ host'.resp = host.resp /\ host' \in SdHostT
        /\ host'.arg = Argument(c)
    BY <2>0, <2>6 DEF SendCommand, SdHostT
  <2>8. drv' \in SdDrvT /\ drv'.sent /\ drv'.call = drv.call /\ drv'.pc = drv.pc /\ drv'.i = drv.i /\ drv'.tries = drv.tries
        /\ SdKeeps /\ drv'.type = drv.type /\ drv'.ocr = drv.ocr /\ drv'.wild = drv.wild /\ drv'.ret = drv.ret
    BY <2>0 DEF SendCommand, SdDrvT, SdKeeps
  <2> QED
    BY <2>0, <2>1, <2>3, <2>4, <2>5, <2>6, <2>7, <2>8 DEF SendCommand
<1>9. SdTypes'
  BY <1>0, <1>1 DEF SdTypes
<1>10. SdInCall'
  BY <1>0, <1>1, SdFields DEF SdInCall, Running, SdXfer, SdLast, SdPolls, SdKeeps
<1>11. SdEarly'
  BY <1>0, <1>1, SdFields DEF SdEarly, SdEarlyStep, SdMatch, SdInCall, Running, SdXfer, SdLast, SdPolls, SdKnown, SdData, SdKeeps
<1>12. SdKnown'
  BY <1>0, <1>1, SdFields DEF SdKnown, SdMatch, SdEarly, SdEarlyStep, SdInCall, Running, SdXfer, SdLast, SdPolls, SdKeeps
<1>13. SdData'
  BY <1>0, <1>1, SdFields DEF SdData, SdInCall, Running, SdXfer, SdLast, SdPolls, SdEarly, SdEarlyStep, SdMatch, SdErasing, SdErStart, SdErEnd, SdAnnounced, SdExpects, SdKeeps
<1>14. SdAnnounced'
  <2>1. SUFFICES ASSUME SdXfer, drv.pc = 2 PROVE SdAnnounced'
    BY <1>1 DEF SdAnnounced, SdXfer
  <2>2. c = "CMD23" /\ host'.arg = drv.n /\ host.dat = "idle" /\ drv'.n = drv.n
    BY <2>1, <1>1 DEF SdKeeps
  <2> QED
    BY <2>2, <1>1 DEF SdAnnounced
<1>15. SdFresh'
  BY <1>0, <1>1, SdFields DEF SdFresh, SdXfer, SdInCall, Running, SdLast, SdPolls, SdData, SdAnnounced, SdExpects, SdKeeps
<1>16. SdTransfers'
  <2>1. SUFFICES ASSUME SdXfer, drv.pc = 3 PROVE SdTransfers'
    BY <1>1 DEF SdTransfers, SdXfer
  <2>2. drv.i = 0 /\ "xc" \notin host.int /\ (host.err \/ SdExpects) /\ (drv.call = "read" => mem = <<>>)
    BY <1>0, <1>1, <2>1 DEF SdFresh, SdAnnounced
  <2>3. SdPending'
    BY <1>1, <2>1, <2>2 DEF SdPending, SdXfer, SdExpects, ReadArg, WriteArg, SdKeeps
  <2>4. drv'.i <= drv'.n
    BY <1>0, <1>1, <2>2, SdFields DEF SdKeeps
  <2> QED
    BY <2>3, <2>4 DEF SdTransfers
<1>17. SdEnded'
  <2>1. SUFFICES ASSUME SdXfer, drv.pc = 5 PROVE SdEnded'
    BY <1>1 DEF SdEnded, SdXfer, Running
  <2>2. c = "CMD13" /\ (drv.call = "read" => SdReadDone) /\ (drv.call = "write" => SdWriteDone)
    BY <1>0, <1>1, <2>1 DEF SdEnded, SdXfer
  <2>3. (drv'.call = "read" => SdReadDone') /\ (drv'.call = "write" => SdWriteDone')
    BY <1>1, <2>2 DEF SdReadDone, SdWriteDone, SdKeeps
  <2> QED
    BY <1>1, <2>1, <2>3 DEF SdEnded, SdXfer
<1>18. SdErasing'
  BY <1>0, <1>1, SdFields DEF SdErasing, SdErStart, SdErEnd, SdInCall, Running, SdXfer, SdLast, SdPolls, SdData, SdKeeps
<1>19. SdErrors'
  BY <1>0, <1>1, SdFields DEF SdErrors, SdXfer, SdInCall, Running, SdLast, SdPolls, SdKeeps
<1> QED
  BY <1>9, <1>10, <1>11, <1>12, <1>13, <1>14, <1>15, <1>16, <1>17, <1>18, <1>19 DEF SdInv

\* The driver reads the status: registers stay, flags stay or are cleared.
SdHostKept ==
    /\ host' \in SdHostT /\ host'.cmd = host.cmd /\ host'.arg = host.arg /\ host'.dat = host.dat /\ host'.count = host.count
    /\ host'.left = host.left /\ host'.buf = host.buf /\ host'.open = host.open /\ host'.err = host.err /\ host'.resp = host.resp
    /\ host'.int \in {host.int, {}}
    /\ card' = card /\ media' = media /\ mem' = mem /\ faults' \in 0 .. MaxFaults

\* A call that gives up.
LEMMA SdGaveUp ==
    ASSUME SdInv, Running, SdHostKept, drv' \in SdDrvT, SdGivesUp
    PROVE  SdInv'
<1>0. SdTypes /\ SdInCall /\ SdEarly /\ SdKnown /\ SdData /\ SdAnnounced /\ SdFresh /\ SdTransfers /\ SdEnded /\ SdErasing /\ SdErrors
  BY DEF SdInv
<1>1. SdHostKept /\ drv' \in SdDrvT /\ SdGivesUp /\ Running
  OBVIOUS
<1>9. SdTypes'
  BY <1>0, <1>1 DEF SdTypes, SdHostKept
<1>10. SdInCall'
  BY <1>0, <1>1, SdFields DEF SdInCall, Running, SdXfer, SdLast, SdPolls, SdKeeps, SdHostKept, SdGivesUp
<1>11. SdEarly'
  BY <1>0, <1>1, SdFields DEF SdEarly, SdEarlyStep, SdMatch, SdInCall, Running, SdXfer, SdLast, SdPolls, SdKnown, SdData, SdKeeps, SdHostKept, SdGivesUp
<1>12. SdKnown'
  BY <1>0, <1>1, SdFields DEF SdKnown, SdMatch, SdEarly, SdEarlyStep, SdInCall, Running, SdXfer, SdLast, SdPolls, SdKeeps, SdHostKept, SdGivesUp
<1>13. SdData'
  BY <1>0, <1>1, SdFields DEF SdData, SdInCall, Running, SdXfer, SdLast, SdPolls, SdKeeps, SdHostKept, SdGivesUp
<1>14. SdAnnounced'
  BY <1>0, <1>1, SdFields DEF SdAnnounced, SdExpects, SdXfer, SdInCall, Running, SdLast, SdPolls, SdFresh, SdKnown, SdMatch, SdData, SdKeeps, SdHostKept, SdGivesUp
<1>15. SdFresh'
  BY <1>0, <1>1, SdFields DEF SdFresh, SdXfer, SdInCall, Running, SdLast, SdPolls, SdData, SdAnnounced, SdExpects, SdKeeps, SdHostKept, SdGivesUp
<1>16. SdTransfers'
  BY <1>0, <1>1, SdFields DEF SdTransfers, SdXfer, SdPending, SdExpects, SdReading, SdWriting, SdRefused, SdDone, SdReadDone, SdWriteDone, SdMoved, SdBuffer, ReadArg, WriteArg, SdInCall, Running, SdLast, SdPolls, SdFresh, SdAnnounced, SdKnown, SdMatch, SdData, SdKeeps, SdHostKept, SdGivesUp
<1>17. SdEnded'
  BY <1>0, <1>1, SdFields DEF SdEnded, SdReadDone, SdWriteDone, SdInCall, Running, SdXfer, SdLast, SdPolls, SdTransfers, SdPending, SdExpects, SdReading, SdWriting, SdRefused, SdDone, SdMoved, SdBuffer, ReadArg, WriteArg, SdKeeps, SdHostKept, SdGivesUp
<1>18. SdErasing'
  BY <1>0, <1>1, SdFields DEF SdErasing, SdErStart, SdErEnd, SdInCall, Running, SdXfer, SdLast, SdPolls, SdKeeps, SdHostKept, SdGivesUp
<1>19. SdErrors'
  BY <1>0, <1>1, SdFields DEF SdErrors, SdXfer, SdInCall, Running, SdLast, SdPolls, SdKeeps, SdHostKept, SdGivesUp
<1> QED
  BY <1>9, <1>10, <1>11, <1>12, <1>13, <1>14, <1>15, <1>16, <1>17, <1>18, <1>19 DEF SdInv

\* A command that is tried again.
LEMMA SdRepeats ==
    ASSUME SdInv, Running, SdHostKept, drv' \in SdDrvT, SdAgain, drv.sent
    PROVE  SdInv'
<1>0. SdTypes /\ SdInCall /\ SdEarly /\ SdKnown /\ SdData /\ SdAnnounced /\ SdFresh /\ SdTransfers /\ SdEnded /\ SdErasing /\ SdErrors
  BY DEF SdInv
<1>1. SdHostKept /\ drv' \in SdDrvT /\ SdAgain /\ Running /\ drv.sent
  OBVIOUS
<1>9. SdTypes'
  BY <1>0, <1>1 DEF SdTypes, SdHostKept
<1>10. SdInCall'
  BY <1>0, <1>1, SdFields DEF SdInCall, Running, SdXfer, SdLast, SdPolls, SdKeeps, SdHostKept, SdAgain
<1>11. SdEarly'
  BY <1>0, <1>1, SdFields DEF SdEarly, SdEarlyStep, SdMatch, SdInCall, Running, SdXfer, SdLast, SdPolls, SdKnown, SdData, SdKeeps, SdHostKept, SdAgain
<1>12. SdKnown'
  BY <1>0, <1>1, SdFields DEF SdKnown, SdMatch, SdEarly, SdEarlyStep, SdInCall, Running, SdXfer, SdLast, SdPolls, SdKeeps, SdHostKept, SdAgain
<1>13. SdData'
  BY <1>0, <1>1, SdFields DEF SdData, SdInCall, Running, SdXfer, SdLast, SdPolls, SdKeeps, SdHostKept, SdAgain
<1>14. SdAnnounced'
  <2>1. SUFFICES ASSUME SdXfer PROVE SdAnnounced'
    BY <1>1 DEF SdAnnounced, SdXfer, SdAgain
  <2>2. drv'.pc = 5
    BY <1>1, <2>1 DEF SdPolls, SdXfer, SdAgain
  <2> QED
    BY <2>2 DEF SdAnnounced
<1>15. SdFresh'
  <2>1. SUFFICES ASSUME SdXfer PROVE SdFresh'
    BY <1>1 DEF SdFresh, SdXfer, SdAgain
  <2>2. drv'.pc = 5 /\ drv.pc = 5
    BY <1>1, <2>1 DEF SdPolls, SdXfer, SdAgain
  <2>3. host'.count = drv'.n
    BY <1>0, <1>1, <2>1, <2>2 DEF SdFresh, SdHostKept, SdAgain, SdKeeps
  <2> QED
    BY <2>2, <2>3 DEF SdFresh
<1>16. SdTransfers'
  BY <1>0, <1>1, SdFields DEF SdTransfers, SdXfer, SdPending, SdExpects, SdReading, SdWriting, SdRefused, SdDone, SdReadDone, SdWriteDone, SdMoved, SdBuffer, ReadArg, WriteArg, SdInCall, Running, SdLast, SdPolls, SdFresh, SdAnnounced, SdKnown, SdMatch, SdData, SdKeeps, SdHostKept, SdAgain
<1>17. SdEnded'
  BY <1>0, <1>1 DEF SdEnded, SdReadDone, SdWriteDone, Running, SdKeeps, SdHostKept, SdAgain
<1>18. SdErasing'
  BY <1>0, <1>1, SdFields DEF SdErasing, SdErStart, SdErEnd, SdInCall, Running, SdXfer, SdLast, SdPolls, SdKeeps, SdHostKept, SdAgain
<1>19. SdErrors'
  BY <1>0, <1>1, SdFields DEF SdErrors, SdXfer, SdInCall, Running, SdLast, SdPolls, SdKeeps, SdHostKept, SdAgain
<1> QED
  BY <1>9, <1>10, <1>11, <1>12, <1>13, <1>14, <1>15, <1>16, <1>17, <1>18, <1>19 DEF SdInv

\* A call that ends with its result.
LEMMA SdEndsCall ==
    ASSUME SdInv, Running, SdHostKept, drv' \in SdDrvT, SdEnds, SdPolls, drv.call # "enumerate", drv'.type = drv.type, drv'.ocr = drv.ocr, drv'.wild \/ ~host.err
    PROVE  SdInv'
<1>0. SdTypes /\ SdInCall /\ SdEarly /\ SdKnown /\ SdData /\ SdAnnounced /\ SdFresh /\ SdTransfers /\ SdEnded /\ SdErasing /\ SdErrors
  BY DEF SdInv
<1>1. SdHostKept /\ drv' \in SdDrvT /\ SdEnds /\ SdPolls /\ drv.call # "enumerate" /\ drv'.type = drv.type /\ drv'.ocr = drv.ocr /\ (drv'.wild \/ ~host.err)
  OBVIOUS
<1>9. SdTypes'
  BY <1>0, <1>1 DEF SdTypes, SdHostKept
<1>10. SdInCall'
  BY <1>0, <1>1, SdFields DEF SdInCall, Running, SdXfer, SdLast, SdPolls, SdKeeps, SdHostKept, SdEnds
<1>11. SdEarly'
  BY <1>0, <1>1, SdFields DEF SdEarly, SdEarlyStep, SdMatch, SdInCall, Running, SdXfer, SdLast, SdPolls, SdKnown, SdData, SdKeeps, SdHostKept, SdEnds
<1>12. SdKnown'
  BY <1>0, <1>1, SdFields DEF SdKnown, SdMatch, SdEarly, SdEarlyStep, SdInCall, Running, SdXfer, SdLast, SdPolls, SdKeeps, SdHostKept, SdEnds
<1>13. SdData'
  BY <1>0, <1>1, SdFields DEF SdData, SdInCall, Running, SdXfer, SdLast, SdPolls, SdKeeps, SdHostKept, SdEnds
<1>14. SdAnnounced'
  BY <1>0, <1>1, SdFields DEF SdAnnounced, SdExpects, SdXfer, SdInCall, Running, SdLast, SdPolls, SdFresh, SdKnown, SdMatch, SdData, SdKeeps, SdHostKept, SdEnds
<1>15. SdFresh'
  BY <1>0, <1>1, SdFields DEF SdFresh, SdXfer, SdInCall, Running, SdLast, SdPolls, SdData, SdAnnounced, SdExpects, SdKeeps, SdHostKept, SdEnds
<1>16. SdTransfers'
  BY <1>0, <1>1, SdFields DEF SdTransfers, SdXfer, SdPending, SdExpects, SdReading, SdWriting, SdRefused, SdDone, SdReadDone, SdWriteDone, SdMoved, SdBuffer, ReadArg, WriteArg, SdInCall, Running, SdLast, SdPolls, SdFresh, SdAnnounced, SdKnown, SdMatch, SdData, SdKeeps, SdHostKept, SdEnds
<1>17. SdEnded'
  BY <1>0, <1>1, SdFields DEF SdEnded, SdReadDone, SdWriteDone, SdInCall, Running, SdXfer, SdLast, SdPolls, SdTransfers, SdPending, SdExpects, SdReading, SdWriting, SdRefused, SdDone, SdMoved, SdBuffer, ReadArg, WriteArg, SdKeeps, SdHostKept, SdEnds
<1>18. SdErasing'
  BY <1>0, <1>1, SdFields DEF SdErasing, SdErStart, SdErEnd, SdInCall, Running, SdXfer, SdLast, SdPolls, SdKeeps, SdHostKept, SdEnds
<1>19. SdErrors'
  BY <1>0, <1>1, SdFields DEF SdErrors, SdXfer, SdInCall, Running, SdLast, SdPolls, SdKeeps, SdHostKept, SdEnds
<1> QED
  BY <1>9, <1>10, <1>11, <1>12, <1>13, <1>14, <1>15, <1>16, <1>17, <1>18, <1>19 DEF SdInv

\* A command that has been answered.
LEMMA SdCommandDone ==
    ASSUME SdInv, Running, SdHostKept, drv' \in SdDrvT, SdGoes(drv.pc + 1), ~(drv.call = "enumerate" /\ drv.pc = 5), drv'.type = drv.type, drv'.ocr = drv.ocr, drv.sent, SdPolls \/ (~host.err /\ "cc" \in host.int /\ host'.int = {}), drv.call = "enumerate" /\ drv.pc = 4 => drv'.tries > 0
    PROVE  SdInv'
<1>0. SdTypes /\ SdInCall /\ SdEarly /\ SdKnown /\ SdData /\ SdAnnounced /\ SdFresh /\ SdTransfers /\ SdEnded /\ SdErasing /\ SdErrors
  BY DEF SdInv
<1>1. SdHostKept /\ drv' \in SdDrvT /\ SdGoes(drv.pc + 1) /\ ~(drv.call = "enumerate" /\ drv.pc = 5) /\ drv'.type = drv.type /\ drv'.ocr = drv.ocr /\ drv.sent /\ (SdPolls \/ (~host.err /\ "cc" \in host.int /\ host'.int = {})) /\ Running /\ (drv.call = "enumerate" /\ drv.pc = 4 => drv'.tries > 0)
  OBVIOUS
<1>2. SdXfer => /\ drv.pc \in {2, 3} /\ drv'.pc = drv.pc + 1 /\ ~drv'.sent /\ drv'.i = 0 /\ drv.i = 0 /\ ~SdPolls
                 /\ drv.n \in 0 .. NBlocks /\ NBlocks \in Nat
  <2> SUFFICES ASSUME SdXfer PROVE drv.pc \in {2, 3} /\ drv'.pc = drv.pc + 1 /\ ~drv'.sent /\ drv'.i = 0 /\ drv.i = 0 /\ ~SdPolls
                 /\ drv.n \in 0 .. NBlocks /\ NBlocks \in Nat
    OBVIOUS
  <2>1. drv.pc \in 1 .. 18 /\ drv.n \in 0 .. NBlocks /\ NBlocks \in Nat
    BY <1>0, SdFields
  <2>2. drv.pc \notin {1, 4}
    BY <1>0, <1>1 DEF SdInCall
  <2>3. SdLast(drv.call) = 5
    BY DEF SdLast, SdXfer
  <2>4. drv'.pc = drv.pc + 1 /\ ~drv'.sent /\ drv'.i = 0 /\ drv.pc + 1 <= 5
    BY <1>1, <2>3 DEF SdGoes
  <2>5. drv.pc \in {2, 3}
    BY <2>1, <2>2, <2>4
  <2>6. drv.i = 0 /\ ~SdPolls
    BY <1>0, <2>5 DEF SdFresh, SdPolls, SdXfer
  <2> QED
    BY <2>1, <2>4, <2>5, <2>6
<1>9. SdTypes'
  BY <1>0, <1>1 DEF SdTypes, SdHostKept
<1>10. SdInCall'
  BY <1>0, <1>1, SdFields DEF SdInCall, Running, SdXfer, SdLast, SdPolls, SdKeeps, SdHostKept, SdGoes
<1>11. SdEarly'
  BY <1>0, <1>1, SdFields DEF SdEarly, SdEarlyStep, SdMatch, SdInCall, Running, SdXfer, SdLast, SdPolls, SdKnown, SdData, SdKeeps, SdHostKept, SdGoes
<1>12. SdKnown'
  BY <1>0, <1>1, SdFields DEF SdKnown, SdMatch, SdEarly, SdEarlyStep, SdInCall, Running, SdXfer, SdLast, SdPolls, SdKeeps, SdHostKept, SdGoes
<1>13. SdData'
  BY <1>0, <1>1, SdFields DEF SdData, SdInCall, Running, SdXfer, SdLast, SdPolls, SdKeeps, SdHostKept, SdGoes
<1>14. SdAnnounced'
  <2>1. SUFFICES ASSUME SdXfer PROVE SdAnnounced'
    BY <1>1 DEF SdAnnounced, SdXfer, SdGoes
  <2>2. drv.pc \in {2, 3} /\ drv'.pc = drv.pc + 1 /\ ~drv'.sent /\ drv'.i = 0 /\ drv.i = 0 /\ ~SdPolls /\ drv.n \in 0 .. NBlocks /\ NBlocks \in Nat
    BY <1>2, <2>1
  <2>3. SdKeeps /\ drv'.call = drv.call
    BY <1>1 DEF SdGoes
  <2> QED
    BY <1>0, <1>1, <2>1, <2>2, <2>3 DEF SdAnnounced, SdXfer, SdExpects, SdHostKept, SdKeeps
<1>15. SdFresh'
  <2>1. SUFFICES ASSUME SdXfer PROVE SdFresh'
    BY <1>1 DEF SdFresh, SdXfer, SdGoes
  <2>2. drv.pc \in {2, 3} /\ drv'.pc = drv.pc + 1 /\ ~drv'.sent /\ drv'.i = 0 /\ drv.i = 0 /\ ~SdPolls /\ drv.n \in 0 .. NBlocks /\ NBlocks \in Nat
    BY <1>2, <2>1
  <2>3. SdKeeps /\ drv'.call = drv.call
    BY <1>1 DEF SdGoes
  <2> QED
    BY <1>0, <1>1, <2>1, <2>2, <2>3 DEF SdFresh, SdXfer, SdHostKept, SdKeeps
<1>16. SdTransfers'
  <2>1. SUFFICES ASSUME SdXfer, drv.pc = 3 PROVE SdTransfers'
    <3>1. CASE SdXfer
      <4>1. drv.pc \in {2, 3} /\ drv'.pc = drv.pc + 1 /\ ~drv'.sent
        BY <1>2, <3>1
      <4> QED
        BY <3>1, <4>1 DEF SdTransfers
    <3>2. CASE ~SdXfer
      BY <1>1, <3>2 DEF SdTransfers, SdXfer, SdGoes
    <3> QED
      BY <3>1, <3>2
  <2>2. drv.pc \in {2, 3} /\ drv'.pc = drv.pc + 1 /\ ~drv'.sent /\ drv'.i = 0 /\ drv.i = 0 /\ ~SdPolls /\ drv.n \in 0 .. NBlocks /\ NBlocks \in Nat
    BY <1>2, <2>1
  <2>3. SdKeeps /\ drv'.call = drv.call
    BY <1>1 DEF SdGoes
  <2>4. SdPending \/ SdReading \/ SdWriting \/ SdRefused \/ SdDone
    BY <1>0, <1>1, <2>1 DEF SdTransfers
  <2>5. drv'.i <= drv'.n
    BY <2>2, <2>3 DEF SdKeeps
  <2>6. CASE SdPending
    BY <1>1, <2>2, <2>3, <2>6 DEF SdPending, SdExpects, SdHostKept, SdKeeps, ReadArg, WriteArg, SdTransfers
  <2>7. CASE SdReading
    <3>1. SdReading'
      BY <1>1, <2>2, <2>3, <2>7 DEF SdReading, SdMoved, SdBuffer, SdHostKept, SdKeeps
    <3> QED
      BY <2>5, <3>1 DEF SdTransfers
  <2>8. CASE SdWriting
    <3>1. SdWriting'
      BY <1>1, <2>2, <2>3, <2>8 DEF SdWriting, SdMoved, SdBuffer, SdHostKept, SdKeeps
    <3> QED
      BY <2>5, <3>1 DEF SdTransfers
  <2>9. CASE SdRefused
    <3>1. SdRefused'
      BY <1>1, <2>2, <2>3, <2>9 DEF SdRefused, SdHostKept, SdKeeps
    <3> QED
      BY <2>5, <3>1 DEF SdTransfers
  <2>10. CASE SdDone
    <3>1. SdDone'
      BY <1>1, <2>2, <2>3, <2>10 DEF SdDone, SdReadDone, SdWriteDone, SdHostKept, SdKeeps
    <3> QED
      BY <2>5, <3>1 DEF SdTransfers
  <2> QED
    BY <2>4, <2>5, <2>6, <2>7, <2>8, <2>9, <2>10 DEF SdTransfers
<1>17. SdEnded'
  <2>1. CASE SdXfer
    <3>2. drv.pc \in {2, 3} /\ drv'.pc = drv.pc + 1 /\ ~drv'.sent /\ drv'.i = 0 /\ drv.i = 0 /\ ~SdPolls /\ drv.n \in 0 .. NBlocks /\ NBlocks \in Nat
      BY <1>2, <2>1
    <3>3. SdKeeps /\ drv'.call = drv.call
      BY <1>1 DEF SdGoes
    <3> QED
      BY <2>1, <3>2, <3>3 DEF SdEnded, SdXfer
  <2>2. CASE ~SdXfer
    BY <1>1, <2>2 DEF SdEnded, SdGoes, SdXfer, Running
  <2> QED
    BY <2>1, <2>2
<1>18. SdErasing'
  BY <1>0, <1>1, SdFields DEF SdErasing, SdErStart, SdErEnd, SdInCall, Running, SdXfer, SdLast, SdPolls, SdKeeps, SdHostKept, SdGoes
<1>19. SdErrors'
  BY <1>0, <1>1, SdFields DEF SdErrors, SdXfer, SdInCall, Running, SdLast, SdPolls, SdKeeps, SdHostKept, SdGoes
<1> QED
  BY <1>9, <1>10, <1>11, <1>12, <1>13, <1>14, <1>15, <1>16, <1>17, <1>18, <1>19 DEF SdInv

\* A command of the set-up that leads elsewhere.
LEMMA SdEarlyDone ==
    ASSUME SdInv, Running, SdHostKept, drv' \in SdDrvT, NEW pc \in {4, 6}, SdGoes(pc), drv.call = "enumerate", drv.pc \in {3, 5}, drv.sent, ~host.err, "cc" \in host.int, host'.int = {}, pc = 4 => drv.pc = 5 /\ ~host.resp.ok /\ drv'.tries > 0, pc = 6 /\ drv.pc = 5 => SdMatch'
    PROVE  SdInv'
<1>0. SdTypes /\ SdInCall /\ SdEarly /\ SdKnown /\ SdData /\ SdAnnounced /\ SdFresh /\ SdTransfers /\ SdEnded /\ SdErasing /\ SdErrors
  BY DEF SdInv
<1>1. SdHostKept /\ drv' \in SdDrvT /\ SdGoes(pc) /\ drv.call = "enumerate" /\ drv.pc \in {3, 5} /\ drv.sent /\ ~host.err /\ "cc" \in host.int /\ host'.int = {} /\ (pc = 4 => drv.pc = 5 /\ ~host.resp.ok /\ drv'.tries > 0) /\ (pc = 6 /\ drv.pc = 5 => SdMatch')
  OBVIOUS
<1>9. SdTypes'
  BY <1>0, <1>1 DEF SdTypes, SdHostKept
<1>10. SdInCall'
  BY <1>0, <1>1, SdFields DEF SdInCall, Running, SdXfer, SdLast, SdPolls, SdKeeps, SdHostKept, SdGoes
<1>11. SdEarly'
  BY <1>0, <1>1, SdFields DEF SdEarly, SdEarlyStep, SdMatch, SdInCall, Running, SdXfer, SdLast, SdPolls, SdKnown, SdData, SdKeeps, SdHostKept, SdGoes
<1>12. SdKnown'
  BY <1>0, <1>1, SdFields DEF SdKnown, SdMatch, SdEarly, SdEarlyStep, SdInCall, Running, SdXfer, SdLast, SdPolls, SdKeeps, SdHostKept, SdGoes
<1>13. SdData'
  BY <1>0, <1>1, SdFields DEF SdData, SdInCall, Running, SdXfer, SdLast, SdPolls, SdKeeps, SdHostKept, SdGoes
<1>14. SdAnnounced'
  BY <1>0, <1>1, SdFields DEF SdAnnounced, SdExpects, SdXfer, SdInCall, Running, SdLast, SdPolls, SdFresh, SdKnown, SdMatch, SdData, SdKeeps, SdHostKept, SdGoes
<1>15. SdFresh'
  BY <1>0, <1>1, SdFields DEF SdFresh, SdXfer, SdInCall, Running, SdLast, SdPolls, SdData, SdAnnounced, SdExpects, SdKeeps, SdHostKept, SdGoes
<1>16. SdTransfers'
  BY <1>0, <1>1, SdFields DEF SdTransfers, SdXfer, SdPending, SdExpects, SdReading, SdWriting, SdRefused, SdDone, SdReadDone, SdWriteDone, SdMoved, SdBuffer, ReadArg, WriteArg, SdInCall, Running, SdLast, SdPolls, SdFresh, SdAnnounced, SdKnown, SdMatch, SdData, SdKeeps, SdHostKept, SdGoes
<1>17. SdEnded'
  BY <1>0, <1>1, SdFields DEF SdEnded, SdReadDone, SdWriteDone, SdInCall, Running, SdXfer, SdLast, SdPolls, SdTransfers, SdPending, SdExpects, SdReading, SdWriting, SdRefused, SdDone, SdMoved, SdBuffer, ReadArg, WriteArg, SdKeeps, SdHostKept, SdGoes
<1>18. SdErasing'
  BY <1>0, <1>1, SdFields DEF SdErasing, SdErStart, SdErEnd, SdInCall, Running, SdXfer, SdLast, SdPolls, SdKeeps, SdHostKept, SdGoes
<1>19. SdErrors'
  BY <1>0, <1>1, SdFields DEF SdErrors, SdXfer, SdInCall, Running, SdLast, SdPolls, SdKeeps, SdHostKept, SdGoes
<1> QED
  BY <1>9, <1>10, <1>11, <1>12, <1>13, <1>14, <1>15, <1>16, <1>17, <1>18, <1>19 DEF SdInv

\* A call that ends here has polled the card.
LEMMA SdEndsPolling ==
    ASSUME SdTypes, SdInCall, Running, drv.sent, SdEnds
    PROVE  SdPolls /\ drv.call # "enumerate"
<1>1. drv.call \in {"enumerate", "read", "write", "erase"} /\ drv.pc = SdLast(drv.call)
  BY SdAt DEF SdEnds
<1>2. ~(drv.call = "enumerate")
  BY <1>1 DEF SdInCall, SdLast
<1> QED
  BY <1>1, <1>2 DEF SdPolls, SdXfer, SdLast

\* CommandComplete, CommandError, CommandTimeout and TransferTimeout.
LEMMA SdCompletes == SdInv /\ CommandComplete => SdInv'
<1> SUFFICES ASSUME SdInv, CommandComplete PROVE SdInv'
  OBVIOUS
<1>1. SdTypes /\ SdInCall /\ SdEarly /\ Running /\ drv.sent /\ ~host.err /\ "cc" \in host.int /\ TakeResponse(host.resp) /\ card' = card
  BY DEF CommandComplete, SdInv
<1>2. SdHostKept /\ host'.int = {}
  <2>1. host \in SdHostT
    BY <1>1 DEF SdTypes
  <2>2. host' = [host EXCEPT !.int = {}] /\ card' = card /\ media' = media /\ mem' = mem /\ faults' = faults /\ faults \in 0 .. MaxFaults
    BY <1>1 DEF CommandComplete, SdTypes
  <2> QED
    BY <2>1, <2>2 DEF SdHostKept, SdHostT
<1>3. drv' \in SdDrvT
  BY <1>1, SdAnswered
<1>4. CASE SdGivesUp
  BY <1>1, <1>2, <1>3, <1>4, SdGaveUp
<1>5. CASE SdAgain
  BY <1>1, <1>2, <1>3, <1>5, SdRepeats
<1>6. CASE SdEnds /\ drv'.type = drv.type /\ drv'.ocr = drv.ocr
  BY <1>1, <1>2, <1>3, <1>6, SdEndsPolling, SdEndsCall
<1>7. CASE /\ SdGoes(drv.pc + 1) /\ ~(drv.call = "enumerate" /\ drv.pc = 5) /\ drv'.type = drv.type /\ drv'.ocr = drv.ocr
           /\ drv.call = "enumerate" /\ drv.pc = 4 => drv'.tries > 0
  BY <1>1, <1>2, <1>3, <1>7, SdCommandDone
<1>8. CASE drv.call = "enumerate" /\ drv.pc = 3 /\ SdGoes(6)
  BY <1>1, <1>2, <1>3, <1>8, SdEarlyDone
<1>9. CASE drv.call = "enumerate" /\ drv.pc = 5 /\ ~host.resp.ok /\ SdGoes(4) /\ drv'.tries > 0
  BY <1>1, <1>2, <1>3, <1>9, SdEarlyDone
<1>10. CASE drv.call = "enumerate" /\ drv.pc = 5 /\ host.resp.ok /\ SdGoes(6) /\ SdMatch'
  BY <1>1, <1>2, <1>3, <1>10, SdEarlyDone
<1> QED
  BY <1>1, <1>4, <1>5, <1>6, <1>7, <1>8, <1>9, <1>10, SdAnswered

\* A step of the driver that fails ends the call, and changes nothing else.
LEMMA SdFails ==
    ASSUME SdInv, Running, drv.sent, CommandFailed, host' = host, card' = card, media' = media, mem' = mem, faults' \in 0 .. MaxFaults
    PROVE  SdInv'
<1>1. SdTypes /\ SdInCall
  BY DEF SdInv
<1>2. SdHostKept
  BY <1>1 DEF SdHostKept, SdTypes
<1>3. drv' \in SdDrvT
  BY <1>1, SdFailed
<1>4. CASE SdGivesUp
  BY <1>1, <1>2, <1>3, <1>4, SdGaveUp
<1>5. CASE SdAgain
  BY <1>1, <1>2, <1>3, <1>5, SdRepeats
<1>6. CASE SdEnds /\ drv'.wild /\ drv'.type = drv.type /\ drv'.ocr = drv.ocr
  BY <1>1, <1>2, <1>3, <1>6, SdEndsPolling, SdEndsCall
<1>7. CASE SdGoes(drv.pc + 1) /\ SdPolls /\ drv'.type = drv.type /\ drv'.ocr = drv.ocr
  <2>1. ~(drv.call = "enumerate" /\ drv.pc \in {4, 5})
    BY <1>7 DEF SdPolls, SdXfer
  <2> QED
    BY <1>1, <1>2, <1>3, <1>7, <2>1, SdCommandDone
<1> QED
  BY <1>1, <1>4, <1>5, <1>6, <1>7, SdFailed

\* The three ways a step of the driver fails.
LEMMA SdFailures == SdInv /\ (CommandError \/ CommandTimeout \/ TransferTimeout) => SdInv'
<1> SUFFICES ASSUME SdInv, CommandError \/ CommandTimeout \/ TransferTimeout PROVE SdInv'
  OBVIOUS
<1>1. SdTypes /\ SdInCall /\ faults \in 0 .. MaxFaults /\ MaxFaults \in Nat
  BY SdAssumption DEF SdInv, SdTypes
<1>2. CASE CommandError
  BY <1>1, <1>2, SdFails DEF CommandError
<1>3. CASE CommandTimeout
  <2>1. faults' \in 0 .. MaxFaults
    BY <1>1, <1>3 DEF CommandTimeout
  <2> QED
    BY <1>3, <2>1, SdFails DEF CommandTimeout
<1>4. CASE TransferTimeout
  <2>1. Running /\ drv' \in SdDrvT /\ SdGivesUp
    BY <1>1, <1>4, SdReturns DEF TransferTimeout
  <2>2. SdHostKept
    BY <1>1, <1>4 DEF TransferTimeout, SdHostKept, SdTypes
  <2> QED
    BY <2>1, <2>2, SdGaveUp
<1> QED
  BY <1>2, <1>3, <1>4

\* One more block in the buffer, or on the card.
LEMMA SdCopiedMore ==
    ASSUME NEW m \in Seq(Int), NEW d, NEW lba \in Nat, NEW k \in Nat, NEW v \in Int, Len(m) = k, SdCopied(m, d, lba, k), v = d[lba + k]
    PROVE  SdCopied(Append(m, v), d, lba, k + 1)
<1> SUFFICES ASSUME NEW j \in 0 .. k PROVE Append(m, v)[j + 1] = d[lba + j]
  BY DEF SdCopied
<1>1. CASE j = k
  <2>1. Append(m, v)[k + 1] = v
    OBVIOUS
  <2> QED
    BY <1>1, <2>1
<1>2. CASE j # k
  <2>1. j \in 0 .. k - 1 /\ j + 1 \in 1 .. k
    BY <1>2
  <2>2. m[j + 1] = d[lba + j]
    BY <2>1 DEF SdCopied
  <2>3. Append(m, v)[j + 1] = m[j + 1]
    BY <2>1
  <2> QED
    BY <2>2, <2>3
<1> QED
  BY <1>1, <1>2

\* A block that is written after the first k makes them k + 1.
LEMMA SdLandedMore ==
    ASSUME NEW d \in [Blocks -> Int], NEW lba \in Nat, NEW k \in Nat, lba + k \in Blocks, SdLanded(d, lba, k)
    PROVE  SdLanded([d EXCEPT ![lba + k] = Written(k)], lba, k + 1)
<1> DEFINE e == [d EXCEPT ![lba + k] = Written(k)]
<1> SUFFICES ASSUME NEW j \in 0 .. k PROVE e[lba + j] = Written(j)
  BY DEF SdLanded
<1>0. lba + j \in Blocks
  BY SdAssumption DEF Blocks
<1>1. CASE j = k
  BY <1>0, <1>1
<1>2. CASE j # k
  <2>1. j \in 0 .. k - 1 /\ lba + j # lba + k
    BY <1>2
  <2>2. d[lba + j] = Written(j)
    BY <2>1 DEF SdLanded
  <2> QED
    BY <1>0, <2>1, <2>2
<1> QED
  BY <1>1, <1>2

\* bm_sd_read takes a block.
LEMMA SdReads ==
    ASSUME SdInv, ReadBlock
    PROVE  SdInv'
<1>0. SdTypes /\ SdInCall /\ SdEarly /\ SdKnown /\ SdData /\ SdAnnounced /\ SdFresh /\ SdTransfers /\ SdEnded /\ SdErasing /\ SdErrors
  BY DEF SdInv
<1>1. /\ (drv.call = "enumerate" /\ drv.pc = 14) \/ (drv.call = "read" /\ drv.pc = 4 /\ drv.i < drv.n)
      /\ host.buf # None
      /\ host'.cmd = host.cmd /\ host'.arg = host.arg /\ host'.dat = host.dat /\ host'.count = host.count /\ host'.left = host.left /\ host'.buf = None
      /\ host'.open = host.open /\ host'.int = host.int \ {"rd"} /\ host'.err = host.err /\ host'.resp = host.resp /\ host' \in SdHostT
      /\ drv' \in SdDrvT /\ drv'.sent = drv.sent /\ drv'.call = drv.call /\ drv'.pc = drv.pc /\ drv'.i = drv.i + 1 /\ drv'.tries = drv.tries /\ SdKeeps /\ drv'.type = drv.type /\ drv'.ocr = drv.ocr /\ drv'.wild = drv.wild /\ drv'.ret = drv.ret
      /\ card' = card /\ media' = media /\ mem' = Append(mem, host.buf) /\ faults' = faults
  <2>0. Running /\ Step = "read" /\ drv.i < Wanted /\ host.buf # None /\ drv \in SdDrvT /\ host \in SdHostT
    BY <1>0 DEF ReadBlock, CanRead, SdTypes
  <2>1. (drv.call = "enumerate" /\ drv.pc = 14) \/ (drv.call = "read" /\ drv.pc = 4)
    BY <1>0, <2>0, SdWhere
  <2>2. host'.cmd = host.cmd /\ host'.arg = host.arg /\ host'.dat = host.dat /\ host'.count = host.count /\ host'.left = host.left /\ host'.buf = None
        /\ host'.open = host.open /\ host'.int = host.int \ {"rd"} /\ host'.err = host.err /\ host'.resp = host.resp /\ host' \in SdHostT
    <3>1. host' = [host EXCEPT !.int = host.int \ {"rd"}, !.buf = None] /\ None \in Int
      BY <2>0 DEF ReadBlock, SdHostT, None
    <3>2. host.int \ {"rd"} \in SUBSET {"cc", "rd", "wr", "xc"}
      BY <2>0 DEF SdHostT
    <3> QED
      BY <2>0, <3>1, <3>2 DEF SdHostT
  <2>3. drv' \in SdDrvT /\ drv'.sent = drv.sent /\ drv'.call = drv.call /\ drv'.pc = drv.pc /\ drv'.i = drv.i + 1 /\ drv'.tries = drv.tries /\ SdKeeps /\ drv'.type = drv.type /\ drv'.ocr = drv.ocr /\ drv'.wild = drv.wild /\ drv'.ret = drv.ret
    <3>1. drv' = [drv EXCEPT !.i = drv.i + 1]
      BY <2>0 DEF ReadBlock, SdDrvT
    <3>2. drv.i + 1 \in Nat
      BY <2>0 DEF SdDrvT
    <3> QED
      BY <2>0, <3>1, <3>2 DEF SdDrvT, SdKeeps
  <2> QED
    BY <2>0, <2>1, <2>2, <2>3 DEF ReadBlock, Wanted
<1>2. drv.call = "read" => SdReading /\ SdReading' /\ drv'.i <= drv'.n
  <2> SUFFICES ASSUME drv.call = "read" PROVE SdReading /\ SdReading' /\ drv'.i <= drv'.n
    OBVIOUS
  <2>1. drv.pc = 4 /\ SdXfer /\ drv.i < drv.n
    BY <1>1 DEF SdXfer
  <2>2. host.dat # "idle"
    BY <1>0, <1>1 DEF SdData
  <2>3. SdReading
    BY <1>0, <2>1, <2>2 DEF SdTransfers, SdPending, SdWriting, SdRefused, SdDone, SdReadDone, SdData
  <2>4. /\ drv.i \in Nat /\ drv.n \in Nat /\ drv.lba \in Nat /\ host.left \in Nat /\ mem \in Seq(Int) /\ host.buf \in Int
    <3>1. mem \in Seq(Int)
      BY <1>0 DEF SdTypes
    <3>2. NBlocks \in Nat /\ drv.i \in Nat /\ drv.n \in 0 .. NBlocks /\ drv.lba \in Nat /\ host.left \in 0 .. NBlocks /\ host.buf \in Int
      BY <1>0, SdFields
    <3> QED
      BY <3>1, <3>2
  <2>5. SdBuffer = 1 /\ SdBuffer' = 0 /\ SdMoved' = SdMoved /\ SdMoved = drv.i + 1
    BY <1>1, <2>3, <2>4 DEF SdBuffer, SdMoved, SdReading, SdKeeps
  <2>6. Len(mem') = drv.i + 1 /\ drv'.i + 0 = SdMoved
    BY <1>1, <2>3, <2>4, <2>5 DEF SdReading
  <2>7. host.err \/ SdCopied(mem', media', drv'.lba, drv'.i)
    BY <1>1, <2>3, <2>4, SdCopiedMore DEF SdReading, SdKeeps
  <2>8. SdReading'
    BY <1>1, <2>3, <2>4, <2>5, <2>6, <2>7 DEF SdReading, SdKeeps
  <2> QED
    BY <1>1, <2>1, <2>3, <2>4, <2>8 DEF SdKeeps
<1>9. SdTypes'
  <2>1. mem' \in Seq(Int)
    BY <1>0, <1>1, SdFields DEF SdTypes
  <2> QED
    BY <1>0, <1>1, <2>1 DEF SdTypes
<1>10. SdInCall'
  BY <1>0, <1>1, SdFields DEF SdInCall, Running, SdXfer, SdLast, SdPolls, SdKeeps
<1>11. SdEarly'
  BY <1>0, <1>1, SdFields DEF SdEarly, SdEarlyStep, SdMatch, SdInCall, Running, SdXfer, SdLast, SdPolls, SdKnown, SdData, SdKeeps
<1>12. SdKnown'
  BY <1>0, <1>1, SdFields DEF SdKnown, SdMatch, SdEarly, SdEarlyStep, SdInCall, Running, SdXfer, SdLast, SdPolls, SdKeeps
<1>13. SdData'
  BY <1>0, <1>1, SdFields DEF SdData, SdInCall, Running, SdXfer, SdLast, SdPolls, SdKeeps
<1>14. SdAnnounced'
  BY <1>0, <1>1, SdFields DEF SdAnnounced, SdExpects, SdXfer, SdInCall, Running, SdLast, SdPolls, SdFresh, SdKnown, SdMatch, SdData, SdKeeps
<1>15. SdFresh'
  BY <1>0, <1>1, <1>2 DEF SdFresh, SdXfer, SdReading, SdKeeps
<1>16. SdTransfers'
  BY <1>1, <1>2 DEF SdTransfers, SdXfer
<1>17. SdEnded'
  BY <1>1 DEF SdEnded
<1>18. SdErasing'
  BY <1>0, <1>1, SdFields DEF SdErasing, SdErStart, SdErEnd, SdInCall, Running, SdXfer, SdLast, SdPolls, SdKeeps
<1>19. SdErrors'
  BY <1>0, <1>1, SdFields DEF SdErrors, SdXfer, SdInCall, Running, SdLast, SdPolls, SdKeeps
<1> QED
  BY <1>9, <1>10, <1>11, <1>12, <1>13, <1>14, <1>15, <1>16, <1>17, <1>18, <1>19 DEF SdInv

\* bm_sd_write puts a block.
LEMMA SdWrites ==
    ASSUME SdInv, WriteBlock
    PROVE  SdInv'
<1>0. SdTypes /\ SdInCall /\ SdEarly /\ SdKnown /\ SdData /\ SdAnnounced /\ SdFresh /\ SdTransfers /\ SdEnded /\ SdErasing /\ SdErrors
  BY DEF SdInv
<1>1. /\ drv.call = "write" /\ drv.pc = 4 /\ drv.i < drv.n /\ (drv.i = 0 \/ host.open)
      /\ host'.cmd = host.cmd /\ host'.arg = host.arg /\ host'.dat = host.dat /\ host'.count = host.count /\ host'.left = host.left
      /\ host'.buf = (IF host.open THEN Written(drv.i) ELSE host.buf) /\ host'.open = FALSE
      /\ host'.int = (IF drv.i = 0 THEN host.int ELSE host.int \ {"wr"}) /\ host'.err = host.err /\ host'.resp = host.resp /\ host' \in SdHostT
      /\ drv' \in SdDrvT /\ drv'.sent = drv.sent /\ drv'.call = drv.call /\ drv'.pc = drv.pc /\ drv'.i = drv.i + 1 /\ drv'.tries = drv.tries /\ SdKeeps /\ drv'.type = drv.type /\ drv'.ocr = drv.ocr /\ drv'.wild = drv.wild /\ drv'.ret = drv.ret
      /\ card' = card /\ media' = media /\ mem' = mem /\ faults' = faults
  <2>0. Running /\ Step = "write" /\ drv.i < Wanted /\ (drv.i = 0 \/ host.open) /\ drv \in SdDrvT /\ host \in SdHostT /\ drv.i \in Nat
    BY <1>0, SdFields DEF WriteBlock, CanWrite, SdTypes
  <2>1. drv.call = "write" /\ drv.pc = 4
    BY <1>0, <2>0, SdWhere
  <2>2. host'.cmd = host.cmd /\ host'.arg = host.arg /\ host'.dat = host.dat /\ host'.count = host.count /\ host'.left = host.left
        /\ host'.buf = (IF host.open THEN Written(drv.i) ELSE host.buf) /\ host'.open = FALSE
        /\ host'.int = (IF drv.i = 0 THEN host.int ELSE host.int \ {"wr"}) /\ host'.err = host.err /\ host'.resp = host.resp /\ host' \in SdHostT
    <3> DEFINE i == IF drv.i = 0 THEN host.int ELSE host.int \ {"wr"}
    <3> DEFINE b == IF host.open THEN Written(drv.i) ELSE host.buf
    <3>1. host' = [host EXCEPT !.int = i, !.open = FALSE, !.buf = b]
      BY <2>0 DEF WriteBlock, SdHostT
    <3>2. i \in SUBSET {"cc", "rd", "wr", "xc"}
      BY <2>0 DEF SdHostT
    <3>3. b \in Int
      BY <2>0 DEF SdHostT, Written
    <3> HIDE DEF i, b
    <3>4. host'.cmd = host.cmd /\ host'.arg = host.arg /\ host'.dat = host.dat /\ host'.count = host.count /\ host'.left = host.left
        /\ host'.buf = b /\ host'.open = FALSE /\ host'.int = i /\ host'.err = host.err /\ host'.resp = host.resp /\ host' \in SdHostT
      BY <2>0, <3>1, <3>2, <3>3 DEF SdHostT
    <3> QED
      BY <3>4 DEF i, b
  <2>3. drv' \in SdDrvT /\ drv'.sent = drv.sent /\ drv'.call = drv.call /\ drv'.pc = drv.pc /\ drv'.i = drv.i + 1 /\ drv'.tries = drv.tries /\ SdKeeps /\ drv'.type = drv.type /\ drv'.ocr = drv.ocr /\ drv'.wild = drv.wild /\ drv'.ret = drv.ret
    <3>1. drv' = [drv EXCEPT !.i = drv.i + 1]
      BY <2>0 DEF WriteBlock, SdDrvT
    <3>2. drv.i + 1 \in Nat
      BY <2>0
    <3> QED
      BY <2>0, <3>1, <3>2 DEF SdDrvT, SdKeeps
  <2> QED
    BY <2>0, <2>1, <2>2, <2>3 DEF WriteBlock, Wanted
<1>2. drv.i \in Nat /\ drv.n \in Nat /\ drv.lba \in Nat /\ host.left \in Nat /\ host.buf \in Int
  <2>1. NBlocks \in Nat /\ drv.i \in Nat /\ drv.n \in 0 .. NBlocks /\ drv.lba \in Nat /\ host.left \in 0 .. NBlocks /\ host.buf \in Int
    BY <1>0, SdFields
  <2> QED
    BY <2>1
<1>3. host.open => SdWriting
  <2>1. SdXfer
    BY <1>1 DEF SdXfer
  <2>2. host.open => host.dat = "write"
    BY <1>0 DEF SdData
  <2> QED
    BY <1>0, <1>1, <2>1, <2>2 DEF SdTransfers, SdPending, SdReading, SdRefused, SdDone, SdWriteDone, SdData
<1>4. SdPending \/ SdWriting \/ SdRefused
  <2>1. SdXfer
    BY <1>1 DEF SdXfer
  <2> QED
    BY <1>0, <1>1, <1>2, <2>1 DEF SdTransfers, SdReading, SdDone
<1>5. SdPending \/ SdRefused => SdPending' \/ SdRefused'
  <2>1. SdPending => SdPending'
    BY <1>0, <1>1 DEF SdPending, SdExpects, WriteArg, SdKeeps
  <2>2. SdRefused => SdRefused'
    BY <1>0, <1>1 DEF SdRefused
  <2> QED
    BY <2>1, <2>2
<1>6. ASSUME SdWriting PROVE SdWriting'
  <2>1. SdMoved' = SdMoved /\ SdMoved \in Int
    BY <1>1, <1>2 DEF SdMoved, SdKeeps
  <2>2. CASE host.open
    <3>1. SdBuffer = 0 /\ SdBuffer' = 1
      BY <1>0, <1>1, <1>2, <2>2 DEF SdData, SdBuffer, Written, None
    <3> QED
      BY <1>1, <1>2, <1>6, <2>1, <2>2, <3>1 DEF SdWriting, SdKeeps
  <2>3. CASE ~host.open
    <3>1. SdBuffer' = SdBuffer /\ drv.i = 0 /\ SdBuffer \in {0, 1}
      BY <1>1, <2>3 DEF SdBuffer
    <3> QED
      BY <1>1, <1>2, <1>6, <2>1, <2>3, <3>1 DEF SdWriting, SdKeeps
  <2> QED
    BY <2>2, <2>3
<1>7. host.open => host.left > 0 /\ card.at \in drv.asked /\ host.dat = "write"
  <2> SUFFICES ASSUME host.open PROVE host.left > 0 /\ card.at \in drv.asked /\ host.dat = "write"
    OBVIOUS
  <2>1. host.left > 0 /\ host.dat = "write"
    BY <1>0 DEF SdData
  <2>2. card.at = drv.lba + SdMoved /\ SdMoved \in 0 .. drv.n - 1
    BY <1>2, <1>3, <2>1 DEF SdWriting, SdMoved
  <2>3. drv.last = "write"
    BY <1>0, <1>1 DEF SdInCall
  <2>4. \A b \in drv.lba .. drv.lba + drv.n - 1 : b \in drv.asked
    BY <1>0, <2>3 DEF SdInCall
  <2> QED
    BY <1>2, <2>1, <2>2, <2>4
<1>9. SdTypes'
  BY <1>0, <1>1 DEF SdTypes
<1>10. SdInCall'
  BY <1>0, <1>1, SdFields DEF SdInCall, Running, SdXfer, SdLast, SdPolls, SdKeeps
<1>11. SdEarly'
  BY <1>0, <1>1, SdFields DEF SdEarly, SdEarlyStep, SdMatch, SdInCall, Running, SdXfer, SdLast, SdPolls, SdKnown, SdData, SdKeeps
<1>12. SdKnown'
  BY <1>0, <1>1, SdFields DEF SdKnown, SdMatch, SdEarly, SdEarlyStep, SdInCall, Running, SdXfer, SdLast, SdPolls, SdKeeps
<1>13. SdData'
  BY <1>0, <1>1, <1>7 DEF SdData, SdKeeps, Written, None
<1>14. SdAnnounced'
  BY <1>0, <1>1, SdFields DEF SdAnnounced, SdExpects, SdXfer, SdInCall, Running, SdLast, SdPolls, SdFresh, SdKnown, SdMatch, SdData, SdKeeps
<1>15. SdFresh'
  BY <1>0, <1>1 DEF SdFresh, SdXfer, SdKeeps
<1>16. SdTransfers'
  <2>1. drv'.i <= drv'.n
    BY <1>1, <1>2 DEF SdKeeps
  <2> QED
    BY <2>1, <1>4, <1>5, <1>6 DEF SdTransfers
<1>17. SdEnded'
  BY <1>1 DEF SdEnded
<1>18. SdErasing'
  BY <1>0, <1>1, SdFields DEF SdErasing, SdErStart, SdErEnd, SdInCall, Running, SdXfer, SdLast, SdPolls, SdKeeps
<1>19. SdErrors'
  BY <1>0, <1>1, SdFields DEF SdErrors, SdXfer, SdInCall, Running, SdLast, SdPolls, SdKeeps
<1> QED
  BY <1>9, <1>10, <1>11, <1>12, <1>13, <1>14, <1>15, <1>16, <1>17, <1>18, <1>19 DEF SdInv

\* The end of a transfer.
LEMMA SdTransferred ==
    ASSUME SdInv, TransferComplete
    PROVE  SdInv'
<1>0. SdTypes /\ SdInCall /\ SdEarly /\ SdKnown /\ SdData /\ SdAnnounced /\ SdFresh /\ SdTransfers /\ SdEnded /\ SdErasing /\ SdErrors
  BY DEF SdInv
<1>1. /\ (drv.call = "enumerate" /\ drv.pc = 14) \/ (SdXfer /\ drv.pc = 4 /\ drv.i = drv.n)
      /\ "xc" \in host.int /\ SdHostKept /\ host'.int = {} /\ SdGoes(drv.pc + 1) /\ ~SdPolls /\ Running
      /\ drv' \in SdDrvT /\ drv'.type = drv.type /\ drv'.ocr = drv.ocr
  <2>0. Running /\ Step \in {"read", "write"} /\ drv.i = Wanted /\ "xc" \in host.int /\ drv \in SdDrvT /\ host \in SdHostT /\ faults \in 0 .. MaxFaults
    BY <1>0 DEF TransferComplete, SdTypes
  <2>1. (drv.call = "enumerate" /\ drv.pc = 14) \/ (SdXfer /\ drv.pc = 4)
    BY <1>0, <2>0, SdWhere DEF SdXfer
  <2>2. host' = [host EXCEPT !.int = {}] /\ card' = card /\ media' = media /\ mem' = mem /\ faults' = faults /\ Goto(drv, drv.pc + 1)
    BY DEF TransferComplete, Next1
  <2>3. SdHostKept /\ host'.int = {}
    BY <2>0, <2>2 DEF SdHostKept, SdHostT
  <2>4. drv.pc < SdLast(drv.call) /\ drv.pc + 1 \in 1 .. 19 /\ ~(drv.call = "enumerate" /\ drv.pc = 4) /\ SdLast(drv.call) \in Nat /\ drv.pc \in Nat
    BY <2>1 DEF SdLast, SdXfer
  <2>5. SdGoes(drv.pc + 1) /\ drv' \in SdDrvT /\ drv'.type = drv.type /\ drv'.ocr = drv.ocr
    BY <1>0, <2>0, <2>2, <2>4, SdGoesOn
  <2> QED
    BY <2>0, <2>1, <2>3, <2>5 DEF Wanted, SdPolls, SdXfer
<1>2. SdXfer => SdDone
  BY <1>0, <1>1 DEF SdTransfers, SdPending, SdReading, SdWriting, SdRefused, SdXfer
<1>9. SdTypes'
  BY <1>0, <1>1 DEF SdTypes, SdHostKept
<1>10. SdInCall'
  BY <1>0, <1>1, SdFields DEF SdInCall, Running, SdXfer, SdLast, SdPolls, SdKeeps, SdHostKept, SdGoes
<1>11. SdEarly'
  BY <1>1 DEF SdEarly, SdGoes, SdXfer
<1>12. SdKnown'
  BY <1>0, <1>1 DEF SdKnown, SdMatch, SdGoes, SdXfer, SdHostKept
<1>13. SdData'
  BY <1>0, <1>1 DEF SdData, SdGoes, SdKeeps, SdHostKept
<1>14. SdAnnounced'
  BY <1>1 DEF SdAnnounced, SdGoes, SdXfer
<1>15. SdFresh'
  BY <1>0, <1>1 DEF SdFresh, SdGoes, SdXfer, SdHostKept, SdKeeps
<1>16. SdTransfers'
  BY <1>1 DEF SdTransfers, SdGoes, SdXfer
<1>17. SdEnded'
  <2>1. CASE SdXfer
    <3>1. (drv.call = "read" => SdReadDone') /\ (drv.call = "write" => SdWriteDone')
      BY <1>1, <1>2, <2>1 DEF SdDone, SdReadDone, SdWriteDone, SdGoes, SdKeeps, SdHostKept
    <3> QED
      BY <1>1, <2>1, <3>1 DEF SdEnded, SdGoes, SdXfer
  <2>2. CASE ~SdXfer
    BY <1>1, <2>2 DEF SdEnded, SdGoes
  <2> QED
    BY <2>1, <2>2
<1>18. SdErasing'
  BY <1>1 DEF SdErasing, SdGoes, SdXfer
<1>19. SdErrors'
  BY <1>0, <1>1 DEF SdErrors, SdGoes, SdXfer, SdKeeps, SdInCall
<1> QED
  BY <1>9, <1>10, <1>11, <1>12, <1>13, <1>14, <1>15, <1>16, <1>17, <1>18, <1>19 DEF SdInv

\* The card after a command.
LEMMA SdCardAfter ==
    ASSUME SdTypes, NEW c \in SdCommands, NEW arg \in Int, NEW up \in BOOLEAN, NEW k, k = CardAfter(c, arg, up)
    PROVE  /\ k \in SdCardT
           /\ k.kind = card.kind /\ k.app = (c = "CMD55")
           /\ k.st = (IF c = "CMD0" THEN "idle" ELSE IF c = "ACMD41" THEN (IF up THEN "ready" ELSE "idle") ELSE IF c = "CMD2" THEN "ident"
                ELSE IF c = "CMD3" THEN "stby" ELSE IF c = "CMD7" THEN "tran" ELSE IF c \in {"ACMD51", "CMD18"} THEN "data"
                ELSE IF c = "CMD25" THEN "rcv" ELSE IF c = "CMD38" THEN "prg" ELSE card.st)
           /\ c \notin {"CMD0", "CMD23", "ACMD51"} => k.count = card.count
           /\ c = "CMD23" => k.count = arg
           /\ c \in {"CMD18", "CMD25"} => k.at = BlockOf(arg)
           /\ c \notin {"CMD0", "ACMD51", "CMD18", "CMD25"} => k.at = card.at
           /\ c = "CMD32" => k.er[1] = BlockOf(arg) /\ k.er[2] = card.er[2]
           /\ c = "CMD33" => k.er[2] = BlockOf(arg) /\ k.er[1] = card.er[1]
           /\ c \notin {"CMD0", "CMD32", "CMD33"} => k.er = card.er
<1> DEFINE k0 == [card EXCEPT !.app = (c = "CMD55")]
<1>0. /\ card \in SdCardT /\ BlockOf(arg) \in Int /\ card.kind \in Cards /\ card.er \in [1 .. 2 -> Int] /\ (c = "CMD55") \in BOOLEAN
      /\ card.count \in Int /\ card.at \in Int /\ Scr \in Int /\ 1 \in Int /\ 0 \in Int
  BY DEF SdTypes, SdCardT, BlockOf, MMC_BLOCK_SIZE, Scr
<1>1. /\ k0 \in SdCardT /\ k0.kind = card.kind /\ k0.app = (c = "CMD55") /\ k0.st = card.st /\ k0.count = card.count /\ k0.at = card.at /\ k0.er = card.er
  BY <1>0 DEF SdCardT
<1>2. /\ c = "CMD0" => k = CardIdle(card.kind)
      /\ c = "ACMD41" => k = [k0 EXCEPT !.st = IF up THEN "ready" ELSE "idle"]
      /\ c = "CMD2" => k = [k0 EXCEPT !.st = "ident"]
      /\ c = "CMD3" => k = [k0 EXCEPT !.st = "stby"]
      /\ c = "CMD7" => k = [k0 EXCEPT !.st = "tran"]
      /\ c = "CMD23" => k = [k0 EXCEPT !.count = arg]
      /\ c = "ACMD51" => k = [k0 EXCEPT !.st = "data", !.count = 1, !.at = Scr]
      /\ c = "CMD18" => k = [k0 EXCEPT !.st = "data", !.at = BlockOf(arg)]
      /\ c = "CMD25" => k = [k0 EXCEPT !.st = "rcv", !.at = BlockOf(arg)]
      /\ c = "CMD32" => k = [k0 EXCEPT !.er = [@ EXCEPT ![1] = BlockOf(arg)]]
      /\ c = "CMD33" => k = [k0 EXCEPT !.er = [@ EXCEPT ![2] = BlockOf(arg)]]
      /\ c = "CMD38" => k = [k0 EXCEPT !.st = "prg"]
      /\ c \notin {"CMD0", "ACMD41", "CMD2", "CMD3", "CMD7", "CMD23", "ACMD51", "CMD18", "CMD25", "CMD32", "CMD33", "CMD38"} => k = k0
  BY DEF CardAfter
<1> HIDE DEF k0
<1>3. CASE c = "CMD0"
  <2>1. k = [kind |-> card.kind, st |-> "idle", app |-> FALSE, count |-> 0, at |-> 0, er |-> <<0, 0>>]
    BY <1>2, <1>3 DEF CardIdle
  <2>2. <<0, 0>> \in [1 .. 2 -> Int]
    OBVIOUS
  <2> QED
    <3>1. k \in SdCardT /\ k.kind = card.kind /\ k.app = FALSE /\ k.st = "idle"
      BY <1>0, <2>1, <2>2 DEF SdCardT
    <3>2. k.app = (c = "CMD55")
      BY <1>3, <3>1
    <3> QED
      BY <1>3, <3>1, <3>2
<1>4. CASE c = "ACMD41"
  <2>1. k \in SdCardT /\ k.app = (c = "CMD55") /\ k.kind = card.kind /\ k.st = (IF up THEN "ready" ELSE "idle") /\ k.count = card.count /\ k.at = card.at /\ k.er = card.er
    <3>1. k = [k0 EXCEPT !.st = IF up THEN "ready" ELSE "idle"]
      BY <1>2, <1>4
    <3> QED
      BY <1>0, <1>1, <1>4, <3>1 DEF SdCardT
  <2> QED
    BY <1>4, <2>1
<1>5. CASE c = "CMD2"
  <2>1. k \in SdCardT /\ k.app = (c = "CMD55") /\ k.kind = card.kind /\ k.st = "ident" /\ k.count = card.count /\ k.at = card.at /\ k.er = card.er
    <3>1. k = [k0 EXCEPT !.st = "ident"]
      BY <1>2, <1>5
    <3> QED
      BY <1>0, <1>1, <1>5, <3>1 DEF SdCardT
  <2> QED
    BY <1>5, <2>1
<1>6. CASE c = "CMD3"
  <2>1. k \in SdCardT /\ k.app = (c = "CMD55") /\ k.kind = card.kind /\ k.st = "stby" /\ k.count = card.count /\ k.at = card.at /\ k.er = card.er
    <3>1. k = [k0 EXCEPT !.st = "stby"]
      BY <1>2, <1>6
    <3> QED
      BY <1>0, <1>1, <1>6, <3>1 DEF SdCardT
  <2> QED
    BY <1>6, <2>1
<1>7. CASE c = "CMD7"
  <2>1. k \in SdCardT /\ k.app = (c = "CMD55") /\ k.kind = card.kind /\ k.st = "tran" /\ k.count = card.count /\ k.at = card.at /\ k.er = card.er
    <3>1. k = [k0 EXCEPT !.st = "tran"]
      BY <1>2, <1>7
    <3> QED
      BY <1>0, <1>1, <1>7, <3>1 DEF SdCardT
  <2> QED
    BY <1>7, <2>1
<1>8. CASE c = "CMD23"
  <2>1. k \in SdCardT /\ k.app = (c = "CMD55") /\ k.kind = card.kind /\ k.st = card.st /\ k.count = arg /\ k.at = card.at /\ k.er = card.er
    <3>1. k = [k0 EXCEPT !.count = arg]
      BY <1>2, <1>8
    <3> QED
      BY <1>0, <1>1, <1>8, <3>1 DEF SdCardT
  <2> QED
    BY <1>8, <2>1
<1>9. CASE c = "ACMD51"
  <2>1. k \in SdCardT /\ k.app = (c = "CMD55") /\ k.kind = card.kind /\ k.st = "data" /\ k.count = 1 /\ k.at = Scr /\ k.er = card.er
    <3>1. k = [k0 EXCEPT !.st = "data", !.count = 1, !.at = Scr]
      BY <1>2, <1>9
    <3> QED
      BY <1>0, <1>1, <1>9, <3>1 DEF SdCardT
  <2> QED
    BY <1>9, <2>1
<1>10. CASE c = "CMD18"
  <2>1. k \in SdCardT /\ k.app = (c = "CMD55") /\ k.kind = card.kind /\ k.st = "data" /\ k.count = card.count /\ k.at = BlockOf(arg) /\ k.er = card.er
    <3>1. k = [k0 EXCEPT !.st = "data", !.at = BlockOf(arg)]
      BY <1>2, <1>10
    <3> QED
      BY <1>0, <1>1, <1>10, <3>1 DEF SdCardT
  <2> QED
    BY <1>10, <2>1
<1>11. CASE c = "CMD25"
  <2>1. k \in SdCardT /\ k.app = (c = "CMD55") /\ k.kind = card.kind /\ k.st = "rcv" /\ k.count = card.count /\ k.at = BlockOf(arg) /\ k.er = card.er
    <3>1. k = [k0 EXCEPT !.st = "rcv", !.at = BlockOf(arg)]
      BY <1>2, <1>11
    <3> QED
      BY <1>0, <1>1, <1>11, <3>1 DEF SdCardT
  <2> QED
    BY <1>11, <2>1
<1>12. CASE c = "CMD38"
  <2>1. k \in SdCardT /\ k.app = (c = "CMD55") /\ k.kind = card.kind /\ k.st = "prg" /\ k.count = card.count /\ k.at = card.at /\ k.er = card.er
    <3>1. k = [k0 EXCEPT !.st = "prg"]
      BY <1>2, <1>12
    <3> QED
      BY <1>0, <1>1, <1>12, <3>1 DEF SdCardT
  <2> QED
    BY <1>12, <2>1
<1>13. CASE c = "CMD32"
  <2> DEFINE e == [card.er EXCEPT ![1] = BlockOf(arg)]
  <2>1. k = [k0 EXCEPT !.er = e]
    BY <1>1, <1>2, <1>13 DEF SdCardT
  <2>2. e \in [1 .. 2 -> Int] /\ e[1] = BlockOf(arg) /\ e[2] = card.er[2]
    BY <1>0
  <2> HIDE DEF e
  <2>3. k \in SdCardT /\ k.app = (c = "CMD55") /\ k.kind = card.kind /\ k.st = card.st /\ k.count = card.count /\ k.at = card.at /\ k.er = e
    BY <1>0, <1>1, <2>1, <2>2 DEF SdCardT
  <2> QED
    BY <1>13, <2>2, <2>3
<1>14. CASE c = "CMD33"
  <2> DEFINE e == [card.er EXCEPT ![2] = BlockOf(arg)]
  <2>1. k = [k0 EXCEPT !.er = e]
    BY <1>1, <1>2, <1>14 DEF SdCardT
  <2>2. e \in [1 .. 2 -> Int] /\ e[2] = BlockOf(arg) /\ e[1] = card.er[1]
    BY <1>0
  <2> HIDE DEF e
  <2>3. k \in SdCardT /\ k.app = (c = "CMD55") /\ k.kind = card.kind /\ k.st = card.st /\ k.count = card.count /\ k.at = card.at /\ k.er = e
    BY <1>0, <1>1, <2>1, <2>2 DEF SdCardT
  <2> QED
    BY <1>14, <2>2, <2>3
<1>15. CASE c \notin {"CMD0", "ACMD41", "CMD2", "CMD3", "CMD7", "CMD23", "ACMD51", "CMD18", "CMD25", "CMD32", "CMD33", "CMD38"}
  BY <1>0, <1>1, <1>2, <1>15 DEF SdCardT
<1> QED
  BY <1>3, <1>4, <1>5, <1>6, <1>7, <1>8, <1>9, <1>10, <1>11, <1>12, <1>13, <1>14, <1>15

\* The controller has an answer, or a damaged one.
SdHears(up) ==
      \/ /\ host'.err = host.err /\ host'.int = host.int \cup {"cc"} /\ host'.resp.cmd = host.cmd /\ host'.resp.ok = up
         /\ host'.dat = (IF host.cmd \in {"CMD18", "ACMD51"} THEN "read" ELSE IF host.cmd = "CMD25" THEN "write" ELSE host.dat)
         /\ host'.left = (IF host.cmd \in {"CMD18", "CMD25", "ACMD51"} THEN host.count ELSE host.left)
      \/ /\ host'.err /\ host'.int = host.int /\ host'.resp = host.resp /\ host'.dat = host.dat /\ host'.left = host.left /\ up

\* The card obeys a command.
LEMMA SdObeyed ==
    ASSUME SdInv, NEW up \in BOOLEAN, host.cmd # "none", Obeys(host.cmd), card' = CardAfter(host.cmd, host.arg, up), drv' = drv, mem' = mem,
           host' \in SdHostT, media' \in [Blocks -> Int \ {None}], media' = media \/ host.cmd = "CMD38", faults' \in 0 .. MaxFaults,
           host'.cmd = "none" /\ host'.arg = host.arg /\ host'.count = host.count /\ host'.buf = host.buf /\ host'.open = host.open, SdHears(up)
    PROVE  SdInv'
<1>0. SdTypes /\ SdInCall /\ SdEarly /\ SdKnown /\ SdData /\ SdAnnounced /\ SdFresh /\ SdTransfers /\ SdEnded /\ SdErasing /\ SdErrors
  BY DEF SdInv
<1> DEFINE c == host.cmd
           arg == host.arg
<1>1. /\ drv' = drv /\ mem' = mem /\ (media' = media \/ host.cmd = "CMD38") /\ host.cmd # "none" /\ card' \in SdCardT
      /\ host'.cmd = "none" /\ host'.arg = host.arg /\ host'.count = host.count /\ host'.buf = host.buf /\ host'.open = host.open
      /\ SdHears(up) /\ host.dat = "idle" /\ host.buf = None /\ ~host.open
      /\ card'.kind = card.kind /\ card'.app = (c = "CMD55")
      /\ card'.st = (IF c = "CMD0" THEN "idle" ELSE IF c = "ACMD41" THEN (IF up THEN "ready" ELSE "idle") ELSE IF c = "CMD2" THEN "ident"
                ELSE IF c = "CMD3" THEN "stby" ELSE IF c = "CMD7" THEN "tran" ELSE IF c \in {"ACMD51", "CMD18"} THEN "data"
                ELSE IF c = "CMD25" THEN "rcv" ELSE IF c = "CMD38" THEN "prg" ELSE card.st)
      /\ c \notin {"CMD0", "CMD23", "ACMD51"} => card'.count = card.count
      /\ c = "CMD23" => card'.count = arg
      /\ c \in {"CMD18", "CMD25"} => card'.at = BlockOf(arg)
      /\ c \notin {"CMD0", "ACMD51", "CMD18", "CMD25"} => card'.at = card.at
      /\ c = "CMD32" => card'.er[1] = BlockOf(arg) /\ card'.er[2] = card.er[2]
      /\ c = "CMD33" => card'.er[2] = BlockOf(arg) /\ card'.er[1] = card.er[1]
      /\ c \notin {"CMD0", "CMD32", "CMD33"} => card'.er = card.er
  <2>1. host.dat = "idle" /\ host.buf = None /\ ~host.open
    <3>1. c = "ACMD51" => card.app
      BY DEF Obeys
    <3>2. host.dat = "idle"
      BY <1>0, <3>1 DEF SdData
    <3> QED
      BY <1>0, <3>2 DEF SdData
  <2>2. c \in SdCommands /\ arg \in Int
    BY <1>0, SdFields
  <2> HIDE DEF c, arg
  <2>3. card' = CardAfter(c, arg, up)
    BY DEF c, arg
  <2> QED
    BY <1>0, <2>1, <2>2, <2>3, SdCardAfter DEF c, arg
<1>2. /\ host.cmd \in {"ACMD51", "CMD18", "CMD25", "CMD32", "CMD33", "CMD38", "CMD23"} => card.st = "tran"
      /\ host.cmd = "CMD2" => card.st = "ready"
      /\ host.cmd \in {"CMD8", "ACMD41"} => card.st = "idle"
  BY DEF Obeys
<1> HIDE DEF c, arg
<1>3. (host.err => host'.err) /\ ("xc" \notin host.int => "xc" \notin host'.int)
  BY <1>1 DEF SdHears
<1>4. host.cmd \notin {"CMD18", "CMD25", "ACMD51"} => host'.dat = "idle" /\ host'.left = host.left
  BY <1>1 DEF SdHears
<1>5. drv.i \in Nat /\ drv.n \in Nat /\ drv.lba \in Nat /\ drv.pc \in 1 .. 18 /\ mem \in Seq(Int) /\ host.count \in Int
  <2>1. NBlocks \in Nat /\ drv.i \in Nat /\ drv.n \in 0 .. NBlocks /\ drv.lba \in Nat /\ drv.pc \in 1 .. 18 /\ host.count \in 0 .. NBlocks
    BY <1>0, SdFields
  <2>2. mem \in Seq(Int)
    BY <1>0 DEF SdTypes
  <2> QED
    BY <2>1, <2>2
<1>9. SdTypes'
  BY <1>0, <1>1 DEF SdTypes
<1>10. SdInCall'
  BY <1>0, <1>1, SdFields DEF SdInCall, Running, SdXfer, SdLast, SdPolls, SdKeeps
<1>11. SdEarly'
  <2>1. SUFFICES ASSUME drv.call = "enumerate", drv.pc <= 6 PROVE SdEarly'
    BY <1>1 DEF SdEarly
  <2>2. drv.sent /\ c = SdEarlyStep /\ c = host.cmd
    BY <1>0, <1>1, <2>1 DEF SdEarly, c
  <2>3. drv.pc \in 2 .. 6
    <3>1. drv.pc # 1
      BY <1>0, <2>1, <2>2 DEF SdInCall
    <3>2. drv.pc \in 1 .. 18 /\ drv.pc <= 6
      BY <1>5, <2>1
    <3> QED
      BY <3>1, <3>2
  <2>4. CASE drv.pc \in {2, 3, 4}
    BY <1>0, <1>1, <1>4, <2>1, <2>2, <2>4 DEF SdEarly, SdEarlyStep, SdHears
  <2>5. CASE drv.pc = 5
    BY <1>0, <1>1, <1>2, <1>4, <2>1, <2>2, <2>5 DEF SdEarly, SdEarlyStep, SdHears
  <2>6. CASE drv.pc = 6
    <3>1. c = "CMD2" /\ SdMatch
      BY <1>0, <1>2, <2>1, <2>2, <2>6 DEF SdEarly, SdEarlyStep
    <3>2. SdMatch'
      BY <1>1, <3>1 DEF SdMatch
    <3> QED
      BY <1>0, <1>1, <1>4, <2>1, <2>2, <2>6, <3>1, <3>2 DEF SdEarly, SdEarlyStep, SdHears
  <2> QED
    BY <2>3, <2>4, <2>5, <2>6
<1>12. SdKnown'
  BY <1>0, <1>1, SdFields DEF SdKnown, SdMatch, SdEarly, SdEarlyStep, SdInCall, Running, SdXfer, SdLast, SdPolls, SdKeeps
<1>13. SdData'
  BY <1>1, <1>4 DEF SdData, c
<1>14. SdAnnounced'
  <2>1. SUFFICES ASSUME SdXfer, (drv.pc = 2 /\ drv.sent) \/ (drv.pc = 3 /\ ~drv.sent) PROVE SdAnnounced'
    BY <1>1 DEF SdAnnounced, SdXfer
  <2>2. host.cmd = "CMD23" /\ host.arg = drv.n
    BY <1>0, <1>1, <2>1 DEF SdAnnounced
  <2>3. card'.st = "tran" /\ card'.count = drv.n /\ host'.dat = "idle" /\ host'.cmd = "none"
    BY <1>1, <1>2, <1>4, <2>2 DEF c, arg
  <2> QED
    BY <1>1, <2>3 DEF SdAnnounced, SdExpects
<1>15. SdFresh'
  BY <1>0, <1>1, <1>3 DEF SdFresh, SdXfer
<1>16. SdTransfers'
  <2>1. SUFFICES ASSUME SdXfer, (drv.pc = 3 /\ drv.sent) \/ drv.pc = 4 PROVE SdTransfers'
    BY <1>1 DEF SdTransfers, SdXfer
  <2>2. drv'.i <= drv'.n /\ (SdPending \/ SdDone) /\ host.count = drv.n /\ SdMatch
    BY <1>0, <1>1, <2>1 DEF SdTransfers, SdReading, SdWriting, SdRefused, SdFresh, SdKnown, SdXfer
  <2>3. CASE SdPending
    <3>1. host.err \/ card.count = drv.n
      BY <2>3 DEF SdPending, SdExpects
    <3>2. CASE host'.dat = "idle"
      <4>1. SdRefused'
        BY <1>1, <1>3, <1>5, <2>1, <2>3, <3>2 DEF SdPending, SdRefused, SdHears, SdXfer
      <4> QED
        BY <2>2, <4>1 DEF SdTransfers
    <3>3. CASE host'.dat # "idle" /\ drv.call = "read"
      <4>1. c = "CMD18" /\ arg = ReadArg /\ drv.i = 0 /\ mem = <<>> /\ "xc" \notin host.int
        BY <2>3, <3>3 DEF SdPending, c, arg
      <4>2. BlockOf(arg) = drv.lba
        BY <1>5, <2>2, <4>1 DEF BlockOf, ReadArg, SdMatch, MMC_BLOCK_SIZE
      <4>3. host'.dat = "read" /\ host'.left = drv.n /\ host'.buf = None /\ host'.err = host.err
        BY <1>1, <2>2, <3>3, <4>1 DEF SdHears, c
      <4>4. SdMoved' = 0 /\ SdBuffer' = 0
        BY <1>1, <1>5, <4>3 DEF SdMoved, SdBuffer
      <4>5. card'.at = drv.lba /\ card'.st = "data" /\ card'.count = card.count
        BY <1>1, <4>1, <4>2
      <4>6. SdCopied(mem', media', drv'.lba, 0)
        BY DEF SdCopied
      <4>7. Len(mem') = 0
        BY <1>1, <4>1
      <4>8. SdReading'
        BY <1>1, <1>3, <1>5, <3>1, <3>3, <4>1, <4>3, <4>4, <4>5, <4>6, <4>7 DEF SdReading
      <4> QED
        BY <2>2, <4>8 DEF SdTransfers
    <3>4. CASE host'.dat # "idle" /\ drv.call = "write"
      <4>1. c = "CMD25" /\ arg = WriteArg /\ "xc" \notin host.int
        BY <2>3, <3>4 DEF SdPending, c, arg
      <4>2. BlockOf(arg) = drv.lba
        BY <1>5, <2>2, <4>1 DEF BlockOf, WriteArg, SdMatch, MMC_BLOCK_SIZE
      <4>3. host'.dat = "write" /\ host'.left = drv.n /\ host'.buf = None
        BY <1>1, <2>2, <3>4, <4>1 DEF SdHears, c
      <4>4. SdMoved' = 0 /\ SdBuffer' = 0
        BY <1>1, <1>5, <4>3 DEF SdMoved, SdBuffer
      <4>5. card'.at = drv.lba
        BY <1>1, <4>1, <4>2
      <4>6. SdLanded(media', drv'.lba, 0)
        BY DEF SdLanded
      <4>8. SdWriting'
        BY <1>1, <1>3, <1>5, <3>4, <4>1, <4>3, <4>4, <4>5, <4>6 DEF SdWriting
      <4> QED
        BY <2>2, <4>8 DEF SdTransfers
    <3> QED
      BY <2>1, <3>2, <3>3, <3>4 DEF SdXfer
  <2>4. CASE SdDone
    <3>1. host.cmd = "CMD13"
      BY <1>1, <2>1, <2>4 DEF SdDone, SdReadDone, SdWriteDone, SdXfer
    <3>2. SdDone'
      BY <1>1, <1>3, <1>4, <2>4, <3>1 DEF SdDone, SdReadDone, SdWriteDone
    <3> QED
      BY <2>2, <3>2 DEF SdTransfers
  <2> QED
    BY <2>2, <2>3, <2>4
<1>17. SdEnded'
  <2>1. SdReadDone => SdReadDone'
    BY <1>1, <1>3, <1>4 DEF SdReadDone
  <2>2. SdWriteDone => SdWriteDone'
    BY <1>1, <1>3, <1>4 DEF SdWriteDone
  <2>3. host.cmd \in {"none", "CMD13"} => host'.cmd = "none" /\ host'.dat = "idle" /\ media' = media
    BY <1>1, <1>4
  <2> QED
    BY <1>0, <1>1, <2>1, <2>2, <2>3 DEF SdEnded
<1>18. SdErasing'
  <2>1. SUFFICES ASSUME drv.call = "erase" PROVE SdErasing'
    BY <1>1 DEF SdErasing
  <2>2. drv.type = "hc" <=> card.kind.hc
    BY <1>0, <2>1 DEF SdKnown, SdMatch
  <2>3. CASE (drv.pc = 1 /\ drv.sent) \/ (drv.pc = 2 /\ ~drv.sent)
    <3>1. host.cmd = "CMD32" /\ host.arg = drv.lba
      BY <1>0, <1>1, <2>1, <2>3 DEF SdErasing
    <3>2. card'.kind.hc => card'.er[1] = drv.lba
      BY <1>1, <3>1 DEF BlockOf, c, arg
    <3>3. card'.st = "tran"
      BY <1>1, <1>2, <3>1 DEF c
    <3> QED
      BY <1>1, <2>3, <3>2, <3>3 DEF SdErasing, SdErStart
  <2>4. CASE (drv.pc = 2 /\ drv.sent) \/ (drv.pc = 3 /\ ~drv.sent)
    <3>1. host.cmd \in {"CMD33", "none"} /\ host.arg = drv.lba + drv.n - 1 /\ ((host.err /\ drv.pc = 2) \/ SdErStart)
      BY <1>0, <1>1, <2>1, <2>4 DEF SdErasing
    <3>2. (card'.kind.hc => card'.er[2] = drv.lba + drv.n - 1) /\ card'.er[1] = card.er[1] /\ card'.kind = card.kind
      BY <1>1, <3>1 DEF BlockOf, c, arg
    <3>3. card'.st = "tran"
      BY <1>1, <1>2, <3>1 DEF c
    <3> QED
      BY <1>1, <1>3, <2>4, <3>1, <3>2, <3>3 DEF SdErasing, SdErStart, SdErEnd
  <2>5. CASE ~((drv.pc = 1 /\ drv.sent) \/ (drv.pc = 2 /\ ~drv.sent)) /\ ~((drv.pc = 2 /\ drv.sent) \/ (drv.pc = 3 /\ ~drv.sent))
    BY <1>1, <2>5 DEF SdErasing
  <2> QED
    BY <2>3, <2>4, <2>5
<1>19. SdErrors'
  BY <1>0, <1>1, <1>3 DEF SdErrors, SdXfer
<1> QED
  BY <1>9, <1>10, <1>11, <1>12, <1>13, <1>14, <1>15, <1>16, <1>17, <1>18, <1>19 DEF SdInv

\* The card stays silent: the command ends in an error.
LEMMA SdNotObeyed ==
    ASSUME SdInv, host.cmd # "none", ~Obeys(host.cmd), card' = card, media' = media, drv' = drv, mem' = mem, faults' \in 0 .. MaxFaults,
           host' = [host EXCEPT !.cmd = "none", !.err = TRUE]
    PROVE  SdInv'
<1>0. SdTypes /\ SdInCall /\ SdEarly /\ SdKnown /\ SdData /\ SdAnnounced /\ SdFresh /\ SdTransfers /\ SdEnded /\ SdErasing /\ SdErrors
  BY DEF SdInv
<1>1. /\ host.cmd # "none" /\ ~Obeys(host.cmd) /\ card' = card /\ media' = media /\ drv' = drv /\ mem' = mem /\ faults' \in 0 .. MaxFaults
      /\ host'.cmd = "none" /\ host'.err = TRUE /\ host'.arg = host.arg /\ host'.dat = host.dat /\ host'.count = host.count /\ host'.left = host.left
      /\ host'.buf = host.buf /\ host'.open = host.open /\ host'.int = host.int /\ host'.resp = host.resp /\ host' \in SdHostT
  <2>1. host \in SdHostT
    BY <1>0 DEF SdTypes
  <2> QED
    BY <2>1 DEF SdHostT
<1>2. host.cmd = "CMD33" => card.st # "tran"
  BY <1>1 DEF Obeys, Addressed
<1>3. drv.i \in Nat /\ drv.n \in Nat /\ drv.lba \in Nat /\ drv.pc \in 1 .. 18 /\ mem \in Seq(Int) /\ host.left \in Nat /\ host.buf \in Int
  <2>1. NBlocks \in Nat /\ drv.i \in Nat /\ drv.n \in 0 .. NBlocks /\ drv.lba \in Nat /\ drv.pc \in 1 .. 18 /\ host.left \in 0 .. NBlocks /\ host.buf \in Int
    BY <1>0, SdFields
  <2>2. mem \in Seq(Int)
    BY <1>0 DEF SdTypes
  <2> QED
    BY <2>1, <2>2
<1>9. SdTypes'
  BY <1>0, <1>1 DEF SdTypes
<1>10. SdInCall'
  BY <1>0, <1>1, SdFields DEF SdInCall, Running, SdXfer, SdLast, SdPolls, SdKeeps
<1>11. SdEarly'
  BY <1>0, <1>1, SdFields DEF SdEarly, SdEarlyStep, SdMatch, SdInCall, Running, SdXfer, SdLast, SdPolls, SdKnown, SdData, SdKeeps
<1>12. SdKnown'
  BY <1>0, <1>1, SdFields DEF SdKnown, SdMatch, SdEarly, SdEarlyStep, SdInCall, Running, SdXfer, SdLast, SdPolls, SdKeeps
<1>13. SdData'
  BY <1>0, <1>1, SdFields DEF SdData, SdInCall, Running, SdXfer, SdLast, SdPolls, SdKeeps
<1>14. SdAnnounced'
  BY <1>0, <1>1, SdFields DEF SdAnnounced, SdExpects, SdXfer, SdInCall, Running, SdLast, SdPolls, SdFresh, SdKnown, SdMatch, SdData, SdKeeps
<1>15. SdFresh'
  BY <1>0, <1>1, SdFields DEF SdFresh, SdXfer, SdInCall, Running, SdLast, SdPolls, SdData, SdAnnounced, SdExpects, SdKeeps
<1>16. SdTransfers'
  <2>1. SUFFICES ASSUME SdXfer, (drv.pc = 3 /\ drv.sent) \/ drv.pc = 4 PROVE SdTransfers'
    BY <1>1 DEF SdTransfers, SdXfer
  <2>2. drv'.i <= drv'.n /\ (SdPending \/ SdDone)
    BY <1>0, <1>1, <2>1 DEF SdTransfers, SdReading, SdWriting, SdRefused
  <2>3. CASE SdPending
    <3>1. host.dat = "idle"
      BY <1>0, <2>1, <2>3 DEF SdPending, SdData, SdXfer
    <3>2. SdRefused'
      BY <1>1, <1>3, <2>3, <3>1 DEF SdPending, SdRefused
    <3> QED
      BY <2>2, <3>2 DEF SdTransfers
  <2>4. CASE SdDone
    <3>1. SdDone'
      BY <1>1, <2>4 DEF SdDone, SdReadDone, SdWriteDone
    <3> QED
      BY <2>2, <3>1 DEF SdTransfers
  <2> QED
    BY <2>2, <2>3, <2>4
<1>17. SdEnded'
  BY <1>0, <1>1 DEF SdEnded, SdReadDone, SdWriteDone
<1>18. SdErasing'
  BY <1>0, <1>1, <1>2 DEF SdErasing, SdErStart, SdErEnd
<1>19. SdErrors'
  BY <1>0, <1>1, SdFields DEF SdErrors, SdXfer, SdInCall, Running, SdLast, SdPolls, SdKeeps
<1> QED
  BY <1>9, <1>10, <1>11, <1>12, <1>13, <1>14, <1>15, <1>16, <1>17, <1>18, <1>19 DEF SdInv

\* A block comes from the card.
LEMMA SdBlockIn ==
    ASSUME SdInv, NEW good \in BOOLEAN, BlockIn(good)
    PROVE  SdInv'
<1>0. SdTypes /\ SdInCall /\ SdEarly /\ SdKnown /\ SdData /\ SdAnnounced /\ SdFresh /\ SdTransfers /\ SdEnded /\ SdErasing /\ SdErrors
  BY DEF SdInv
<1>1. /\ drv' = drv /\ host'.cmd = host.cmd /\ host'.arg = host.arg /\ host'.count = host.count /\ host'.resp = host.resp /\ host' \in SdHostT
      /\ host.dat = "read" /\ host'.dat = "read" /\ host.left > 0 /\ host'.left = host.left - 1 /\ host.buf = None /\ host'.buf \in Int \ {None}
      /\ host'.open = host.open /\ host'.int = host.int \cup {"rd"} /\ (host.err => host'.err)
      /\ ~host'.err => host'.buf = (IF card.at = Scr THEN Scr ELSE IF card.at \in Blocks THEN media[card.at] ELSE Damaged)
      /\ card.st = "data" /\ card'.kind = card.kind /\ card'.app = card.app /\ card'.count = card.count - 1
      /\ card'.at = (IF card.at = Scr THEN Scr ELSE card.at + 1) /\ card'.st = (IF card.count = 1 THEN "tran" ELSE "data")
      /\ card'.er = card.er /\ card' \in SdCardT /\ media' = media /\ mem' = mem /\ faults' \in 0 .. MaxFaults
  <2>0. host \in SdHostT /\ card \in SdCardT /\ media \in [Blocks -> Int \ {None}] /\ faults \in 0 .. MaxFaults /\ MaxFaults \in Nat
        /\ host.left \in 0 .. NBlocks /\ host.left > 0 /\ host.buf = None /\ host.dat = "read" /\ card.st = "data" /\ NBlocks \in Nat
        /\ card.at \in Int /\ card.count \in Int /\ host.err \in BOOLEAN
    BY <1>0, SdFields, SdAssumption DEF SdTypes, BlockIn
  <2> DEFINE b == IF ~good THEN Damaged ELSE IF card.at = Scr THEN Scr ELSE IF card.at \in Blocks THEN media[card.at] ELSE Damaged
             e == host.err \/ ~good
             a == IF card.at = Scr THEN Scr ELSE card.at + 1
             s == IF card.count = 1 THEN "tran" ELSE "data"
  <2>1. b \in Int \ {None} /\ e \in BOOLEAN /\ a \in Int /\ s \in {"tran", "data"} /\ host.left - 1 \in 0 .. NBlocks
    BY <2>0 DEF Damaged, Scr, None
  <2>2. host' = [host EXCEPT !.left = host.left - 1, !.int = host.int \cup {"rd"}, !.err = e, !.buf = b]
    BY <2>0 DEF BlockIn, SdHostT
  <2>3. card' = [card EXCEPT !.count = card.count - 1, !.at = a, !.st = s]
    BY <2>0 DEF BlockIn, SdCardT
  <2>4. (~e => good) /\ (host.err => e)
    OBVIOUS
  <2>5. ~e => b = (IF card.at = Scr THEN Scr ELSE IF card.at \in Blocks THEN media[card.at] ELSE Damaged)
    OBVIOUS
  <2>6. host.int \cup {"rd"} \in SUBSET {"cc", "rd", "wr", "xc"}
    BY <2>0 DEF SdHostT
  <2>7. a = (IF card.at = Scr THEN Scr ELSE card.at + 1) /\ s = (IF card.count = 1 THEN "tran" ELSE "data")
    OBVIOUS
  <2> HIDE DEF b, e, a, s
  <2>8. /\ host' \in SdHostT /\ host'.cmd = host.cmd /\ host'.arg = host.arg /\ host'.count = host.count /\ host'.resp = host.resp
        /\ host'.dat = host.dat /\ host'.left = host.left - 1 /\ host'.buf = b /\ host'.open = host.open /\ host'.int = host.int \cup {"rd"} /\ host'.err = e
    BY <2>0, <2>1, <2>2, <2>6 DEF SdHostT
  <2>9. /\ card' \in SdCardT /\ card'.kind = card.kind /\ card'.app = card.app /\ card'.count = card.count - 1 /\ card'.at = a /\ card'.st = s /\ card'.er = card.er
    <3>1. card.count - 1 \in Int /\ s \in {"idle", "ready", "ident", "stby", "tran", "data", "rcv", "prg"}
      BY <2>0, <2>1
    <3> QED
      BY <2>0, <2>1, <2>3, <3>1 DEF SdCardT
  <2>10. drv' = drv /\ media' = media /\ mem' = mem /\ faults' \in 0 .. MaxFaults
    BY <2>0 DEF BlockIn
  <2> QED
    BY <2>0, <2>1, <2>4, <2>5, <2>7, <2>8, <2>9, <2>10
<1>2. /\ drv.call # "off" /\ ~(drv.call = "enumerate" /\ drv.pc <= 6) /\ host.cmd \in {"none", "ACMD51"} /\ card.app = FALSE
      /\ ~(SdXfer /\ ((drv.pc = 2 /\ drv.sent) \/ (drv.pc = 3 /\ ~drv.sent)))
  <2>1. card.app \in BOOLEAN
    BY <1>0, SdFields
  <2> QED
    BY <1>0, <1>1, <2>1 DEF SdKnown, SdEarly, SdData, SdAnnounced
<1>3. drv.i \in Nat /\ drv.n \in Nat /\ drv.lba \in Nat /\ drv.pc \in 1 .. 18 /\ mem \in Seq(Int) /\ host.left \in Nat /\ host.buf \in Int
  <2>1. NBlocks \in Nat /\ drv.i \in Nat /\ drv.n \in 0 .. NBlocks /\ drv.lba \in Nat /\ drv.pc \in 1 .. 18 /\ host.left \in 0 .. NBlocks /\ host.buf \in Int
    BY <1>0, SdFields
  <2>2. mem \in Seq(Int)
    BY <1>0 DEF SdTypes
  <2> QED
    BY <2>1, <2>2
<1>9. SdTypes'
  BY <1>0, <1>1 DEF SdTypes
<1>10. SdInCall'
  BY <1>0, <1>1, SdFields DEF SdInCall, Running, SdXfer, SdLast, SdPolls, SdKeeps
<1>11. SdEarly'
  BY <1>1, <1>2 DEF SdEarly
<1>12. SdKnown'
  BY <1>0, <1>1, <1>2 DEF SdKnown, SdMatch
<1>13. SdData'
  BY <1>0, <1>1, <1>2 DEF SdData
<1>14. SdAnnounced'
  BY <1>1, <1>2 DEF SdAnnounced, SdXfer
<1>15. SdFresh'
  BY <1>0, <1>1, SdFields DEF SdFresh, SdXfer, SdInCall, Running, SdLast, SdPolls, SdData, SdAnnounced, SdExpects, SdKeeps
<1>16. SdTransfers'
  <2>1. SUFFICES ASSUME SdXfer, (drv.pc = 3 /\ drv.sent) \/ drv.pc = 4 PROVE SdTransfers'
    BY <1>1 DEF SdTransfers, SdXfer
  <2>2. drv'.i <= drv'.n /\ SdReading
    BY <1>0, <1>1, <1>2, <2>1 DEF SdTransfers, SdPending, SdWriting, SdRefused, SdDone, SdReadDone, SdWriteDone, SdXfer
  <2>3. SdBuffer = 0 /\ SdBuffer' = 1 /\ SdMoved' = SdMoved + 1 /\ SdMoved = drv.i /\ SdMoved + host.left = drv.n
    BY <1>1, <1>3, <2>2 DEF SdBuffer, SdMoved, SdReading
  <2>4. ASSUME ~host'.err PROVE /\ card'.at = drv.lba + SdMoved' /\ card'.count = host'.left /\ (host'.left > 0 => card'.st = "data")
                                /\ host'.buf = media[drv.lba + drv.i] /\ SdCopied(mem, media, drv.lba, drv.i)
    <3>1. card.at = drv.lba + drv.i /\ card.count = host.left /\ SdCopied(mem, media, drv.lba, drv.i)
      BY <1>1, <2>2, <2>3, <2>4 DEF SdReading
    <3>2. drv.n > 0 /\ drv.lba + drv.n <= NBlocks /\ NBlocks \in Nat
      BY <1>0, <2>1, SdFields DEF SdInCall, SdXfer
    <3>3. card.at \in Blocks /\ card.at # Scr
      <4>1. drv.i < drv.n
        BY <1>1, <1>3, <2>3
      <4>2. drv.lba + drv.i \in 0 .. NBlocks - 1
        BY <1>3, <3>2, <4>1
      <4> QED
        BY <3>1, <4>2 DEF Blocks, Scr
    <3>4. host'.buf = media[card.at] /\ card'.at = card.at + 1
      BY <1>1, <2>4, <3>3
    <3>5. card'.count = host'.left /\ (host'.left > 0 => card'.st = "data")
      BY <1>1, <1>3, <3>1
    <3>6. card'.at = drv.lba + SdMoved'
      BY <1>3, <2>3, <3>1, <3>4
    <3> QED
      BY <3>1, <3>4, <3>5, <3>6
  <2>5. SdReading'
    BY <1>1, <1>3, <2>2, <2>3, <2>4 DEF SdReading
  <2> QED
    BY <2>2, <2>5 DEF SdTransfers
<1>17. SdEnded'
  BY <1>0, <1>1 DEF SdEnded, SdReadDone, SdWriteDone
<1>18. SdErasing'
  BY <1>0, <1>1, <1>2 DEF SdErasing, SdErStart, SdErEnd
<1>19. SdErrors'
  BY <1>0, <1>1, SdFields DEF SdErrors, SdXfer, SdInCall, Running, SdLast, SdPolls, SdKeeps
<1> QED
  BY <1>9, <1>10, <1>11, <1>12, <1>13, <1>14, <1>15, <1>16, <1>17, <1>18, <1>19 DEF SdInv

\* The buffer is open.
LEMMA SdOpens ==
    ASSUME SdInv, BufferOpen
    PROVE  SdInv'
<1>0. SdTypes /\ SdInCall /\ SdEarly /\ SdKnown /\ SdData /\ SdAnnounced /\ SdFresh /\ SdTransfers /\ SdEnded /\ SdErasing /\ SdErrors
  BY DEF SdInv
<1>1. /\ drv' = drv /\ host'.cmd = host.cmd /\ host'.arg = host.arg /\ host'.count = host.count /\ host'.resp = host.resp /\ host' \in SdHostT
      /\ host.dat = "write" /\ host'.dat = "write" /\ host.left > 0 /\ host'.left = host.left /\ host.buf = None /\ host'.buf = None
      /\ host'.open = TRUE /\ host'.int = host.int \cup {"wr"} /\ host'.err = host.err /\ card' = card /\ media' = media /\ mem' = mem /\ faults' = faults
  <2>0. host \in SdHostT
    BY <1>0 DEF SdTypes
  <2>1. host' = [host EXCEPT !.open = TRUE, !.int = host.int \cup {"wr"}] /\ host.dat = "write" /\ host.left > 0 /\ host.buf = None
        /\ card' = card /\ media' = media /\ mem' = mem /\ faults' = faults /\ drv' = drv
    BY <2>0 DEF BufferOpen, SdHostT
  <2>2. host.int \cup {"wr"} \in SUBSET {"cc", "rd", "wr", "xc"}
    BY <2>0 DEF SdHostT
  <2> QED
    BY <2>0, <2>1, <2>2 DEF SdHostT
<1>2. /\ drv.call # "off" /\ ~(drv.call = "enumerate" /\ drv.pc <= 6) /\ host.cmd \in {"none", "ACMD51"} /\ card.app = FALSE
      /\ ~(SdXfer /\ ((drv.pc = 2 /\ drv.sent) \/ (drv.pc = 3 /\ ~drv.sent)))
  <2>1. card.app \in BOOLEAN
    BY <1>0, SdFields
  <2> QED
    BY <1>0, <1>1, <2>1 DEF SdKnown, SdEarly, SdData, SdAnnounced
<1>3. drv.i \in Nat /\ drv.n \in Nat /\ drv.lba \in Nat /\ drv.pc \in 1 .. 18 /\ mem \in Seq(Int) /\ host.left \in Nat /\ host.buf \in Int
  <2>1. NBlocks \in Nat /\ drv.i \in Nat /\ drv.n \in 0 .. NBlocks /\ drv.lba \in Nat /\ drv.pc \in 1 .. 18 /\ host.left \in 0 .. NBlocks /\ host.buf \in Int
    BY <1>0, SdFields
  <2>2. mem \in Seq(Int)
    BY <1>0 DEF SdTypes
  <2> QED
    BY <2>1, <2>2
<1>9. SdTypes'
  BY <1>0, <1>1 DEF SdTypes
<1>10. SdInCall'
  BY <1>0, <1>1, SdFields DEF SdInCall, Running, SdXfer, SdLast, SdPolls, SdKeeps
<1>11. SdEarly'
  BY <1>1, <1>2 DEF SdEarly
<1>12. SdKnown'
  BY <1>0, <1>1, <1>2 DEF SdKnown, SdMatch
<1>13. SdData'
  BY <1>0, <1>1, <1>2 DEF SdData
<1>14. SdAnnounced'
  BY <1>1, <1>2 DEF SdAnnounced, SdXfer
<1>15. SdFresh'
  BY <1>0, <1>1, SdFields DEF SdFresh, SdXfer, SdInCall, Running, SdLast, SdPolls, SdData, SdAnnounced, SdExpects, SdKeeps
<1>16. SdTransfers'
  <2>1. SUFFICES ASSUME SdXfer, (drv.pc = 3 /\ drv.sent) \/ drv.pc = 4 PROVE SdTransfers'
    BY <1>1 DEF SdTransfers, SdXfer
  <2>2. drv'.i <= drv'.n /\ SdWriting
    BY <1>0, <1>1, <1>2, <2>1 DEF SdTransfers, SdPending, SdReading, SdRefused, SdDone, SdReadDone, SdWriteDone, SdXfer
  <2>5. SdWriting'
    BY <1>1, <1>3, <2>2 DEF SdWriting, SdMoved, SdBuffer
  <2> QED
    BY <2>2, <2>5 DEF SdTransfers
<1>17. SdEnded'
  BY <1>0, <1>1 DEF SdEnded, SdReadDone, SdWriteDone
<1>18. SdErasing'
  BY <1>0, <1>1, <1>2 DEF SdErasing, SdErStart, SdErEnd
<1>19. SdErrors'
  BY <1>0, <1>1, SdFields DEF SdErrors, SdXfer, SdInCall, Running, SdLast, SdPolls, SdKeeps
<1> QED
  BY <1>9, <1>10, <1>11, <1>12, <1>13, <1>14, <1>15, <1>16, <1>17, <1>18, <1>19 DEF SdInv

\* A block goes to the card.
LEMMA SdBlockOut ==
    ASSUME SdInv, BlockOut
    PROVE  SdInv'
<1>0. SdTypes /\ SdInCall /\ SdEarly /\ SdKnown /\ SdData /\ SdAnnounced /\ SdFresh /\ SdTransfers /\ SdEnded /\ SdErasing /\ SdErrors
  BY DEF SdInv
<1>1. /\ drv' = drv /\ host'.cmd = host.cmd /\ host'.arg = host.arg /\ host'.count = host.count /\ host'.resp = host.resp /\ host' \in SdHostT
      /\ host.dat = "write" /\ host'.dat = "write" /\ host.left > 0 /\ host'.left = host.left - 1 /\ host.buf # None /\ host'.buf = None
      /\ host'.open = host.open /\ ~host.open /\ host'.int = host.int /\ host'.err = host.err
      /\ card.st = "rcv" /\ card'.kind = card.kind /\ card'.app = card.app /\ card'.at = card.at + 1 /\ card'.st \in {"prg", "rcv"}
      /\ card'.er = card.er /\ card' \in SdCardT /\ media' = [media EXCEPT ![card.at] = host.buf] /\ media' \in [Blocks -> Int \ {None}]
      /\ mem' = mem /\ faults' = faults
  <2>0. host \in SdHostT /\ card \in SdCardT /\ media \in [Blocks -> Int \ {None}] /\ host.left \in 0 .. NBlocks /\ host.dat = "write"
        /\ host.buf # None /\ host.left > 0 /\ ~host.open /\ card.at \in Int /\ card.count \in Int /\ host.buf \in Int /\ NBlocks \in Nat /\ card.st = "rcv"
    BY <1>0, SdFields DEF SdTypes, BlockOut, SdData
  <2> DEFINE s == IF card.count = 1 THEN "prg" ELSE "rcv"
  <2>1. host' = [host EXCEPT !.left = host.left - 1, !.buf = None]
    BY <2>0 DEF BlockOut, SdHostT
  <2>2. card' = [card EXCEPT !.count = card.count - 1, !.at = card.at + 1, !.st = s]
    BY <2>0 DEF BlockOut, SdCardT
  <2>3. host.left - 1 \in 0 .. NBlocks /\ None \in Int /\ card.count - 1 \in Int /\ card.at + 1 \in Int /\ s \in {"prg", "rcv"}
    BY <2>0 DEF None
  <2> HIDE DEF s
  <2>4. /\ host' \in SdHostT /\ host'.cmd = host.cmd /\ host'.arg = host.arg /\ host'.count = host.count /\ host'.resp = host.resp
        /\ host'.dat = host.dat /\ host'.left = host.left - 1 /\ host'.buf = None /\ host'.open = host.open /\ host'.int = host.int /\ host'.err = host.err
    BY <2>0, <2>1, <2>3 DEF SdHostT
  <2>5. /\ card' \in SdCardT /\ card'.kind = card.kind /\ card'.app = card.app /\ card'.at = card.at + 1 /\ card'.st = s /\ card'.er = card.er
    <3>1. s \in {"idle", "ready", "ident", "stby", "tran", "data", "rcv", "prg"}
      BY <2>3
    <3> QED
      BY <2>0, <2>2, <2>3, <3>1 DEF SdCardT
  <2>6. media' = [media EXCEPT ![card.at] = host.buf] /\ drv' = drv /\ mem' = mem /\ faults' = faults
    BY DEF BlockOut
  <2>7. media' \in [Blocks -> Int \ {None}]
    BY <2>0, <2>6
  <2> QED
    BY <2>0, <2>3, <2>4, <2>5, <2>6, <2>7
<1>2. /\ drv.call # "off" /\ ~(drv.call = "enumerate" /\ drv.pc <= 6) /\ host.cmd \in {"none", "ACMD51"} /\ card.app = FALSE
      /\ ~(SdXfer /\ ((drv.pc = 2 /\ drv.sent) \/ (drv.pc = 3 /\ ~drv.sent)))
  <2>1. card.app \in BOOLEAN
    BY <1>0, SdFields
  <2> QED
    BY <1>0, <1>1, <2>1 DEF SdKnown, SdEarly, SdData, SdAnnounced
<1>3. drv.i \in Nat /\ drv.n \in Nat /\ drv.lba \in Nat /\ drv.pc \in 1 .. 18 /\ mem \in Seq(Int) /\ host.left \in Nat /\ host.buf \in Int
  <2>1. NBlocks \in Nat /\ drv.i \in Nat /\ drv.n \in 0 .. NBlocks /\ drv.lba \in Nat /\ drv.pc \in 1 .. 18 /\ host.left \in 0 .. NBlocks /\ host.buf \in Int
    BY <1>0, SdFields
  <2>2. mem \in Seq(Int)
    BY <1>0 DEF SdTypes
  <2> QED
    BY <2>1, <2>2
<1>9. SdTypes'
  BY <1>0, <1>1 DEF SdTypes
<1>10. SdInCall'
  BY <1>0, <1>1, SdFields DEF SdInCall, Running, SdXfer, SdLast, SdPolls, SdKeeps
<1>11. SdEarly'
  BY <1>1, <1>2 DEF SdEarly
<1>12. SdKnown'
  BY <1>0, <1>1, <1>2 DEF SdKnown, SdMatch
<1>13. SdData'
  BY <1>0, <1>1, <1>2 DEF SdData
<1>14. SdAnnounced'
  BY <1>1, <1>2 DEF SdAnnounced, SdXfer
<1>15. SdFresh'
  BY <1>0, <1>1, SdFields DEF SdFresh, SdXfer, SdInCall, Running, SdLast, SdPolls, SdData, SdAnnounced, SdExpects, SdKeeps
<1>16. SdTransfers'
  <2>1. SUFFICES ASSUME SdXfer, (drv.pc = 3 /\ drv.sent) \/ drv.pc = 4 PROVE SdTransfers'
    BY <1>1 DEF SdTransfers, SdXfer
  <2>2. drv'.i <= drv'.n /\ SdWriting
    BY <1>0, <1>1, <1>2, <2>1 DEF SdTransfers, SdPending, SdReading, SdRefused, SdDone, SdReadDone, SdWriteDone, SdXfer
  <2>3. SdBuffer = 1 /\ SdBuffer' = 0 /\ SdMoved' = SdMoved + 1 /\ SdMoved \in Int /\ card.at = drv.lba + SdMoved /\ SdMoved \in 0 .. drv.n - 1
    <3>1. SdBuffer = 1 /\ SdBuffer' = 0
      BY <1>1 DEF SdBuffer
    <3>2. SdMoved' = SdMoved + 1 /\ SdMoved \in Int
      BY <1>1, <1>3 DEF SdMoved
    <3>3. host.left <= drv.n /\ card.at = drv.lba + SdMoved
      BY <2>2 DEF SdWriting
    <3>4. SdMoved \in 0 .. drv.n - 1
      BY <1>1, <1>3, <3>3 DEF SdMoved
    <3> QED
      BY <3>1, <3>2, <3>3, <3>4
  <2>4. ASSUME SdMoved + 1 = drv.i PROVE SdLanded(media', drv.lba, SdMoved + 1)
    <3>1. SdLanded(media, drv.lba, SdMoved) /\ host.buf = Written(SdMoved)
      BY <1>1, <2>2, <2>3, <2>4 DEF SdWriting
    <3>2. drv.n > 0 /\ drv.lba + drv.n <= NBlocks /\ NBlocks \in Nat
      BY <1>0, <2>1, SdFields DEF SdInCall, SdXfer
    <3>3. drv.lba + SdMoved \in Blocks /\ SdMoved \in Nat
      BY <1>3, <2>3, <3>2 DEF Blocks
    <3>4. media \in [Blocks -> Int]
      BY <1>0 DEF SdTypes
    <3>5. media' = [media EXCEPT ![drv.lba + SdMoved] = Written(SdMoved)]
      BY <1>1, <2>3, <3>1
    <3> DEFINE k == SdMoved
               lba == drv.lba
    <3>6. k \in Nat /\ lba \in Nat /\ lba + k \in Blocks /\ SdLanded(media, lba, k)
      BY <1>3, <3>1, <3>3
    <3> HIDE DEF k, lba
    <3>7. SdLanded([media EXCEPT ![lba + k] = Written(k)], lba, k + 1)
      BY <3>4, <3>6, SdLandedMore
    <3> QED
      BY <3>5, <3>7 DEF k, lba
  <2>5. SdWriting'
    <3>1. drv'.call = "write" /\ host'.dat = "write" /\ host'.cmd = "none" /\ "xc" \notin host'.int /\ drv'.lba = drv.lba /\ drv'.i = drv.i /\ drv'.n = drv.n
      BY <1>1, <2>2 DEF SdWriting
    <3>2. SdMoved + 1 <= drv.i /\ host.left <= drv.n
      BY <2>2, <2>3 DEF SdWriting
    <3>3. card'.at = drv'.lba + SdMoved'
      <4>1. card'.at = card.at + 1
        BY <1>1
      <4>2. card.at = drv.lba + SdMoved /\ SdMoved' = SdMoved + 1 /\ SdMoved \in Int /\ drv.lba \in Int
        BY <1>3, <2>3
      <4>3. card'.at = (drv.lba + SdMoved) + 1
        BY <4>1, <4>2
      <4>4. (drv.lba + SdMoved) + 1 = drv.lba + (SdMoved + 1)
        BY <4>2
      <4>5. card'.at = drv.lba + SdMoved'
        BY <4>2, <4>3, <4>4
      <4> QED
        BY <3>1, <4>5
    <3>4. host'.left <= drv'.n /\ SdMoved' + SdBuffer' <= drv'.i /\ (SdMoved' + SdBuffer' = drv'.i => SdMoved + 1 = drv.i)
      BY <1>1, <1>3, <2>3, <3>1, <3>2
    <3>5. SdMoved + 1 = drv.i => SdLanded(media', drv'.lba, SdMoved')
      BY <2>3, <2>4, <3>1
    <3> QED
      BY <1>1, <3>1, <3>3, <3>4, <3>5 DEF SdWriting, SdLanded
  <2> QED
    BY <2>2, <2>5 DEF SdTransfers
<1>17. SdEnded'
  BY <1>0, <1>1 DEF SdEnded, SdReadDone, SdWriteDone
<1>18. SdErasing'
  BY <1>0, <1>1, <1>2 DEF SdErasing, SdErStart, SdErEnd
<1>19. SdErrors'
  BY <1>0, <1>1, SdFields DEF SdErrors, SdXfer, SdInCall, Running, SdLast, SdPolls, SdKeeps
<1> QED
  BY <1>9, <1>10, <1>11, <1>12, <1>13, <1>14, <1>15, <1>16, <1>17, <1>18, <1>19 DEF SdInv

\* All blocks have been moved.
LEMMA SdDataEnd ==
    ASSUME SdInv, DataEnd
    PROVE  SdInv'
<1>0. SdTypes /\ SdInCall /\ SdEarly /\ SdKnown /\ SdData /\ SdAnnounced /\ SdFresh /\ SdTransfers /\ SdEnded /\ SdErasing /\ SdErrors
  BY DEF SdInv
<1>1. /\ drv' = drv /\ host'.cmd = host.cmd /\ host'.arg = host.arg /\ host'.count = host.count /\ host'.resp = host.resp /\ host' \in SdHostT
      /\ host.dat \in {"read", "write"} /\ host'.dat = "idle" /\ host.left = 0 /\ host'.left = 0 /\ host.buf = None /\ host'.buf = None
      /\ host'.open = FALSE /\ host'.int = host.int \cup {"xc"} /\ host'.err = host.err /\ card' = card /\ media' = media /\ mem' = mem /\ faults' = faults
  <2>0. host \in SdHostT /\ host.dat \in {"read", "write"} /\ host.left = 0 /\ host.buf = None
    BY <1>0, SdFields DEF SdTypes, DataEnd
  <2>1. host' = [host EXCEPT !.dat = "idle", !.open = FALSE, !.int = host.int \cup {"xc"}]
        /\ card' = card /\ media' = media /\ mem' = mem /\ faults' = faults /\ drv' = drv
    BY <2>0 DEF DataEnd, SdHostT
  <2>2. host.int \cup {"xc"} \in SUBSET {"cc", "rd", "wr", "xc"}
    BY <2>0 DEF SdHostT
  <2> QED
    BY <2>0, <2>1, <2>2 DEF SdHostT
<1>2. /\ drv.call # "off" /\ ~(drv.call = "enumerate" /\ drv.pc <= 6) /\ host.cmd \in {"none", "ACMD51"} /\ card.app = FALSE
      /\ ~(SdXfer /\ ((drv.pc = 2 /\ drv.sent) \/ (drv.pc = 3 /\ ~drv.sent)))
  <2>1. card.app \in BOOLEAN
    BY <1>0, SdFields
  <2> QED
    BY <1>0, <1>1, <2>1 DEF SdKnown, SdEarly, SdData, SdAnnounced
<1>3. drv.i \in Nat /\ drv.n \in Nat /\ drv.lba \in Nat /\ drv.pc \in 1 .. 18 /\ mem \in Seq(Int) /\ host.left \in Nat /\ host.buf \in Int
  <2>1. NBlocks \in Nat /\ drv.i \in Nat /\ drv.n \in 0 .. NBlocks /\ drv.lba \in Nat /\ drv.pc \in 1 .. 18 /\ host.left \in 0 .. NBlocks /\ host.buf \in Int
    BY <1>0, SdFields
  <2>2. mem \in Seq(Int)
    BY <1>0 DEF SdTypes
  <2> QED
    BY <2>1, <2>2
<1>9. SdTypes'
  BY <1>0, <1>1 DEF SdTypes
<1>10. SdInCall'
  BY <1>0, <1>1, SdFields DEF SdInCall, Running, SdXfer, SdLast, SdPolls, SdKeeps
<1>11. SdEarly'
  BY <1>1, <1>2 DEF SdEarly
<1>12. SdKnown'
  BY <1>0, <1>1, <1>2 DEF SdKnown, SdMatch
<1>13. SdData'
  BY <1>0, <1>1, <1>2 DEF SdData
<1>14. SdAnnounced'
  BY <1>1, <1>2 DEF SdAnnounced, SdXfer
<1>15. SdFresh'
  BY <1>0, <1>1, <1>2 DEF SdFresh, SdXfer
<1>16. SdTransfers'
  <2>1. SUFFICES ASSUME SdXfer, (drv.pc = 3 /\ drv.sent) \/ drv.pc = 4 PROVE SdTransfers'
    BY <1>1 DEF SdTransfers, SdXfer
  <2>2. drv'.i <= drv'.n /\ (SdReading \/ SdWriting) /\ drv.i <= drv.n
    BY <1>0, <1>1, <1>2, <2>1 DEF SdTransfers, SdPending, SdRefused, SdDone, SdReadDone, SdWriteDone, SdXfer
  <2>3. SdBuffer = 0 /\ SdMoved = drv.n
    BY <1>1, <1>3 DEF SdBuffer, SdMoved
  <2>4. CASE SdReading
    <3>1. SdDone'
      BY <1>1, <1>3, <2>3, <2>4 DEF SdReading, SdDone, SdReadDone
    <3> QED
      BY <2>2, <3>1 DEF SdTransfers
  <2>5. CASE SdWriting
    <3>1. SdDone'
      BY <1>1, <1>3, <2>2, <2>3, <2>5 DEF SdWriting, SdDone, SdWriteDone
    <3> QED
      BY <2>2, <3>1 DEF SdTransfers
  <2> QED
    BY <2>2, <2>4, <2>5
<1>17. SdEnded'
  BY <1>0, <1>1 DEF SdEnded, SdReadDone, SdWriteDone
<1>18. SdErasing'
  BY <1>0, <1>1, <1>2 DEF SdErasing, SdErStart, SdErEnd
<1>19. SdErrors'
  BY <1>0, <1>1, SdFields DEF SdErrors, SdXfer, SdInCall, Running, SdLast, SdPolls, SdKeeps
<1> QED
  BY <1>9, <1>10, <1>11, <1>12, <1>13, <1>14, <1>15, <1>16, <1>17, <1>18, <1>19 DEF SdInv

\* The card has written its blocks.
LEMMA SdProgrammed ==
    ASSUME SdInv, CardProgrammed
    PROVE  SdInv'
<1>0. SdTypes /\ SdInCall /\ SdEarly /\ SdKnown /\ SdData /\ SdAnnounced /\ SdFresh /\ SdTransfers /\ SdEnded /\ SdErasing /\ SdErrors
  BY DEF SdInv
<1>1. /\ host' = host /\ drv' = drv /\ media' = media /\ mem' = mem /\ faults' = faults /\ card.st = "prg" /\ card'.st = "tran"
      /\ card'.kind = card.kind /\ card'.app = card.app /\ card'.count = card.count /\ card'.at = card.at /\ card'.er = card.er /\ card' \in SdCardT
  <2>0. card \in SdCardT
    BY <1>0 DEF SdTypes
  <2> QED
    BY <2>0 DEF CardProgrammed, SdCardT
<1>9. SdTypes'
  BY <1>0, <1>1 DEF SdTypes
<1>10. SdInCall'
  BY <1>0, <1>1, SdFields DEF SdInCall, Running, SdXfer, SdLast, SdPolls, SdKeeps
<1>11. SdEarly'
  BY <1>0, <1>1, SdFields DEF SdEarly, SdEarlyStep, SdMatch, SdInCall, Running, SdXfer, SdLast, SdPolls, SdKnown, SdData, SdKeeps
<1>12. SdKnown'
  BY <1>0, <1>1, SdFields DEF SdKnown, SdMatch, SdEarly, SdEarlyStep, SdInCall, Running, SdXfer, SdLast, SdPolls, SdKeeps
<1>13. SdData'
  BY <1>0, <1>1, SdFields DEF SdData, SdInCall, Running, SdXfer, SdLast, SdPolls, SdKeeps
<1>14. SdAnnounced'
  BY <1>0, <1>1, SdFields DEF SdAnnounced, SdExpects, SdXfer, SdInCall, Running, SdLast, SdPolls, SdFresh, SdKnown, SdMatch, SdData, SdKeeps
<1>15. SdFresh'
  BY <1>0, <1>1, SdFields DEF SdFresh, SdXfer, SdInCall, Running, SdLast, SdPolls, SdData, SdAnnounced, SdExpects, SdKeeps
<1>16. SdTransfers'
  BY <1>0, <1>1, SdFields DEF SdTransfers, SdXfer, SdPending, SdExpects, SdReading, SdWriting, SdRefused, SdDone, SdReadDone, SdWriteDone, SdMoved, SdBuffer, ReadArg, WriteArg, SdInCall, Running, SdLast, SdPolls, SdFresh, SdAnnounced, SdKnown, SdMatch, SdData, SdKeeps
<1>17. SdEnded'
  BY <1>0, <1>1, SdFields DEF SdEnded, SdReadDone, SdWriteDone, SdInCall, Running, SdXfer, SdLast, SdPolls, SdTransfers, SdPending, SdExpects, SdReading, SdWriting, SdRefused, SdDone, SdMoved, SdBuffer, ReadArg, WriteArg, SdKeeps
<1>18. SdErasing'
  BY <1>0, <1>1, SdFields DEF SdErasing, SdErStart, SdErEnd, SdInCall, Running, SdXfer, SdLast, SdPolls, SdKeeps
<1>19. SdErrors'
  BY <1>0, <1>1, SdFields DEF SdErrors, SdXfer, SdInCall, Running, SdLast, SdPolls, SdKeeps
<1> QED
  BY <1>9, <1>10, <1>11, <1>12, <1>13, <1>14, <1>15, <1>16, <1>17, <1>18, <1>19 DEF SdInv

\* Nothing changes.
LEMMA SdStays ==
    ASSUME SdInv, UNCHANGED sdVars
    PROVE  SdInv'
<1>0. SdTypes /\ SdInCall /\ SdEarly /\ SdKnown /\ SdData /\ SdAnnounced /\ SdFresh /\ SdTransfers /\ SdEnded /\ SdErasing /\ SdErrors
  BY DEF SdInv
<1>1. host' = host /\ card' = card /\ media' = media /\ drv' = drv /\ mem' = mem /\ faults' = faults
  BY DEF sdVars
<1>9. SdTypes'
  BY <1>0, <1>1 DEF SdTypes
<1>10. SdInCall'
  BY <1>0, <1>1, SdFields DEF SdInCall, Running, SdXfer, SdLast, SdPolls, SdKeeps
<1>11. SdEarly'
  BY <1>0, <1>1, SdFields DEF SdEarly, SdEarlyStep, SdMatch, SdInCall, Running, SdXfer, SdLast, SdPolls, SdKnown, SdData, SdKeeps
<1>12. SdKnown'
  BY <1>0, <1>1, SdFields DEF SdKnown, SdMatch, SdEarly, SdEarlyStep, SdInCall, Running, SdXfer, SdLast, SdPolls, SdKeeps
<1>13. SdData'
  BY <1>0, <1>1, SdFields DEF SdData, SdInCall, Running, SdXfer, SdLast, SdPolls, SdKeeps
<1>14. SdAnnounced'
  BY <1>0, <1>1, SdFields DEF SdAnnounced, SdExpects, SdXfer, SdInCall, Running, SdLast, SdPolls, SdFresh, SdKnown, SdMatch, SdData, SdKeeps
<1>15. SdFresh'
  BY <1>0, <1>1, SdFields DEF SdFresh, SdXfer, SdInCall, Running, SdLast, SdPolls, SdData, SdAnnounced, SdExpects, SdKeeps
<1>16. SdTransfers'
  BY <1>0, <1>1, SdFields DEF SdTransfers, SdXfer, SdPending, SdExpects, SdReading, SdWriting, SdRefused, SdDone, SdReadDone, SdWriteDone, SdMoved, SdBuffer, ReadArg, WriteArg, SdInCall, Running, SdLast, SdPolls, SdFresh, SdAnnounced, SdKnown, SdMatch, SdData, SdKeeps
<1>17. SdEnded'
  BY <1>0, <1>1, SdFields DEF SdEnded, SdReadDone, SdWriteDone, SdInCall, Running, SdXfer, SdLast, SdPolls, SdTransfers, SdPending, SdExpects, SdReading, SdWriting, SdRefused, SdDone, SdMoved, SdBuffer, ReadArg, WriteArg, SdKeeps
<1>18. SdErasing'
  BY <1>0, <1>1, SdFields DEF SdErasing, SdErStart, SdErEnd, SdInCall, Running, SdXfer, SdLast, SdPolls, SdKeeps
<1>19. SdErrors'
  BY <1>0, <1>1, SdFields DEF SdErrors, SdXfer, SdInCall, Running, SdLast, SdPolls, SdKeeps
<1> QED
  BY <1>9, <1>10, <1>11, <1>12, <1>13, <1>14, <1>15, <1>16, <1>17, <1>18, <1>19 DEF SdInv

\* The card answers, or its answer is damaged.
LEMMA SdAnswers == SdInv /\ ((\E up \in BOOLEAN : CardAnswers(up)) \/ AnswerDamaged) => SdInv'
<1> SUFFICES ASSUME SdInv, (\E up \in BOOLEAN : CardAnswers(up)) \/ AnswerDamaged PROVE SdInv'
  OBVIOUS
<1>0. /\ SdTypes /\ host \in SdHostT /\ card \in SdCardT /\ media \in [Blocks -> Int \ {None}] /\ faults \in 0 .. MaxFaults /\ MaxFaults \in Nat
      /\ host.count \in 0 .. NBlocks /\ host.int \in SUBSET {"cc", "rd", "wr", "xc"}
  BY SdFields, SdAssumption DEF SdInv, SdTypes
<1>1. ASSUME NEW up \in BOOLEAN, CardAnswers(up), Obeys(host.cmd) PROVE SdInv'
  <2> DEFINE r == Response(host.cmd, up)
             d == IF host.cmd \in {"CMD18", "ACMD51"} THEN "read" ELSE IF host.cmd = "CMD25" THEN "write" ELSE host.dat
             l == IF host.cmd \in {"CMD18", "CMD25", "ACMD51"} THEN host.count ELSE host.left
  <2>0. host.cmd # "none" /\ card' = CardAfter(host.cmd, host.arg, up) /\ drv' = drv /\ mem' = mem /\ faults' = faults
    BY <1>1 DEF CardAnswers
  <2>1. host' = [host EXCEPT !.cmd = "none", !.int = host.int \cup {"cc"}, !.resp = r, !.dat = d, !.left = l]
    BY <1>0, <1>1 DEF CardAnswers, SdHostT, WithData
  <2>2. r \in [cmd : SdCommands \cup {"none"}, st : {"idle", "ready", "ident", "stby", "tran", "data", "rcv", "prg"}, ready : BOOLEAN, ok : BOOLEAN]
        /\ r.cmd = host.cmd /\ r.ok = up
    BY <1>0, SdFields DEF Response
  <2>3. d \in {"idle", "read", "write"} /\ l \in 0 .. NBlocks /\ host.int \cup {"cc"} \in SUBSET {"cc", "rd", "wr", "xc"}
    BY <1>0, SdFields
  <2>4. media' \in [Blocks -> Int \ {None}] /\ (media' = media \/ host.cmd = "CMD38")
    <3>1. CASE host.cmd = "CMD38"
      <4>1. media' = [b \in Blocks |-> IF b \in card.er[1] .. card.er[2] THEN Wiped ELSE media[b]]
        BY <1>1, <3>1 DEF CardAnswers
      <4>2. Wiped \in Int \ {None}
        BY DEF Wiped, None
      <4> QED
        BY <1>0, <3>1, <4>1, <4>2
    <3>2. CASE host.cmd # "CMD38"
      BY <1>0, <1>1, <3>2 DEF CardAnswers
    <3> QED
      BY <3>1, <3>2
  <2> HIDE DEF r
  <2>5. /\ host' \in SdHostT /\ host'.cmd = "none" /\ host'.arg = host.arg /\ host'.count = host.count /\ host'.buf = host.buf /\ host'.open = host.open
        /\ host'.err = host.err /\ host'.int = host.int \cup {"cc"} /\ host'.resp = r /\ host'.dat = d /\ host'.left = l
    <3> HIDE DEF d, l
    <3> QED
      BY <1>0, <2>1, <2>2, <2>3 DEF SdHostT
  <2>6. SdHears(up)
    BY <2>2, <2>5 DEF SdHears
  <2> QED
    BY <1>0, <1>1, <2>0, <2>4, <2>5, <2>6, SdObeyed
<1>2. ASSUME NEW up \in BOOLEAN, CardAnswers(up), ~Obeys(host.cmd) PROVE SdInv'
  BY <1>0, <1>2, SdNotObeyed DEF CardAnswers
<1>3. ASSUME AnswerDamaged PROVE SdInv'
  <2>0. /\ host.cmd # "none" /\ host' = [host EXCEPT !.cmd = "none", !.err = TRUE] /\ drv' = drv /\ mem' = mem /\ media' = media
        /\ faults' \in 0 .. MaxFaults /\ card' = (IF Obeys(host.cmd) THEN CardAfter(host.cmd, host.arg, TRUE) ELSE card)
    BY <1>0, <1>3 DEF AnswerDamaged
  <2>1. CASE Obeys(host.cmd)
    <3>1. /\ host' \in SdHostT /\ host'.cmd = "none" /\ host'.arg = host.arg /\ host'.count = host.count /\ host'.buf = host.buf /\ host'.open = host.open
          /\ host'.err /\ host'.int = host.int /\ host'.resp = host.resp /\ host'.dat = host.dat /\ host'.left = host.left
      BY <1>0, <2>0 DEF SdHostT
    <3>2. SdHears(TRUE)
      BY <3>1 DEF SdHears
    <3> QED
      BY <1>0, <2>0, <2>1, <3>1, <3>2, SdObeyed
  <2>2. CASE ~Obeys(host.cmd)
    BY <1>0, <2>0, <2>2, SdNotObeyed
  <2> QED
    BY <2>1, <2>2
<1> QED
  BY <1>1, <1>2, <1>3

\* The card and its driver at the start.
LEMMA SdStarts == SdInit => SdInv
<1> SUFFICES ASSUME SdInit PROVE SdInv
  OBVIOUS
<1>1. /\ host = HostReset /\ host.cmd = "none" /\ host.dat = "idle" /\ host.buf = None /\ ~host.open
  BY DEF SdInit, HostReset
<1>2. /\ drv = DriverOff /\ drv.call = "off" /\ drv.pc = 1 /\ ~drv.sent /\ drv.i = 0 /\ drv.last = "none" /\ ~drv.bad
  BY DEF SdInit, DriverOff
<1>3. PICK k \in Cards : card = CardIdle(k)
  BY DEF SdInit
<1>4. card.st = "idle" /\ ~card.app /\ card \in SdCardT
  <2>1. <<0, 0>> \in [1 .. 2 -> Int]
    OBVIOUS
  <2> QED
    BY <1>3, <2>1 DEF CardIdle, SdCardT
<1>5. SdTypes
  <2>1. NBlocks \in Nat /\ StateRetries \in Nat /\ OpCondRetries \in Nat /\ MaxFaults \in Nat
    BY SdAssumption
  <2>2. host \in SdHostT
    <3>1. [cmd |-> "none", st |-> "idle", ready |-> FALSE, ok |-> FALSE] \in [cmd : SdCommands \cup {"none"}, st : {"idle", "ready", "ident", "stby", "tran", "data", "rcv", "prg"}, ready : BOOLEAN, ok : BOOLEAN]
      OBVIOUS
    <3>2. 0 \in 0 .. NBlocks /\ None \in Int /\ {} \in SUBSET {"cc", "rd", "wr", "xc"} /\ "none" \in SdCommands \cup {"none"} /\ 0 \in Int
      BY <2>1 DEF None
    <3> QED
      BY <1>1, <3>1, <3>2 DEF HostReset, SdHostT
  <2>3. drv \in SdDrvT
    <3>1. 0 \in 0 .. NBlocks /\ None \in Int /\ 0 \in 0 .. StateRetries + OpCondRetries /\ 1 \in 1 .. 18 /\ 0 \in Nat /\ {} \in SUBSET Int
      BY <2>1 DEF None
    <3> QED
      BY <1>2, <3>1 DEF DriverOff, SdDrvT
  <2>4. media \in [Blocks -> Int \ {None}]
    <3>1. \A b \in Blocks : b \in Int \ {None}
      BY <2>1 DEF Blocks, None
    <3> QED
      BY <3>1 DEF SdInit
  <2>5. mem \in Seq(Int) /\ faults \in 0 .. MaxFaults
    BY <2>1 DEF SdInit
  <2> QED
    BY <1>4, <2>2, <2>3, <2>4, <2>5 DEF SdTypes
<1>6. SdInCall /\ SdEarly /\ SdKnown /\ SdAnnounced /\ SdFresh /\ SdTransfers /\ SdEnded /\ SdErasing /\ SdErrors
  BY <1>1, <1>2, <1>4 DEF SdInCall, Running, SdPolls, SdXfer, SdEarly, SdKnown, SdAnnounced, SdFresh, SdTransfers, SdEnded, SdErasing, SdErrors
<1>7. SdData
  BY <1>1, <1>4 DEF SdData
<1> QED
  BY <1>5, <1>6, <1>7 DEF SdInv

\* Every step keeps the invariant of the card.
LEMMA SdKept == SdInv /\ [SdNext]_sdVars => SdInv'
<1> SUFFICES ASSUME SdInv, [SdNext]_sdVars PROVE SdInv'
  OBVIOUS
<1>1. CASE DriverStep
  <2>1. CASE bm_sd_init \/ bm_sd_hw_init \/ bm_sd_set_ios \/ bm_sd_prepare
    BY <2>1, SdInits, SdInitsClock, SdSetsIos, SdPrepares
  <2>2. CASE \E c \in SdCommands : SendCommand(c)
    BY <2>2, SdSends
  <2>3. CASE CommandComplete \/ CommandError \/ TransferTimeout
    BY <2>3, SdCompletes, SdFailures
  <2>4. CASE ReadBlock \/ WriteBlock \/ TransferComplete
    BY <2>4, SdReads, SdWrites, SdTransferred
  <2> QED
    BY <1>1, <2>1, <2>2, <2>3, <2>4 DEF DriverStep
<1>2. CASE \E call \in {"read", "write", "erase"}, lba \in Blocks, n \in 1 .. NBlocks : BlkCall(call, lba, n)
  BY <1>2, SdCall
<1>3. CASE CommandTimeout
  BY <1>3, SdFailures
<1>4. CASE CardAnswers(TRUE) \/ CardAnswers(FALSE) \/ AnswerDamaged
  BY <1>4, SdAnswers
<1>5. CASE BlockIn(TRUE) \/ BlockIn(FALSE)
  BY <1>5, SdBlockIn
<1>6. CASE BufferOpen \/ BlockOut \/ DataEnd \/ CardProgrammed
  BY <1>6, SdOpens, SdBlockOut, SdDataEnd, SdProgrammed
<1>7. CASE UNCHANGED sdVars
  BY <1>7, SdStays
<1> QED
  BY <1>1, <1>2, <1>3, <1>4, <1>5, <1>6, <1>7 DEF SdNext, HardwareStep

\* What the invariant says of calls that have returned.
LEMMA SdExact == SdInv => CardExact
<1> SUFFICES ASSUME SdInv PROVE CardExact
  OBVIOUS
<1>0. SdTypes /\ SdInCall /\ SdEnded /\ SdErrors
  BY DEF SdInv
<1>1. SdTypeOK
  <2>1. media \in [Blocks -> Int] /\ mem \in Seq(Int) /\ faults \in 0 .. MaxFaults
    BY <1>0 DEF SdTypes
  <2> QED
    BY <1>0, <2>1, SdFields DEF SdTypeOK
<1>2. ReadDelivers
  <2> SUFFICES ASSUME drv.call = "idle", drv.last = "read", drv.ret > 0, ~drv.wild PROVE mem = [i \in 1 .. drv.n |-> media[drv.lba + i - 1]]
    BY DEF ReadDelivers
  <2>1. Len(mem) = drv.n /\ SdCopied(mem, media, drv.lba, drv.n) /\ mem \in Seq(Int) /\ drv.lba \in Nat /\ drv.n \in Nat
    <3>1. NBlocks \in Nat /\ drv.n \in 0 .. NBlocks /\ drv.lba \in Nat
      BY <1>0, SdFields
    <3>2. Len(mem) = drv.n /\ SdCopied(mem, media, drv.lba, drv.n)
      BY <1>0 DEF SdEnded
    <3>3. mem \in Seq(Int)
      BY <1>0 DEF SdTypes
    <3> QED
      BY <3>1, <3>2, <3>3
  <2>2. \A i \in 1 .. drv.n : mem[i] = media[drv.lba + i - 1]
    <3> SUFFICES ASSUME NEW i \in 1 .. drv.n PROVE mem[i] = media[drv.lba + i - 1]
      OBVIOUS
    <3>1. PICK j \in 0 .. drv.n - 1 : j = i - 1
      BY <2>1
    <3>2. mem[j + 1] = media[drv.lba + j]
      BY <2>1, <3>1 DEF SdCopied
    <3>3. j + 1 = i /\ drv.lba + j = drv.lba + i - 1
      BY <2>1, <3>1
    <3> QED
      BY <3>2, <3>3
  <2>3. mem = [i \in 1 .. Len(mem) |-> mem[i]]
    BY <2>1
  <2> QED
    BY <2>1, <2>2, <2>3
<1>3. WriteLands
  BY <1>0 DEF WriteLands, SdEnded, SdWriteDone, SdLanded
<1>4. ErrorsStay
  BY <1>0 DEF ErrorsStay, SdErrors
<1> QED
  BY <1>1, <1>2, <1>3, <1>4 DEF CardExact

\* What changes of the card was asked for.
LEMMA SdAsked == SdInv /\ SdNext => OnlyBlocksAskedFor
<1> SUFFICES ASSUME SdInv, SdNext PROVE OnlyBlocksAskedFor
  OBVIOUS
<1>0. media \in [Blocks -> Int \ {None}] /\ SdData /\ SdTypes
  BY DEF SdInv, SdTypes
<1>1. CASE media' = media
  BY <1>1 DEF OnlyBlocksAskedFor
<1>2. CASE BlockOut
  <2>1. card.at \in drv.asked
    BY <1>0, <1>2, SdFields DEF SdData, BlockOut
  <2>2. media' = [media EXCEPT ![card.at] = host.buf]
    BY <1>2 DEF BlockOut
  <2> QED
    BY <1>0, <2>1, <2>2 DEF OnlyBlocksAskedFor
<1>3. CASE \E up \in BOOLEAN : CardAnswers(up)
  <2>1. PICK up \in BOOLEAN : CardAnswers(up)
    BY <1>3
  <2>2. media' = media \/ (host.cmd = "CMD38" /\ media' = [b \in Blocks |-> IF b \in card.er[1] .. card.er[2] THEN Wiped ELSE media[b]])
    BY <2>1 DEF CardAnswers
  <2>3. SUFFICES ASSUME host.cmd = "CMD38", card.kind.hc, media' = [b \in Blocks |-> IF b \in card.er[1] .. card.er[2] THEN Wiped ELSE media[b]],
                        NEW b \in Blocks, b \notin drv.asked PROVE media'[b] = media[b]
    BY <1>1, <2>2 DEF OnlyBlocksAskedFor
  <2>4. b \notin card.er[1] .. card.er[2]
    BY <1>0, <2>3 DEF SdData
  <2> QED
    BY <2>3, <2>4
<1>4. ASSUME DriverStep PROVE media' = media
  BY <1>4 DEF DriverStep, bm_sd_init, bm_sd_hw_init, bm_sd_set_ios, bm_sd_prepare, SendCommand, CommandComplete, CommandError, ReadBlock, WriteBlock, TransferComplete, TransferTimeout
<1>5. ASSUME NEW call \in {"read", "write", "erase"}, NEW lba \in Blocks, NEW n \in 1 .. NBlocks, BlkCall(call, lba, n) PROVE media' = media
  BY <1>5 DEF BlkCall
<1>6. ASSUME CommandTimeout \/ AnswerDamaged \/ BlockIn(TRUE) \/ BlockIn(FALSE) \/ BufferOpen \/ DataEnd \/ CardProgrammed PROVE media' = media
  BY <1>6 DEF CommandTimeout, AnswerDamaged, BlockIn, BufferOpen, DataEnd, CardProgrammed
<1> QED
  BY <1>1, <1>2, <1>3, <1>4, <1>5, <1>6 DEF SdNext, HardwareStep

\* Calls of the card return what is true: a read its blocks, a write that is on
\* the card, and no success once an error has been seen.
THEOREM CardStaysExact == SdSpec => []CardExact
<1>1. SdInv /\ [SdNext]_sdVars => SdInv'
  BY SdKept
<1>2. SdInit => SdInv
  BY SdStarts
<1>3. SdInv => CardExact
  BY SdExact
<1> QED
  BY <1>1, <1>2, <1>3, PTL DEF SdSpec

-----------------------------------------------------------------------------
(* The drivers together.                                                   *)

\* What the parts of a behaviour keep.
DriversInv == XmInv /\ SdInv /\ FlInv /\ RingInv

\* A step of one part is a step of it, and the other parts stay as they are.
LEMMA PartSteps ==
    [Next]_vars => [XmNext]_xmVars /\ [SdNext]_sdVars /\ [FlashNext]_flVars /\ [VirtioNext]_viVars
<1>1. CASE ConsoleDoes(ConNext)
  BY <1>1 DEF ConsoleDoes
<1>2. CASE DownloadDoes(XmNext)
  BY <1>2 DEF DownloadDoes
<1>3. CASE SdDoes(SdNext)
  BY <1>3 DEF SdDoes
<1>4. CASE FlashDoes(FlashNext)
  BY <1>4 DEF FlashDoes
<1>5. CASE VirtioDoes(VirtioNext)
  BY <1>5 DEF VirtioDoes
<1>6. CASE UNCHANGED vars
  BY <1>6 DEF vars
<1> QED
  BY <1>1, <1>2, <1>3, <1>4, <1>5, <1>6 DEF Next

\* Every behaviour of the drivers stays in their invariants.
LEMMA DriversKept == ASSUME ProgramsFit PROVE Spec => []DriversInv
<1>1. Init => DriversInv
  BY DownloadStarts, SdStarts, FlashStarts, RingStarts DEF Init, DriversInv
<1>2. DriversInv /\ [Next]_vars => DriversInv'
  BY PartSteps, DownloadKept, SdKept, FlashKept, RingKept DEF DriversInv
<1> QED
  BY <1>1, <1>2, PTL DEF Spec

\* Composed, the drivers keep what each promises: a download saves only what was
\* sent, calls of the card and of the flash return what is true, and the ring of
\* the disk belongs to one side at a time.
THEOREM DriversStayExact ==
    ASSUME ProgramsFit
    PROVE  Spec => [](DownloadExact /\ CardExact /\ FlashExact /\ RingSound)
<1>1. DriversInv => DownloadExact /\ CardExact /\ FlashExact /\ RingSound
  BY DownloadExactFollows, SdExact, FlashStateExact, RingImpliesSound DEF DriversInv
<1> QED
  BY <1>1, DriversKept, PTL

\* No step of any driver changes a block of the card or a byte of the flash that
\* no write, erase or program was asked for (bm_sd_write, mmc_erase_blocks,
\* spi_flash_program).
THEOREM MediaStaysKept == ASSUME ProgramsFit PROVE Spec => MediaKept
<1>1. DriversInv /\ [Next]_vars => [OnlyBlocksAskedFor /\ ProgramStays]_<<sdVars, flVars>>
  <2> SUFFICES ASSUME DriversInv, [Next]_vars PROVE OnlyBlocksAskedFor /\ ProgramStays
    OBVIOUS
  <2>1. [SdNext]_sdVars /\ [FlashNext]_flVars /\ SdInv /\ FlInv
    BY PartSteps DEF DriversInv
  <2>2. OnlyBlocksAskedFor
    <3>1. CASE UNCHANGED sdVars
      BY <3>1 DEF sdVars, OnlyBlocksAskedFor
    <3> QED
      BY <2>1, <3>1, SdAsked
  <2> QED
    BY <2>1, <2>2, FlashStepsKeep
<1> QED
  BY <1>1, DriversKept, PTL DEF Spec, MediaKept
=============================================================================
