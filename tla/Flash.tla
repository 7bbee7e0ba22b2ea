-------------------------------- MODULE Flash --------------------------------
(***************************************************************************)
(* The flash drivers: reading, erasing and programming of                  *)
(* drivers/mtd/spifmc-sophgo/sgspif.c and the memory-mapped flash of       *)
(* drivers/mtd/cfi-flash/cfi-flash.c.  The sizes are scaled down and keep  *)
(* their order: word < FIFO < page < sector, and transfers of several      *)
(* FIFOs.  The controller's FIFO and the flash are external.               *)
(***************************************************************************)
EXTENDS Integers, Sequences, FiniteSets

CONSTANTS
    Word,           \* bytes of a FIFO access: 4
    Fifo,           \* SPI_MAX_FIFO_DEPTH: 8
    Tran,           \* TRAN_NUM: 65536
    Page,           \* SPI_FLASH_BLOCK_SIZE: 256
    Sector,         \* sector_size: 65536 or 262144
    Low,            \* bytes that three address bytes reach: 2^24
    U8,             \* the values of uint8_t: 256
    Total,          \* bytes of the flash
    Reads,          \* the reads asked for: offset and size
    Programs,       \* the programs asked for: base, the tags of the pages and
                    \* the bytes that the last page lacks
    MaxSlow         \* bound: faults

ASSUME FlashAssumption ==
    /\ {Word, Fifo, Tran, Page, Sector, Low, U8, Total} \subseteq Nat \ {0}
    /\ Fifo % Word = 0 /\ Tran % Fifo = 0 /\ Page % Fifo = 0 /\ Page <= Tran
    /\ Sector % Page = 0 /\ Low % Sector = 0
    /\ Reads \subseteq Nat \X Nat
    /\ \A p \in Programs : p[1] \in Nat /\ p[2] \in Seq(Nat) /\ p[2] # <<>> /\ p[3] \in 0 .. Page - 1
    /\ MaxSlow \in Nat

VARIABLES
    cells,          \* the bytes of the flash
    chip,           \* its status: write enable, busy
    fifo,           \* the bytes the controller has ready, and those still to come
    job,            \* the driver
    dst,            \* the bytes written to the buffer of a read, from its start
    slow            \* the faults so far

flVars == <<cells, chip, fifo, job, dst, slow>>

Bytes == 0 .. Total - 1
Erased == 0
Spoilt == -1        \* programmed twice, or read past the end of the data
Original(a) == 100 + a
Idle == [op |-> "idle", at |-> "none", addr |-> 0, size |-> 0, off |-> 0, n |-> 0, got |-> 0, i |-> 0,
         src |-> <<>>, blind |-> FALSE, ret |-> 0]
Quiet == [from |-> 0, left |-> 0, here |-> 0]

\* What the flash sends for address a; a busy flash sends garbage.
Content(a) == IF a \in Bytes /\ ~chip.busy THEN cells[a] ELSE Spoilt

Least(a, b) == IF a < b THEN a ELSE b
CeilDiv(a, b) == (a + b - 1) \div b

-----------------------------------------------------------------------------
(* spi_data_read and spi_data_in_tran.                                     *)

\* The command: opcode 13h and four address bytes, or 03h and three.
spi_data_read(addr) == IF addr >= Low THEN addr ELSE addr % Low

\* The transfer of n bytes is started, with the FIFO flushed.
StartTran(a, n) == fifo' = [from |-> spi_data_read(a), left |-> n, here |-> 0]

\* The controller fills its FIFO.
FifoFill ==
    /\ fifo.here = 0 /\ fifo.left > 0
    /\ fifo' = [fifo EXCEPT !.here = Least(Fifo, fifo.left)]
    /\ UNCHANGED <<cells, chip, job, dst, slow>>

\* xfer_size
XferSize == Least(Fifo, job.n - job.got)

WordsOneMore(n) == n \div Word + 1

WordsOf(n) == CeilDiv(n, Word)

\* The buffer up to where the next load goes: a page that is to be compared is
\* read to the start of cmp_buf.
Filled == IF job.op = "program" /\ job.got = 0 THEN <<>> ELSE dst

\* The driver empties the FIFO a word at a time: the last word of a transfer
\* whose size is not a multiple of the word brings bytes that nobody asked for.
spi_data_in_tran ==
    /\ job.at = "in" /\ fifo.here = XferSize /\ job.got < job.n
    /\ dst' = Filled \o [k \in 1 .. Word * WordsOf(XferSize) |->
                        IF k <= XferSize THEN Content(fifo.from + k - 1) ELSE Spoilt]
    /\ fifo' = [from |-> fifo.from + XferSize, left |-> fifo.left - XferSize, here |-> 0]
    /\ job' = [job EXCEPT !.got = @ + XferSize,
                          !.at = IF job.got + XferSize = job.n THEN "end" ELSE "in"]
    /\ UNCHANGED <<cells, chip, slow>>

\* No data for 100 ms: only the start of a transfer is guarded by time.
InTimeout ==
    /\ job.at = "in" /\ job.got = 0 /\ slow < MaxSlow
    /\ slow' = slow + 1
    /\ fifo' = Quiet
    /\ job' = IF job.op = "read" THEN [job EXCEPT !.op = "done", !.at = "none", !.ret = -1]
              ELSE [job EXCEPT !.at = "end", !.blind = TRUE]
    /\ UNCHANGED <<cells, chip, dst>>

-----------------------------------------------------------------------------
(* bm_spi_flash_read, and the read operations of the two drivers.          *)

ReadRequest(o, n) ==
    /\ job.op = "idle"
    /\ job' = [Idle EXCEPT !.op = "read", !.at = "frame", !.addr = o, !.size = n]
    /\ dst' = <<>>
    /\ UNCHANGED <<cells, chip, fifo, slow>>

\* The next frame of TRAN_NUM bytes, or the remainder.
bm_spi_flash_read ==
    /\ job.op = "read" /\ job.at = "frame" /\ job.off < job.size
    /\ LET n == Least(Tran, job.size - job.off)
       IN  /\ job' = [job EXCEPT !.at = "in", !.n = n, !.got = 0]
           /\ StartTran(job.addr + job.off, n)
    /\ UNCHANGED <<cells, chip, dst, slow>>

FrameDone ==
    /\ job.op = "read" /\ job.at = "end"
    /\ job' = [job EXCEPT !.at = "frame", !.off = @ + job.n]
    /\ UNCHANGED <<cells, chip, fifo, dst, slow>>

ReadReturns ==
    /\ job.op = "read" /\ job.at = "frame" /\ job.off = job.size
    /\ job' = [job EXCEPT !.op = "done", !.at = "none", !.ret = job.size]
    /\ UNCHANGED <<cells, chip, fifo, dst, slow>>

\* cfi_flash_read: what it returns.
cfi_flash_read(o, n) == IF o >= Total THEN -22 ELSE IF o + n > Total THEN Total - o ELSE n

CfiRead(o, n) ==
    /\ job.op = "idle"
    /\ LET r == cfi_flash_read(o, n)
       IN  /\ job' = [Idle EXCEPT !.op = "cfi", !.addr = o, !.size = n, !.ret = r]
           /\ dst' = IF r < 0 THEN <<>> ELSE [k \in 1 .. r |-> Content(o + k - 1)]
    /\ UNCHANGED <<cells, chip, fifo, slow>>

-----------------------------------------------------------------------------
(* bm_spi_flash_program: erase the sectors, then program and compare.      *)

SrcLen(pages) == Page * Len(pages)
SrcByte(pages, k) == pages[(k \div Page) + 1]

\* The sectors that are erased: one more than the data needs when it fills
\* its last sector, and counted in a uint8_t.
erased_sectors(size) == ((size + Sector) \div Sector) % U8

\* A flash whose id is none of the three, or a base inside a sector, is refused.
ProgramRequest(base, pages, cut) ==
    /\ job.op = "idle"
    /\ LET asked == [Idle EXCEPT !.addr = base, !.size = SrcLen(pages) - cut, !.src = pages]
       IN  \/ base % Sector = 0 /\ job' = [asked EXCEPT !.op = "program", !.at = "erase"]
           \/ job' = [asked EXCEPT !.op = "done", !.ret = -22]
    /\ UNCHANGED <<cells, chip, fifo, dst, slow>>

\* xfer_size: a page, or what is left.
PageSize == Least(Page, job.size - job.off)

\* spi_write_en: the flash ignores it while it is busy.
WriteEnabled == ~chip.busy

\* spi_non_data_tran and spi_data_out_tran send an address in three bytes.
ThreeBytes(a) == a % Low

\* bm_spi_flash_erase_sector: its errors are ignored by the caller.
EraseSector ==
    /\ job.at = "erase" /\ job.i < erased_sectors(job.size)
    /\ LET s == ThreeBytes(job.addr + job.i * Sector)
       IN  IF WriteEnabled
             THEN /\ cells' = [a \in Bytes |-> IF a \in s .. s + Sector - 1 THEN Erased ELSE cells[a]]
                  /\ chip' = [chip EXCEPT !.busy = TRUE]
                  /\ job' = [job EXCEPT !.at = "wip"]
             ELSE /\ UNCHANGED <<cells, chip>>
                  /\ job' = [job EXCEPT !.i = @ + 1]
    /\ UNCHANGED <<fifo, dst, slow>>

\* spi_data_out_tran: the bytes of the page that are sent.  When the FIFO has
\* not emptied for 300 ms the rest stays behind; the first load finds it empty.
Sent == {PageSize} \cup (IF slow < MaxSlow THEN 0 .. Fifo * ((PageSize - 1) \div Fifo) - 1 ELSE {})

\* spi_page_program drops the result of the transfer: n bytes are programmed.
spi_page_program(a, n) ==
    /\ cells' = [b \in Bytes |-> IF b \in a .. a + n - 1
                  THEN (IF cells[b] = Erased THEN SrcByte(job.src, job.off) ELSE Spoilt) ELSE cells[b]]
    /\ chip' = [chip EXCEPT !.busy = n > 0]
    /\ slow' = IF n < PageSize THEN slow + 1 ELSE slow

\* do_page_program: enable, check the status, program.
do_page_program ==
    /\ \/ job.at = "erase" /\ job.i = erased_sectors(job.size)
       \/ job.at = "page"
    /\ job.off < job.size
    /\ IF WriteEnabled
         THEN /\ \E n \in Sent : spi_page_program(ThreeBytes(job.addr + job.off), n)
              /\ job' = [job EXCEPT !.at = "wip", !.i = erased_sectors(job.size)]
         ELSE /\ job' = [job EXCEPT !.op = "done", !.at = "none", !.ret = -1]
              /\ UNCHANGED <<cells, chip, slow>>
    /\ UNCHANGED <<fifo, dst>>

\* The flash is done.
ChipReady ==
    /\ chip.busy
    /\ chip' = [chip EXCEPT !.busy = FALSE]
    /\ UNCHANGED <<cells, fifo, job, dst, slow>>

\* The status has lost WIP, or the wait has run out, which is no error.
WipOver ==
    /\ job.at = "wip"
    /\ IF chip.busy THEN slow < MaxSlow /\ slow' = slow + 1 ELSE slow' = slow
    /\ IF job.i < erased_sectors(job.size)
         THEN job' = [job EXCEPT !.at = "erase", !.i = @ + 1] /\ UNCHANGED <<fifo, dst>>
         ELSE /\ job' = [job EXCEPT !.at = "in", !.n = PageSize, !.got = 0]
              /\ StartTran(job.addr + job.off, PageSize)
              /\ UNCHANGED dst
    /\ UNCHANGED <<cells, chip>>

\* The page is compared with what was read.  What spi_data_read returned is
\* not looked at: without data, cmp_buf holds the page before, or anything.
Verify ==
    /\ job.op = "program" /\ job.at = "end"
    /\ \E same \in BOOLEAN :
         /\ Len(dst) >= PageSize => same = (\A k \in 1 .. PageSize : dst[k] = SrcByte(job.src, job.off))
         /\ job' = IF ~same THEN [job EXCEPT !.op = "done", !.at = "none", !.ret = -1]
                   ELSE IF job.off + PageSize = job.size
                     THEN [job EXCEPT !.op = "done", !.at = "none", !.off = job.size, !.ret = 0]
                   ELSE [job EXCEPT !.at = "page", !.off = @ + PageSize]
    /\ UNCHANGED <<cells, chip, fifo, dst, slow>>

-----------------------------------------------------------------------------
FlashInit ==
    /\ cells = [a \in Bytes |-> Original(a)]
    /\ chip = [busy |-> FALSE]
    /\ fifo = Quiet
    /\ job = Idle
    /\ dst = <<>>
    /\ slow = 0

DriverRuns ==
    \/ spi_data_in_tran \/ bm_spi_flash_read \/ FrameDone \/ ReadReturns
    \/ EraseSector \/ do_page_program \/ WipOver \/ Verify

FlashNext ==
    \/ \E r \in Reads : ReadRequest(r[1], r[2]) \/ CfiRead(r[1], r[2])
    \/ \E p \in Programs : ProgramRequest(p[1], p[2], p[3])
    \/ DriverRuns \/ InTimeout
    \/ FifoFill \/ ChipReady

FlashSpec == FlashInit /\ [][FlashNext]_flVars
FlashFairSpec == FlashSpec /\ WF_flVars(DriverRuns) /\ WF_flVars(FifoFill) /\ WF_flVars(ChipReady)

-----------------------------------------------------------------------------
FlashTypeOK ==
    /\ cells \in [Bytes -> Int] /\ chip \in [busy : BOOLEAN]
    /\ fifo.here \in 0 .. Fifo /\ fifo.left \in 0 .. Tran
    /\ job.op \in {"idle", "read", "program", "done", "cfi"}
    /\ dst \in Seq(Int) /\ slow \in 0 .. MaxSlow

\* A read that returns its size has the bytes of the flash in the buffer, at
\* their places, over all frames and FIFO loads; both drivers.
FlashReadExact ==
    /\ job.op = "done" /\ job.src = <<>> /\ job.ret >= 0
         => /\ job.ret = job.size /\ Len(dst) >= job.size
            /\ \A k \in 1 .. job.size : dst[k] = Content(job.addr + k - 1)
    /\ job.op = "cfi" /\ job.ret >= 0
         => job.addr + job.ret <= Total /\ (job.ret = job.size \/ job.addr + job.ret = Total)

\* The driver writes less than a word past the bytes asked for.
OverrunBelowWord ==
    job.src = <<>> => Len(dst) < job.size + Word

\* Programming reports success only with the data in the flash, although the
\* errors of erasing are dropped and a slow flash is given up on silently.  The
\* exception is a comparison without data: cmp_buf holds the page before.
ProgramVerified ==
    job.op = "done" /\ job.src # <<>> /\ job.ret = 0
      => job.blind \/ \A k \in 0 .. job.size - 1 : cells[job.addr + k] = SrcByte(job.src, k)

\* Programming touches its own sectors and the one that follows data which
\* fills the last of them.  Three address bytes reach that one: after the last
\* sector it is the first of the flash.
ProgramStays ==
    \A a \in Bytes : cells'[a] # cells[a]
      => \E k \in 0 .. Sector * (job.size \div Sector + 1) - 1 : a = (job.addr + k) % Low

\* Every request ends, when the flash and the controller get on.
FlashJobsEnd == (job.op \in {"read", "program"}) ~> (job.op = "done")

\* What calls of the flash return is true, and reads stay in their buffer.
FlashExact == FlashTypeOK /\ FlashReadExact /\ OverrunBelowWord /\ ProgramVerified
=============================================================================
