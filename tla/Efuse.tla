------------------------------- MODULE Efuse --------------------------------
(***************************************************************************)
(* The fuses behind nvmem: drivers/nvmem/sophgo-efuse and nvmem.c.  The    *)
(* controller reads a cell of Word bytes or burns one bit at a time, and   *)
(* the driver polls its mode until it is idle again.  A byte is the set of *)
(* its bits that are burnt.                                                *)
(***************************************************************************)
EXTENDS Integers, Sequences, FiniteSets

CONSTANTS
    Word,           \* bytes of a cell: 4
    CellCount,      \* cells the address bits can select: 256
    Bits,           \* bits of a byte: 0 to 7
    Bytes,          \* bytes that are written
    FuseStarts,     \* contents to start from
    MaxFuse,        \* bound: length of an access
    MaxCalls        \* bound: accesses

ASSUME EfuseAssumption ==
    /\ Word \in Nat \ {0} /\ CellCount \in Nat \ {0} /\ MaxFuse \in Nat /\ MaxCalls \in Nat
    /\ Bits \subseteq Nat /\ Bytes \subseteq SUBSET Bits
    /\ FuseStarts \subseteq [0 .. Word * CellCount - 1 -> SUBSET Bits]

VARIABLES
    fuse,           \* the bytes: burnt bits
    ctl,            \* the controller: mode, address and data registers
    job,            \* the access under way
    done,           \* what the last access did
    fcalls          \* accesses so far

efVars == <<fuse, ctl, job, done, fcalls>>

Total == Word * CellCount
NoJob == [op |-> "none", off |-> 0, left |-> 0, buf |-> <<>>, at |-> "idle", todo |-> {}, first |-> 0, was |-> <<>>]
NoResult == [op |-> "none", off |-> 0, buf |-> <<>>, was |-> <<>>]

Min2(a, b) == IF a < b THEN a ELSE b

\* The bytes of the next cell: a head that starts inside the cell, a whole
\* cell, or a tail.
WritePiece(off, left) == IF off % Word # 0 THEN Min2(Word - (off % Word), left) ELSE Min2(Word, left)

ReadPiece(off, left) == IF off % Word # 0 THEN Min2(Word - (off % Word), left) ELSE Min2(Word, left)

\* make_adr_val keeps the low bits of the cell's number.
Cell(off) == (off \div Word) % CellCount
ByteAt(cell, i) == cell * Word + i

-----------------------------------------------------------------------------
(* efuse_read and efuse_write.                                             *)

Access(op, off, n, data) ==
    /\ job.op = "none" /\ fcalls < MaxCalls
    /\ job' = [op |-> op, off |-> off, left |-> n, buf |-> data, at |-> "cell", todo |-> {}, first |-> off, was |-> fuse]
    /\ fcalls' = fcalls + 1 /\ done' = NoResult
    /\ UNCHANGED <<fuse, ctl>>

efuse_read(off, n) == Access("read", off, n, <<>>)
efuse_write(off, data) == Access("write", off, Len(data), data)

AccessReturns ==
    /\ job.op # "none" /\ job.at = "cell" /\ job.left = 0
    /\ done' = [op |-> job.op, off |-> job.first, buf |-> job.buf, was |-> job.was]
    /\ job' = NoJob
    /\ UNCHANGED <<fuse, ctl, fcalls>>

\* efuse_embedded_read first resets the mode and waits.
ReadCell ==
    /\ job.op = "read" /\ job.at = "cell" /\ job.left > 0
    /\ ctl' = [ctl EXCEPT !.mode = 0]
    /\ job' = [job EXCEPT !.at = "reset"]
    /\ UNCHANGED <<fuse, done, fcalls>>

\* The address is written, then mode 2 starts the read.
StartRead ==
    /\ job.at = "reset" /\ ctl.mode = 0
    /\ ctl' = [ctl EXCEPT !.adr = [cell |-> Cell(job.off), bit |-> <<0, 0>>], !.mode = 2]
    /\ job' = [job EXCEPT !.at = "wait"]
    /\ UNCHANGED <<fuse, done, fcalls>>

\* efuse_mode_wait_ready
Ready == ctl.mode = 0

TakeData ==
    /\ job.op = "read" /\ job.at = "wait" /\ Ready
    /\ LET n == ReadPiece(job.off, job.left)
           s == job.off % Word
       IN  job' = [job EXCEPT !.buf = @ \o SubSeq(ctl.data, s + 1, s + n), !.left = @ - n, !.off = @ + n, !.at = "cell"]
    /\ UNCHANGED <<fuse, ctl, done, fcalls>>

\* Mutant: the head is written at the start of its cell.
BitsOfLow(n, s) == {x \in (0 .. Word - 1) \X Bits : x[1] < n /\ x[2] \in job.buf[job.off - job.first + x[1] + 1]}

\* The bits of the next cell's word that are 1: byte and bit.
BitsOf(n, s) == {x \in (0 .. Word - 1) \X Bits : x[1] \in s .. s + n - 1 /\ x[2] \in job.buf[job.off - job.first + x[1] - s + 1]}

WriteCell ==
    /\ job.op = "write" /\ job.at = "cell" /\ job.left > 0
    /\ job' = [job EXCEPT !.todo = BitsOf(WritePiece(job.off, job.left), job.off % Word), !.at = "bits"]
    /\ UNCHANGED <<fuse, ctl, done, fcalls>>

\* efuse_set_bit: the address and the bit, then mode 3.  No reset before.
efuse_set_bit ==
    /\ job.at = "bits" /\ job.todo # {}
    /\ LET b == CHOOSE x \in job.todo : \A y \in job.todo : x[1] < y[1] \/ (x[1] = y[1] /\ x[2] <= y[2])
       IN  /\ ctl' = [ctl EXCEPT !.adr = [cell |-> Cell(job.off), bit |-> b], !.mode = 3]
           /\ job' = [job EXCEPT !.todo = @ \ {b}, !.at = "burn"]
    /\ UNCHANGED <<fuse, done, fcalls>>

BitBurnt ==
    /\ job.at = "burn" /\ Ready
    /\ job' = [job EXCEPT !.at = "bits"]
    /\ UNCHANGED <<fuse, ctl, done, fcalls>>

CellWritten ==
    /\ job.at = "bits" /\ job.todo = {}
    /\ LET n == WritePiece(job.off, job.left)
       IN  job' = [job EXCEPT !.left = @ - n, !.off = @ + n, !.at = "cell"]
    /\ UNCHANGED <<fuse, ctl, done, fcalls>>

\* The controller: a read fills the data register, a burn sets the bit that
\* the address register selects then.
ControllerReads ==
    /\ ctl.mode = 2
    /\ ctl' = [ctl EXCEPT !.mode = 0, !.data = [i \in 1 .. Word |-> fuse[ByteAt(ctl.adr.cell, i - 1)]]]
    /\ UNCHANGED <<fuse, job, done, fcalls>>
ControllerBurns ==
    /\ ctl.mode = 3
    /\ fuse' = [fuse EXCEPT ![ByteAt(ctl.adr.cell, ctl.adr.bit[1])] = @ \cup {ctl.adr.bit[2]}]
    /\ ctl' = [ctl EXCEPT !.mode = 0]
    /\ UNCHANGED <<job, done, fcalls>>

EfInit ==
    /\ fuse \in FuseStarts
    /\ ctl = [mode |-> 0, adr |-> [cell |-> 0, bit |-> <<0, 0>>], data |-> [i \in 1 .. Word |-> {}]]
    /\ job = NoJob /\ done = NoResult /\ fcalls = 0

Offsets == 0 .. Total + Word - 1     \* some are behind the last cell
Data(n) == [1 .. n -> Bytes]

Driver == AccessReturns \/ ReadCell \/ StartRead \/ TakeData \/ WriteCell \/ efuse_set_bit \/ BitBurnt \/ CellWritten
Controller == ControllerReads \/ ControllerBurns
EfNext ==
    \/ Driver \/ Controller
    \/ \E off \in Offsets, n \in 0 .. MaxFuse : efuse_read(off, n) \/ \E d \in Data(n) : efuse_write(off, d)

EfFair == WF_efVars(Driver) /\ WF_efVars(Controller)
EfSpec == EfInit /\ [][EfNext]_efVars /\ EfFair

-----------------------------------------------------------------------------
EfTypeOK ==
    /\ fuse \in [0 .. Total - 1 -> SUBSET Bits]
    /\ ctl.mode \in {0, 2, 3} /\ job.left \in 0 .. MaxFuse

Wrapped(off) == off % Total

\* A read returns the bytes at its offset, however it is cut into cells; an
\* offset behind the last cell comes round to the first.
EfReadExact ==
    done.op = "read" => \A i \in 1 .. Len(done.buf) : done.buf[i] = fuse[Wrapped(done.off + i - 1)]

\* A write burns exactly the bits it was given, at its offset: no other byte of
\* a cell it shares, and bits burnt before stay.
EfWriteExact ==
    done.op = "write" =>
      LET put(a) == UNION {done.buf[i] : i \in {k \in 1 .. Len(done.buf) : Wrapped(done.off + k - 1) = a}}
      IN  \A a \in 0 .. Total - 1 : fuse[a] = done.was[a] \cup put(a)

\* Every access returns: the controller's mode goes back to idle.
EfReturns == job.op # "none" ~> job.op = "none"

\* Efuse reads and writes do to the fuse array what was asked for.
EfuseExact == EfTypeOK /\ EfReadExact /\ EfWriteExact
=============================================================================
