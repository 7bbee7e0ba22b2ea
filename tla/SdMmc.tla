------------------------------- MODULE SdMmc --------------------------------
(***************************************************************************)
(* The SD card driver: the protocol of drivers/blkdev/sdhci-dwc/mmc.c over *)
(* the host controller of sd.c, in the mode the driver uses (SD_USE_PIO,   *)
(* whose bit is also MMC_FLAG_CMD23).  The controller and the card are     *)
(* external; they run concurrently with the driver, which polls.           *)
(*                                                                         *)
(* A call is a script of commands and other steps.  The interrupt status   *)
(* of the controller is written back to clear it, whatever bits it holds.  *)
(***************************************************************************)
EXTENDS Integers, Sequences, FiniteSets, FiniteSetsExt

CONSTANTS
    NBlocks,        \* blocks of the card
    MaxCalls,       \* bound: calls after the card has been set up
    MaxFaults,      \* bound: faults of the line, the card and the clock
    StateRetries,   \* MMC_DEFAULT_MAX_RETRIES
    OpCondRetries   \* SEND_OP_COND_MAX_RETRIES

ASSUME SdAssumption ==
    /\ NBlocks \in Nat \ {0} /\ MaxCalls \in Nat /\ MaxFaults \in Nat
    /\ StateRetries \in Nat \ {0} /\ OpCondRetries \in Nat \ {0}

VARIABLES
    host,           \* registers and data engine of the controller
    card,           \* the card
    media,          \* what the blocks of the card hold
    drv,            \* the driver: its call and where it is
    mem,            \* the buffer of the call
    faults          \* the faults so far

sdVars == <<host, card, media, drv, mem, faults>>

Blocks == 0 .. NBlocks - 1
MMC_BLOCK_SIZE == 512
None == -1
Damaged == -2
Scr == -3           \* the register an ACMD51 sends
Wiped == -4
Written(i) == 100 + i

\* The cards: high capacity or byte-addressed, with or without CMD23.
Cards == [hc : BOOLEAN, has23 : BOOLEAN]

CardIdle(kind) == [kind |-> kind, st |-> "idle", app |-> FALSE, count |-> 0, at |-> 0, er |-> <<0, 0>>]

HostReset == [cmd |-> "none", arg |-> 0, dat |-> "idle", count |-> 0, left |-> 0, buf |-> None,
              open |-> FALSE, int |-> {}, err |-> FALSE, clk |-> "off",
              resp |-> [cmd |-> "none", st |-> "idle", ready |-> FALSE, ok |-> FALSE]]

DriverOff == [call |-> "off", pc |-> 1, sent |-> FALSE, i |-> 0, lba |-> 0, n |-> 0, tries |-> 0,
              type |-> "hc", ocr |-> "byte", rca |-> FALSE, wild |-> FALSE, ret |-> None, calls |-> 0,
              last |-> "none", bad |-> FALSE, asked |-> {}]

-----------------------------------------------------------------------------
(* The scripts of the calls.                                               *)

\* mmc_enumerate, with the calls it makes in place: mmc_reset_to_idle (CMD0),
\* sd_send_op_cond (CMD55, ACMD41), mmc_set_ios and mmc_sd_switch (from
\* "prepare" on).  The branches of an eMMC are not modelled.
mmc_enumerate ==
    << "init", "CMD0", "CMD8", "CMD55", "ACMD41", "CMD2", "CMD3", "CMD9", "CMD7", "state",
       "prepare", "CMD55", "ACMD51", "read", "CMD55", "ACMD6", "state", "ios" >>

mmc_read_blocks == <<"prepare", "CMD23", "CMD18", "read", "state">>

mmc_write_blocks == <<"prepare", "CMD23", "CMD25", "write", "state">>

mmc_erase_blocks == <<"CMD32", "CMD33", "CMD38", "state">>

Script(call) ==
    CASE call = "enumerate" -> mmc_enumerate
      [] call = "read" -> mmc_read_blocks
      [] call = "write" -> mmc_write_blocks
      [] call = "erase" -> mmc_erase_blocks
      [] OTHER -> <<>>

Running == drv.call \in {"enumerate", "read", "write", "erase"}
Step == Script(drv.call)[drv.pc]
Sends(c) == IF Step = "state" THEN c = "CMD13" ELSE c = Step
SdCommands == {"CMD0", "CMD8", "CMD55", "ACMD41", "CMD2", "CMD3", "CMD9", "CMD7", "CMD13", "ACMD51",
             "ACMD6", "CMD23", "CMD18", "CMD25", "CMD32", "CMD33", "CMD38"}

\* The states of the card that end the loop around mmc_device_state.
Awaited ==
    CASE drv.call = "enumerate" /\ drv.pc < 11 -> {"tran"}
      [] drv.call = "enumerate" -> {"stby", "tran", "data", "rcv"}
      [] drv.call = "read" -> {"tran", "data"}
      [] drv.call = "write" -> {"tran", "rcv"}
      [] OTHER -> {"tran"}

\* Mutant: the block number is sent to byte-addressed cards too.
WriteArgBlocks == drv.lba
ReadArgBlocks == drv.lba

\* The block address in the argument of a command: bytes or blocks.
ReadArg == IF drv.ocr = "byte" /\ drv.type # "hc" THEN drv.lba * MMC_BLOCK_SIZE ELSE drv.lba
WriteArg == IF drv.ocr = "byte" THEN drv.lba * MMC_BLOCK_SIZE ELSE drv.lba

Argument(c) ==
    CASE c = "CMD23" -> drv.n
      [] c = "CMD18" -> ReadArg
      [] c = "CMD25" -> WriteArg
      [] c = "CMD33" -> drv.lba + drv.n - 1
      [] OTHER -> drv.lba

-----------------------------------------------------------------------------
(* The driver.                                                             *)

\* The call is over.
Returns(v) ==
    drv' = [drv EXCEPT !.call = IF @ = "enumerate" /\ v = 0 THEN "dead" ELSE "idle",
                       !.pc = 1, !.sent = FALSE, !.i = 0, !.tries = 0, !.ret = v]

\* The retries a step of the script begins with.
Tries(d, pc) ==
    LET step == Script(d.call)[pc]
    IN  IF step \in {"state", "ACMD51"} THEN StateRetries
        ELSE IF d.call = "enumerate" /\ pc = 4 THEN OpCondRetries ELSE d.tries

\* On to step pc of the script; the end of the script is success.
Goto(d, pc) ==
    drv' = IF pc > Len(Script(d.call))
             THEN [d EXCEPT !.call = "idle", !.pc = 1, !.sent = FALSE, !.i = 0, !.tries = 0,
                            !.ret = IF d.call = "enumerate" THEN 1 ELSE d.n]
             ELSE [d EXCEPT !.pc = pc, !.sent = FALSE, !.i = 0, !.tries = Tries(d, pc)]

Next1(d) == Goto(d, d.pc + 1)

\* bm_sd_card_detect and bm_sd_init of the probe: phy_init resets the
\* controller, and mmc_init starts the enumeration.
bm_sd_init ==
    /\ drv.call = "off"
    /\ host' = HostReset
    /\ drv' = [drv EXCEPT !.call = "enumerate"]
    /\ UNCHANGED <<card, media, mem, faults>>

\* The calls of the block device, and mmc_erase_blocks.
BlkCall(call, lba, n) ==
    /\ drv.call = "idle" /\ drv.calls < MaxCalls
    /\ lba + n <= NBlocks
    /\ drv' = [drv EXCEPT !.call = call, !.pc = 1, !.lba = lba, !.n = n, !.ret = None, !.calls = @ + 1,
                          !.wild = FALSE, !.last = call, !.bad = host.err,
                          !.asked = IF call = "read" THEN @ ELSE @ \cup (lba .. lba + n - 1)]
    /\ mem' = <<>>
    /\ UNCHANGED <<host, card, media, faults>>

\* The divisor bm_sd_set_clk finds for a frequency, in kHz.
ClkDiv(rate, clk) ==
    LET found == {d \in 1 .. 1022 : rate \div (2 * d) <= clk}
    IN  IF rate <= clk THEN 0 ELSE IF found = {} THEN 1023 ELSE Min(found)
Freq(rate, div) == IF div = 0 THEN rate ELSE rate \div (2 * div)

InitClock == IF Freq(400000, ClkDiv(400000, 200)) <= 400 THEN "ident" ELSE "fast"
TranClock == IF Freq(400000, ClkDiv(400000, 25000)) <= 25000 THEN "tran" ELSE "fast"

\* bm_sd_hw_init resets the command and data circuits and sets the clock.
bm_sd_hw_init ==
    /\ Running /\ Step = "init"
    /\ host' = [host EXCEPT !.cmd = "none", !.dat = "idle", !.buf = None, !.clk = InitClock]
    /\ Next1(drv)
    /\ UNCHANGED <<card, media, mem, faults>>

\* bm_sd_set_ios changes the clock: the bus width is not in the model.
bm_sd_set_ios ==
    /\ Running /\ Step = "ios"
    /\ host' = [host EXCEPT !.clk = TranClock]
    /\ Next1(drv)
    /\ UNCHANGED <<card, media, mem, faults>>

\* bm_sd_prepare sets the size and the number of the blocks.
bm_sd_prepare ==
    /\ Running /\ Step = "prepare"
    /\ host' = [host EXCEPT !.count = IF drv.call = "enumerate" THEN 1 ELSE drv.n]
    /\ Next1(drv)
    /\ UNCHANGED <<card, media, mem, faults>>

\* bm_sd_send_cmd: what goes the way of commands with data.
WithData(c) == c \in {"CMD18", "CMD25", "ACMD51"}

\* bm_sd_send_cmd_without_data waits for the command line and, but for CMD0,
\* for the data lines; bm_sd_send_cmd_with_data for the command line only.
\* Both loops are without a bound.
SendCommand(c) ==
    /\ Running /\ ~drv.sent /\ Sends(c)
    /\ host.cmd = "none"
    /\ WithData(c) \/ c = "CMD0" \/ host.dat = "idle"
    /\ host' = [host EXCEPT !.cmd = c, !.arg = Argument(c)]
    /\ drv' = [drv EXCEPT !.sent = TRUE]
    /\ UNCHANGED <<card, media, mem, faults>>

\* mmc_device_state has a response: loop while the card is not ready, return
\* its state otherwise; the caller calls again until the state is awaited.
mmc_device_state(r) ==
    \/ r.ready /\ r.st \in Awaited /\ Next1(drv)
    \/ r.ready /\ r.st \notin Awaited
         /\ drv' = [drv EXCEPT !.sent = FALSE, !.tries = StateRetries]
    \/ ~r.ready
         /\ IF drv.tries = 1 THEN Returns(0)
            ELSE drv' = [drv EXCEPT !.sent = FALSE, !.tries = @ - 1, !.i = 1]

\* CMD13 failed: "continue" evaluates the response of this call of
\* mmc_device_state, which is not there when no CMD13 has succeeded in it.
StateFailed ==
    \/ IF drv.tries = 1 THEN Returns(0)
       ELSE drv' = [drv EXCEPT !.sent = FALSE, !.tries = @ - 1]
    \/ drv.i = 0 /\ Goto([drv EXCEPT !.wild = TRUE], drv.pc + 1)
    \/ drv.i = 0 /\ drv' = [drv EXCEPT !.wild = TRUE, !.sent = FALSE, !.tries = StateRetries]

\* sd_send_op_cond: CMD55 and ACMD41 until the card is powered up.
sd_send_op_cond(r) ==
    \/ r.cmd = "ACMD41" /\ r.ok
         /\ Next1([drv EXCEPT !.type = IF card.kind.hc THEN "hc" ELSE "sd",
                                 !.ocr = IF card.kind.hc THEN "sector" ELSE "byte"])
    \/ ~(r.cmd = "ACMD41" /\ r.ok)
         /\ IF drv.tries = 1 THEN Returns(0)
                ELSE drv' = [drv EXCEPT !.pc = 4, !.sent = FALSE, !.tries = @ - 1]

\* What the caller does with the response of a command.
TakeResponse(r) ==
    CASE Step = "state" -> mmc_device_state(r)
      [] Step = "ACMD41" -> sd_send_op_cond(r)
      [] Step = "CMD8" -> Goto(drv, IF r.cmd = "CMD8" /\ r.ok THEN drv.pc + 1 ELSE drv.pc + 3)
      [] Step = "CMD3" -> Next1([drv EXCEPT !.rca = (r.cmd = "CMD3")])
      [] OTHER -> Next1(drv)

\* What it does when the command failed: all calls return but for the
\* retries of ACMD51, which are not preceded by CMD55, and of CMD13.
CommandFailed ==
    CASE Step = "state" -> StateFailed
      [] Step = "ACMD51" /\ drv.tries > 0 -> drv' = [drv EXCEPT !.sent = FALSE, !.tries = @ - 1]
      [] OTHER -> Returns(0)

\* The poll of the status sees the completion and writes back all it has read.
CommandComplete ==
    /\ Running /\ drv.sent /\ ~host.err /\ "cc" \in host.int
    /\ host' = [host EXCEPT !.int = {}]
    /\ TakeResponse(host.resp)
    /\ UNCHANGED <<card, media, mem, faults>>

\* The poll sees an error, which nothing ever clears, or runs out of time.
CommandError ==
    /\ Running /\ drv.sent /\ host.err
    /\ CommandFailed
    /\ UNCHANGED <<host, card, media, mem, faults>>

CommandTimeout ==
    /\ Running /\ drv.sent /\ ~host.err /\ "cc" \notin host.int /\ faults < MaxFaults
    /\ faults' = faults + 1
    /\ CommandFailed
    /\ UNCHANGED <<host, card, media, mem>>

Wanted == IF drv.call = "enumerate" THEN 1 ELSE drv.n
CanRead == "rd" \in host.int /\ host.buf # None
CanWrite == "wr" \in host.int /\ host.open

\* bm_sd_read: a block is in the buffer of the controller; errors are not looked at.
ReadBlock ==
    /\ Running /\ Step = "read" /\ drv.i < Wanted /\ CanRead
    /\ host' = [host EXCEPT !.int = @ \ {"rd"}, !.buf = None]
    /\ mem' = Append(mem, host.buf)
    /\ drv' = [drv EXCEPT !.i = @ + 1]
    /\ UNCHANGED <<card, media, faults>>

\* bm_sd_write: the first block is written to the buffer without waiting for
\* it, and is lost when the buffer is not open yet.
WriteBlock ==
    /\ Running /\ Step = "write" /\ drv.i < Wanted
    /\ drv.i = 0 \/ CanWrite
    /\ host' = [host EXCEPT !.int = IF drv.i = 0 THEN @ ELSE @ \ {"wr"},
                            !.open = FALSE,
                            !.buf = IF host.open THEN Written(drv.i) ELSE @]
    /\ drv' = [drv EXCEPT !.i = @ + 1]
    /\ UNCHANGED <<card, media, mem, faults>>

\* The end of both: the transfer is complete.
TransferComplete ==
    /\ Running /\ Step \in {"read", "write"} /\ drv.i = Wanted
    /\ "xc" \in host.int
    /\ host' = [host EXCEPT !.int = {}]
    /\ Next1(drv)
    /\ UNCHANGED <<card, media, mem, faults>>

\* A wait of bm_sd_read or bm_sd_write ran out of time: the bit it waits for
\* is lost, or the controller does not get on.
Stalled ==
    /\ Step \in {"read", "write"}
    /\ IF drv.i = Wanted THEN "xc" \notin host.int
       ELSE IF Step = "read" THEN ~CanRead ELSE drv.i > 0 /\ ~CanWrite

TransferTimeout ==
    /\ Running /\ Stalled
    /\ Returns(0)
    /\ UNCHANGED <<host, card, media, mem, faults>>

DriverStep ==
    \/ bm_sd_init \/ bm_sd_hw_init \/ bm_sd_set_ios \/ bm_sd_prepare
    \/ \E c \in SdCommands : SendCommand(c)
    \/ CommandComplete \/ CommandError
    \/ ReadBlock \/ WriteBlock \/ TransferComplete \/ TransferTimeout

-----------------------------------------------------------------------------
(* The card and the controller: external.                                  *)

\* The card obeys c, or stays silent: not in the right state, no CMD55 before
\* an application command, not its address, or a clock it cannot follow.
Addressed(c) == c \in {"CMD9", "CMD7", "CMD13", "ACMD51", "ACMD6"} \/ (c = "CMD55" /\ card.st # "idle")

Obeys(c) ==
    /\ Addressed(c) => drv.rca
    /\ c \in {"ACMD41", "ACMD51", "ACMD6"} => card.app
    /\ card.st \in {"idle", "ready", "ident"} => host.clk = "ident"
    /\ CASE c = "CMD0" -> TRUE
         [] c \in {"CMD8", "ACMD41"} -> card.st = "idle"
         [] c = "CMD2" -> card.st = "ready"
         [] c = "CMD3" -> card.st = "ident"
         [] c \in {"CMD9", "CMD7"} -> card.st = "stby"
         [] c = "CMD13" -> card.st \in {"stby", "tran", "data", "rcv", "prg"}
         [] c = "CMD55" -> card.st \in {"idle", "stby", "tran", "data", "rcv", "prg"}
         [] c = "CMD23" -> card.st = "tran" /\ card.kind.has23
         [] c \in {"ACMD51", "ACMD6", "CMD18", "CMD25", "CMD32", "CMD33", "CMD38"} -> card.st = "tran"

BlockOf(arg) == IF card.kind.hc THEN arg ELSE arg \div MMC_BLOCK_SIZE

\* The card after c; up says whether ACMD41 finds it powered up.
CardAfter(c, arg, up) ==
    LET k == [card EXCEPT !.app = (c = "CMD55")]
    IN  CASE c = "CMD0" -> CardIdle(card.kind)
          [] c = "ACMD41" -> [k EXCEPT !.st = IF up THEN "ready" ELSE "idle"]
          [] c = "CMD2" -> [k EXCEPT !.st = "ident"]
          [] c = "CMD3" -> [k EXCEPT !.st = "stby"]
          [] c = "CMD7" -> [k EXCEPT !.st = "tran"]
          [] c = "CMD23" -> [k EXCEPT !.count = arg]
          [] c = "ACMD51" -> [k EXCEPT !.st = "data", !.count = 1, !.at = Scr]
          [] c = "CMD18" -> [k EXCEPT !.st = "data", !.at = BlockOf(arg)]
          [] c = "CMD25" -> [k EXCEPT !.st = "rcv", !.at = BlockOf(arg)]
          [] c = "CMD32" -> [k EXCEPT !.er[1] = BlockOf(arg)]
          [] c = "CMD33" -> [k EXCEPT !.er[2] = BlockOf(arg)]
          [] c = "CMD38" -> [k EXCEPT !.st = "prg"]
          [] OTHER -> k

Response(c, up) == [cmd |-> c, st |-> card.st, ready |-> card.st # "prg", ok |-> up]

\* The card answers a command; one it does not obey ends in an error.
CardAnswers(up) ==
    /\ host.cmd # "none"
    /\ up \/ host.cmd \in {"CMD8", "ACMD41"}
    /\ IF Obeys(host.cmd)
         THEN /\ card' = CardAfter(host.cmd, host.arg, up)
              /\ media' = IF host.cmd = "CMD38"
                            THEN [b \in Blocks |-> IF b \in card.er[1] .. card.er[2] THEN Wiped ELSE media[b]]
                            ELSE media
              /\ host' = [host EXCEPT
                    !.cmd = "none", !.int = @ \cup {"cc"}, !.resp = Response(host.cmd, up),
                    !.dat = IF host.cmd \in {"CMD18", "ACMD51"} THEN "read"
                            ELSE IF host.cmd = "CMD25" THEN "write" ELSE @,
                    !.left = IF WithData(host.cmd) THEN host.count ELSE @]
         ELSE host' = [host EXCEPT !.cmd = "none", !.err = TRUE] /\ UNCHANGED <<card, media>>
    /\ UNCHANGED <<drv, mem, faults>>

\* The answer is damaged.
AnswerDamaged ==
    /\ host.cmd # "none" /\ faults < MaxFaults
    /\ host' = [host EXCEPT !.cmd = "none", !.err = TRUE]
    /\ card' = IF Obeys(host.cmd) THEN CardAfter(host.cmd, host.arg, TRUE) ELSE card
    /\ faults' = faults + 1
    /\ UNCHANGED <<media, drv, mem>>

\* A block comes from the card; damaged ones set the error and are handed over.
BlockIn(good) ==
    /\ host.dat = "read" /\ host.left > 0 /\ host.buf = None
    /\ card.st = "data" /\ card.count > 0
    /\ good \/ faults < MaxFaults
    /\ host' = [host EXCEPT !.left = @ - 1, !.int = @ \cup {"rd"}, !.err = @ \/ ~good,
                            !.buf = IF ~good THEN Damaged ELSE IF card.at = Scr THEN Scr
                                    ELSE IF card.at \in Blocks THEN media[card.at] ELSE Damaged]
    /\ card' = [card EXCEPT !.count = @ - 1, !.at = IF @ = Scr THEN @ ELSE @ + 1,
                            !.st = IF card.count = 1 THEN "tran" ELSE @]
    /\ faults' = IF good THEN faults ELSE faults + 1
    /\ UNCHANGED <<media, drv, mem>>

\* The buffer is open for a block of a write.
BufferOpen ==
    /\ host.dat = "write" /\ host.left > 0 /\ host.buf = None /\ ~host.open
    /\ host' = [host EXCEPT !.open = TRUE, !.int = @ \cup {"wr"}]
    /\ UNCHANGED <<card, media, drv, mem, faults>>

\* A block goes to the card.
BlockOut ==
    /\ host.dat = "write" /\ host.buf # None /\ card.st = "rcv"
    /\ host' = [host EXCEPT !.left = @ - 1, !.buf = None]
    /\ card' = [card EXCEPT !.count = @ - 1, !.at = @ + 1, !.st = IF card.count = 1 THEN "prg" ELSE @]
    /\ media' = [media EXCEPT ![card.at] = host.buf]
    /\ UNCHANGED <<drv, mem, faults>>

\* All blocks have been moved.
DataEnd ==
    /\ host.dat # "idle" /\ host.left = 0 /\ host.buf = None
    /\ host' = [host EXCEPT !.dat = "idle", !.open = FALSE, !.int = @ \cup {"xc"}]
    /\ UNCHANGED <<card, media, drv, mem, faults>>

CardProgrammed ==
    /\ card.st = "prg"
    /\ card' = [card EXCEPT !.st = "tran"]
    /\ UNCHANGED <<host, media, drv, mem, faults>>

HardwareStep ==
    \/ CardAnswers(TRUE) \/ BlockIn(TRUE) \/ BufferOpen \/ BlockOut \/ DataEnd \/ CardProgrammed

-----------------------------------------------------------------------------
SdInit ==
    /\ host = HostReset
    /\ card \in {CardIdle(k) : k \in Cards}
    /\ media = [b \in Blocks |-> b]
    /\ drv = DriverOff
    /\ mem = <<>>
    /\ faults = 0

SdNext ==
    \/ DriverStep
    \/ \E call \in {"read", "write", "erase"}, lba \in Blocks, n \in 1 .. NBlocks : BlkCall(call, lba, n)
    \/ CommandTimeout
    \/ HardwareStep \/ CardAnswers(FALSE) \/ AnswerDamaged \/ BlockIn(FALSE)

SdSpec == SdInit /\ [][SdNext]_sdVars
SdFairSpec == SdSpec /\ WF_sdVars(DriverStep) /\ WF_sdVars(HardwareStep)

-----------------------------------------------------------------------------
SdTypeOK ==
    /\ host.int \subseteq {"cc", "rd", "wr", "xc"} /\ host.cmd \in SdCommands \cup {"none"}
    /\ host.dat \in {"idle", "read", "write"} /\ host.left \in 0 .. NBlocks
    /\ card.st \in {"idle", "ready", "ident", "stby", "tran", "data", "rcv", "prg"}
    /\ media \in [Blocks -> Int] /\ mem \in Seq(Int)
    /\ drv.call \in {"off", "idle", "dead", "enumerate", "read", "write", "erase"}
    /\ drv.tries \in 0 .. StateRetries + OpCondRetries
    /\ faults \in 0 .. MaxFaults

\* A read that returns its size has put the blocks it was asked for into the
\* buffer, in order: whatever the controller did while the driver polled, and
\* although bm_sd_read does not look at errors.  The exception is a status word
\* mmc_device_state took from a response it never had.
ReadDelivers ==
    drv.call = "idle" /\ drv.last = "read" /\ drv.ret > 0
      => drv.wild \/ mem = [i \in 1 .. drv.n |-> media[drv.lba + i - 1]]

\* A write that returns its size is on the card, although its first block is
\* put into the buffer before the controller asks for it.
WriteLands ==
    drv.call = "idle" /\ drv.last = "write" /\ drv.ret > 0
      => \A i \in 0 .. drv.n - 1 : media[drv.lba + i] = Written(i)

\* Only blocks that a write or an erase has been asked for change, on a card of
\* either addressing; an erase that ran out of time may still happen later.
\* mmc_erase_blocks gives block numbers also to a byte-addressed card, and is
\* left out there.
OnlyBlocksAskedFor ==
    \A b \in Blocks \ drv.asked : media'[b] # media[b]
       => host.cmd = "CMD38" /\ ~card.kind.hc

\* The driver does not recover: a call that begins with the error bit set does
\* not succeed, since nothing writes the error status back.
ErrorsStay == drv.call = "idle" /\ drv.bad => drv.ret \in {None, 0}

\* A call returns, unless it waits for data lines that a failed transfer has
\* left busy (the waits for them have no bound), or loops on a status word that
\* was never there.
CallsReturn == (Running /\ drv.calls > 0)
    ~> (~Running \/ drv.wild \/ (~drv.sent /\ host.dat # "idle"))

\* What calls of the card return is true: of reads, of writes, of errors.
CardExact == SdTypeOK /\ ReadDelivers /\ WriteLands /\ ErrorsStay
=============================================================================
