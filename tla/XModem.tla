------------------------------- MODULE XModem -------------------------------
(***************************************************************************)
(* The download command: xmodem_receive of lib/xmodem/xmodem.c, called by  *)
(* command_download of common/commands.c, and the sender at the other end  *)
(* of the serial line, which is not part of the repository.                *)
(*                                                                         *)
(* A packet is three pieces on the line: its header byte, the two bytes of *)
(* its number, and its data with the CRC.  The receiver takes whatever     *)
(* comes first for a header, so that a lost piece makes it read numbers    *)
(* and data as headers.  The CRC finds every damage.                       *)
(***************************************************************************)
EXTENDS Integers, Sequences, FiniteSets

CONSTANTS
    NPackets,        \* blocks of the file
    DataHas,        \* the header bytes that occur in the file's data
    MaxLineFaults,  \* bound: faults of the line
    Faults,         \* the faults it has: "data", "piece" and "reply"
    LineMax,        \* bound: replies on the line, and pieces there when the sender
                    \* still reacts to a reply
    SaveFails       \* whether the save callback may fail

ASSUME XModemAssumption ==
    /\ NPackets \in Nat \ {0} /\ MaxLineFaults \in Nat /\ LineMax \in Nat
    /\ DataHas \subseteq {"EOT"} /\ Faults \subseteq {"data", "piece", "reply"}
    /\ SaveFails \in BOOLEAN

VARIABLES
    to,             \* pieces on their way to the receiver
    back,           \* replies on their way to the sender
    rcv,            \* xmodem_receive: "header", "number", "data", "done"
    saved,          \* the blocks given to the save callback
    result,         \* what xmodem_receive returned
    snd,            \* the sender: the block it sends, and what it waits for
    again,          \* whether the sender takes C for NAK once it has begun
    happened        \* the faults so far

xmVars == <<to, back, rcv, saved, result, snd, again, happened>>

Packets == 1 .. NPackets

\* Pieces.
Soh == [piece |-> "hdr", blk |-> 0, ok |-> TRUE]
Eot == [piece |-> "eot", blk |-> 0, ok |-> TRUE]
Can == [piece |-> "can", blk |-> 0, ok |-> TRUE]
Number(n) == [piece |-> "num", blk |-> n, ok |-> TRUE]
Data(n) == [piece |-> "dat", blk |-> n, ok |-> TRUE]
Packet(n) == <<Soh, Number(n), Data(n)>>

\* No byte came in time; it is stored as 0xff.
Silence == [piece |-> "none", blk |-> 0, ok |-> FALSE]

\* What the first byte of a piece is to a receiver that expects a header: the
\* numbers 1, 2 and 4 are the codes of SOH, STX and EOT.
HeaderOf(p) ==
    CASE p.piece = "hdr" -> {"SOH"}
      [] p.piece = "eot" -> {"EOT"}
      [] p.piece = "num" -> IF p.blk \in {1, 2} THEN {"SOH"} ELSE IF p.blk = 4 THEN {"EOT"} ELSE {"UND"}
      [] p.piece = "dat" -> {"UND"} \cup DataHas
      [] OTHER -> {"UND"}

-----------------------------------------------------------------------------
(* The receiver.                                                           *)

Reply(r) == back' = back \o r

\* Received so far: recv_len counts what was saved.
First == saved = <<>>

\* Mutant: C is sent once, before the loop.
AskingOnce == <<>>

\* The top of the loop: C is sent as long as nothing has been received.
Asking == IF First THEN <<"C">> ELSE <<>>

\* xmodem_receive returns.
Leaves(r, v) ==
    /\ Reply(r)
    /\ rcv' = [at |-> "done", got |-> <<>>]
    /\ result' = v

\* The loop goes on after a reply.
Continues(r, ask) ==
    /\ Reply(r \o ask)
    /\ rcv' = [at |-> "header", got |-> <<>>]
    /\ UNCHANGED result

\* The answer to what is not understood.
Refusal == <<"NAK">>

\* recv_pack's first byte, and what xmodem_receive does when it is no header.
RecvHeader ==
    /\ rcv.at = "header" /\ to # <<>> /\ Len(back) < LineMax
    /\ \E h \in HeaderOf(Head(to)) :
          \/ /\ h = "SOH"
             /\ rcv' = [rcv EXCEPT !.at = "number"]
             /\ UNCHANGED <<back, result>>
          \/ h = "EOT" /\ Leaves(<<"ACK">>, Len(saved))
          \/ h = "UND" /\ Continues(Refusal, Asking)
    /\ to' = Tail(to)
    /\ UNCHANGED <<saved, snd, again, happened>>

\* No header within the time: asked again, or given up.
RecvTimeout ==
    /\ rcv.at = "header" /\ to = <<>> /\ Len(back) < LineMax
    /\ IF First THEN Continues(<<>>, Asking) ELSE Leaves(<<"CAN">>, -1)
    /\ UNCHANGED <<to, saved, snd, again, happened>>

\* The bytes after the header; each is waited for on its own.
RecvByte(p) ==
    /\ rcv.at = "number"
    /\ rcv' = [at |-> "data", got |-> <<p>>]
    /\ UNCHANGED <<back, saved, result>>

\* The number and its complement agree, and so does the CRC.  The number is
\* not compared with the one that is expected.
GoodPack(num, dat) == num.piece = "num" /\ num.ok /\ dat.piece = "dat" /\ dat.ok

\* Mutant: the offset is not advanced.
AcceptedAtStart(p) == <<p.blk>> \o saved

\* The callback appends the data at its offset.
Accepted(p) == Append(saved, IF p.ok THEN p.blk ELSE 0)

\* The last byte of a packet, and what becomes of it.
RecvPack(p) ==
    /\ rcv.at = "data" /\ Len(back) < LineMax
    /\ \/ /\ ~ GoodPack(rcv.got[1], p)
          /\ Continues(Refusal, Asking)
          /\ UNCHANGED saved
       \/ /\ GoodPack(rcv.got[1], p)
          /\ saved' = Accepted(p)
          /\ Continues(<<"ACK">>, <<>>)
       \/ /\ GoodPack(rcv.got[1], p) /\ SaveFails
          /\ Leaves(<<"CAN">>, -1)
          /\ UNCHANGED saved

RecvRest ==
    /\ rcv.at \in {"number", "data"}
    /\ IF to = <<>> THEN RecvByte(Silence) \/ RecvPack(Silence)
       ELSE RecvByte(Head(to)) \/ RecvPack(Head(to))
    /\ to' = IF to = <<>> THEN to ELSE Tail(to)
    /\ UNCHANGED <<snd, again, happened>>

-----------------------------------------------------------------------------
(* The sender: one packet at a time, each until it is acknowledged.        *)

SenderPuts(s, pieces) == snd' = s /\ to' = to \o pieces

SendReply(r) ==
    LET next == IF snd.blk < NPackets THEN [snd EXCEPT !.blk = @ + 1] ELSE [snd EXCEPT !.at = "eot"]
        Pieces(s) == IF s.at = "eot" THEN <<Eot>> ELSE Packet(s.blk)
        ignored == SenderPuts(snd, <<>>)
    IN  IF Len(to) > LineMax THEN ignored
        ELSE CASE r = "CAN" /\ snd.at # "done" -> SenderPuts([snd EXCEPT !.at = "quit"], <<>>)
               [] r \in {"C", "NAK"} /\ snd.at = "start" -> SenderPuts([blk |-> 1, at |-> "block"], Packet(1))
               [] r = "NAK" /\ snd.at \in {"block", "eot"} -> SenderPuts(snd, Pieces(snd))
               [] r = "C" /\ snd.at = "block" /\ again /\ snd.blk = 1 -> SenderPuts(snd, Packet(1))
               [] r = "ACK" /\ snd.at = "block" -> SenderPuts(next, Pieces(next))
               [] r = "ACK" /\ snd.at = "eot" -> SenderPuts([snd EXCEPT !.at = "done"], <<>>)
               [] OTHER -> ignored

SenderReads ==
    /\ back # <<>>
    /\ SendReply(Head(back))
    /\ back' = Tail(back)
    /\ UNCHANGED <<rcv, saved, result, again, happened>>

\* No answer for long, C apart: once more.
SenderTimeout ==
    /\ back \in Seq({"C"}) /\ to = <<>> /\ snd.at \in {"block", "eot"}
    /\ SenderPuts(snd, IF snd.at = "eot" THEN <<Eot>> ELSE Packet(snd.blk))
    /\ UNCHANGED <<back, rcv, saved, result, again, happened>>

\* The user stops the sender.
SenderCancels ==
    /\ snd.at \in {"start", "block"} /\ to = <<>>
    /\ SenderPuts([snd EXCEPT !.at = "quit"], <<Can, Can>>)
    /\ UNCHANGED <<back, rcv, saved, result, again, happened>>

-----------------------------------------------------------------------------
(* The line.                                                               *)

Fault(f) ==
    /\ f \in Faults /\ Len(happened) < MaxLineFaults
    /\ happened' = Append(happened, f)
    /\ UNCHANGED <<rcv, saved, result, snd, again>>

\* A number or a data block is damaged.
DamageData ==
    /\ Fault("data")
    /\ \E i \in 1 .. Len(to) : to[i].piece \in {"num", "dat"} /\ to[i].ok
                               /\ to' = [to EXCEPT ![i].ok = FALSE]
    /\ UNCHANGED back

\* A piece is lost.
LosePiece ==
    /\ Fault("piece")
    /\ \E i \in 1 .. Len(to) : to' = SubSeq(to, 1, i - 1) \o SubSeq(to, i + 1, Len(to))
    /\ UNCHANGED back

\* A reply is lost, or arrives as a NAK.
DamageReply ==
    /\ Fault("reply")
    /\ \E i \in 1 .. Len(back) :
          \/ back' = SubSeq(back, 1, i - 1) \o SubSeq(back, i + 1, Len(back))
          \/ back' = [back EXCEPT ![i] = "NAK"]
    /\ UNCHANGED to

-----------------------------------------------------------------------------
XmInit ==
    /\ to = <<>> /\ back = <<"C">>
    /\ rcv = [at |-> "header", got |-> <<>>]
    /\ saved = <<>> /\ result = 0
    /\ snd = [blk |-> 0, at |-> "start"]
    /\ again \in BOOLEAN
    /\ happened = <<>>

Receiver == RecvHeader \/ RecvTimeout \/ RecvRest
Line == DamageData \/ LosePiece \/ DamageReply

XmNext == Receiver \/ SenderReads \/ SenderTimeout \/ SenderCancels \/ Line

XmSpec == XmInit /\ [][XmNext]_xmVars

\* The receiver polls; the sender answers.
XmFairSpec == XmSpec /\ WF_xmVars(Receiver) /\ WF_xmVars(SenderReads) /\ WF_xmVars(SenderTimeout)

-----------------------------------------------------------------------------
Happened(f) == \E i \in 1 .. Len(happened) : happened[i] = f

\* Every variable has its type, and only intact blocks have been saved,
\* whatever the line loses or damages.
XmTypeOK ==
    /\ \A i \in 1 .. Len(to) : to[i].piece \in {"hdr", "num", "dat", "eot", "can"}
    /\ back \in Seq({"C", "ACK", "NAK", "CAN"})
    /\ rcv.at \in {"header", "number", "data", "done"}
    /\ result \in Int /\ again \in BOOLEAN
    /\ snd.at \in {"start", "block", "eot", "done", "quit"}
    /\ saved \in Seq(Packets)

\* No block is saved after a later one, however packets are repeated.
SavedInOrder == \A i, j \in 1 .. Len(saved) : i < j => saved[i] <= saved[j]

\* The file, each block once.
IsFile(s) == s = [i \in 1 .. Len(s) |-> i]

\* If packets are only damaged, and the sender begins at C and then minds it
\* no more, each block is saved once, in order, and a transfer that succeeds
\* has saved the file.
DamageIsRepaired ==
    ~ Happened("piece") /\ ~ Happened("reply") /\ ~ again =>
       /\ IsFile(saved)
       /\ result > 0 => Len(saved) = NPackets

\* If replies are lost or damaged, and packets are not, blocks may be saved
\* twice, but a transfer that succeeds has saved all of them.
NothingMissing ==
    ~ Happened("piece") /\ ~ Happened("data") =>
       (result > 0 => \A n \in Packets : \E i \in 1 .. Len(saved) : saved[i] = n)

\* A transfer ends, whatever is damaged, unless the sender has stopped before
\* anything was received.  If pieces are lost it need not: the receiver never
\* drains the line, and may take the middle of each packet for its header.
TransferEnds ==
    <>(\/ rcv.at = "done"
       \/ snd.at \in {"quit", "done"} /\ saved = <<>>
       \/ Happened("piece"))

\* What xmodem.c says of CAN: two in succession abort the transfer.
CancelAborts == snd.at = "quit" ~> rcv.at = "done"

\* A download is what was sent: blocks in order, damage repaired, none missing.
DownloadExact == XmTypeOK /\ SavedInOrder /\ DamageIsRepaired /\ NothingMissing
=============================================================================
