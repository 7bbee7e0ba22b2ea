------------------------------- MODULE Engines -------------------------------
(***************************************************************************)
(* The digests of lib/hash and the public-key coprocessor of drivers/alg.  *)
(*                                                                         *)
(* SHA-256 and SM3, up to the compression of a block: how messages that    *)
(* come in pieces are buffered, cut into blocks and padded.  What has been *)
(* compressed is the sequence of blocks, in order; the rounds that mix a   *)
(* block into the digest are left out.  A byte of a message is its         *)
(* position; One is the byte 0x80 and <<"len", n>> a byte of the length n  *)
(* in bits.                                                                *)
(*                                                                         *)
(* The public-key coprocessor: drivers/alg and lib/akcipher.  The probe    *)
(* parses a firmware image (firmware.c, over the heap of pdu.c) and loads  *)
(* it; a verification is a row of calls, each of which writes operands     *)
(* into the coprocessor's memory, starts a function, polls for its end and *)
(* reads results (pkadev.c, elppka.c).  Between calls operands stay there. *)
(*                                                                         *)
(* A number is a row of bytes, most significant first.  A word of operand  *)
(* memory is <<v, p>>: its bytes are those at positions p of number v, 0   *)
(* for a zero byte.  A number has a name: <<"given", b>>, what the caller  *)
(* has in buffer b, or <<call, bank>>, the result of a call whose operands *)
(* were the right ones, or Junk.  The coprocessor and its firmware are     *)
(* external.                                                               *)
(***************************************************************************)
EXTENDS Integers, Sequences, SequencesExt, FiniteSets, TLC

CONSTANTS
    Block,          \* bytes of a block: 64
    LenBytes,       \* bytes of the length at the end of the last block: 8
    MaxMessage,     \* bound: length of a message
    MaxPieces,      \* bound: calls that add to it
    WordBytes,      \* bytes of a word: 4
    MaxRadix,       \* largest base radix: 6
    BankWords,      \* words between the banks: 0x100
    Configs,        \* what BUILD_CONF says: [ecc, rsa, ram, rom], in bytes and words
    FwImages,       \* the firmware images
    HeapBytes,      \* PDU_HEAP_SIZE
    Align,          \* PDU_HEAP_ALIGN
    RsaBytes,       \* the bytes of an RSA-2048 modulus, of the exponent and of the result buffer: 256
    PkaKeys,        \* the keys: [alg, size, good]
    MaxVerify,      \* bound: verifications
    MaxPkaFaults    \* bound: allocations and functions that fail

ASSUME HashAssumption ==
    /\ LenBytes \in Nat \ {0} /\ Block \in Nat /\ Block > LenBytes + 1
    /\ MaxMessage \in Nat /\ MaxPieces \in Nat

ASSUME PkaAssumption ==
    /\ WordBytes \in Nat \ {0} /\ MaxRadix \in Nat /\ BankWords \in Nat /\ HeapBytes \in Nat /\ Align \in Nat \ {0}
    /\ MaxVerify \in Nat /\ MaxPkaFaults \in Nat

VARIABLES
    message,        \* length of what has been given so far
    pieces,         \* calls so far
    sha,            \* SHA-256: [buf, curlen, length, eaten]
    sm3,            \* SM3: [block, num, nblocks, eaten]
    digested,       \* the digests have been taken
    conf,           \* the configuration of the hardware
    image,          \* the firmware image
    leaked,         \* parameters of calls that were never given back
    heap,           \* pdu_malloc: [ptr, got]; got are the blocks it returned
    fw,             \* what the probe got to
    algs,           \* alg_list
    sem,            \* dev->sem
    opmem,          \* operand memory: words that have been written
    eng,            \* the coprocessor: [busy, irq, reason, func, size]
    vf,             \* the verification under way
    ran,            \* verifications so far
    pkaFaults       \* faults so far

hashVars == <<message, pieces, sha, sm3, digested>>

Bytes(from, n) == [i \in 1 .. n |-> <<"byte", from + i - 1>>]
One == <<"one", 0>>
Zeros(n) == [i \in 1 .. n |-> <<"zero", 0>>]
LenField(bits) == [i \in 1 .. LenBytes |-> <<"len", bits>>]

\* memcpy into a buffer at offset at.
Copied(buf, at, s) == [i \in 1 .. Block |-> IF i \in at + 1 .. at + Len(s) THEN s[i - at] ELSE buf[i]]

-----------------------------------------------------------------------------
(* SHA-256                                                                 *)

sha256_init == [buf |-> Zeros(Block), curlen |-> 0, length |-> 0, eaten |-> <<>>]

s_sha256_compress(h, b) == [h EXCEPT !.eaten = Append(@, b)]

\* A buffer that has become full.
FullBuffer(h) == [s_sha256_compress(h, h.buf) EXCEPT !.length = @ + 8 * Block, !.curlen = 0]

\* One turn of the loop of sha256_process: a whole block from the input when
\* the buffer is empty, else what fits into the buffer.
Turn(h, in) ==
    IF h.curlen = 0 /\ Len(in) >= Block
      THEN <<[s_sha256_compress(h, SubSeq(in, 1, Block)) EXCEPT !.length = @ + 8 * Block], SubSeq(in, Block + 1, Len(in))>>
      ELSE LET room == Block - h.curlen
               n == IF Len(in) < room THEN Len(in) ELSE room
               filled == [h EXCEPT !.buf = Copied(@, h.curlen, SubSeq(in, 1, n)), !.curlen = @ + n]
           IN  <<IF filled.curlen = Block THEN FullBuffer(filled) ELSE filled, SubSeq(in, n + 1, Len(in))>>

sha256_process(h, in) ==
    LET P[k \in 0 .. Len(in)] == IF k = 0 THEN <<h, in>>
                                 ELSE LET p == P[k - 1] IN IF p[2] = <<>> THEN p ELSE Turn(p[1], p[2])
    IN  P[Len(in)][1]

\* Mutant: there is room for the length if there was before the 0x80.
NoRoomLate(h) == h.curlen > Block - LenBytes + 1

NoRoom(h) == h.curlen > Block - LenBytes

\* The length of the buffer is added, the bit appended, and the rest padded
\* with zeros, into a block of its own if the length does not fit.
sha256_done(h) ==
    LET ended == [h EXCEPT !.length = @ + 8 * h.curlen, !.buf = Copied(@, h.curlen, <<One>>), !.curlen = @ + 1]
        Padded(g, to) == Copied(g.buf, g.curlen, Zeros(to - g.curlen))
        wrapped == IF NoRoom(ended)
                     THEN [s_sha256_compress(ended, Padded(ended, Block)) EXCEPT !.buf = Padded(ended, Block), !.curlen = 0]
                     ELSE ended
    IN  s_sha256_compress(wrapped, Copied(Padded(wrapped, Block - LenBytes), Block - LenBytes, LenField(wrapped.length)))

-----------------------------------------------------------------------------
(* SM3                                                                     *)

sm3_init == [block |-> Zeros(Block), num |-> 0, nblocks |-> 0, eaten |-> <<>>]

\* sm3_compress_blocks: n blocks from the start of in.
sm3_compress_blocks(h, in, n) ==
    [h EXCEPT !.eaten = @ \o [k \in 1 .. n |-> SubSeq(in, (k - 1) * Block + 1, k * Block)], !.nblocks = @ + n]

Stays(h, in) == Len(in) < Block - h.num

\* sm3_process: the buffer is filled and compressed, then the whole blocks of
\* the input, then the rest goes into the buffer.
sm3_process(h, in) ==
    IF h.num # 0 /\ Stays(h, in)
      THEN [h EXCEPT !.block = Copied(@, h.num, in), !.num = @ + Len(in)]
      ELSE LET left == IF h.num = 0 THEN 0 ELSE Block - h.num
               full == Copied(h.block, h.num, SubSeq(in, 1, left))
               first == IF h.num = 0 THEN h ELSE sm3_compress_blocks([h EXCEPT !.block = full], full, 1)
               rest == SubSeq(in, left + 1, Len(in))
               n == Len(rest) \div Block
               whole == sm3_compress_blocks(first, rest, n)
               tail == SubSeq(rest, n * Block + 1, Len(rest))
           IN  [whole EXCEPT !.num = Len(tail), !.block = Copied(@, 0, tail)]

sm3_compress(h, b) == [h EXCEPT !.eaten = Append(@, b)]

LengthFits(h) == h.num + 1 + LenBytes <= Block

\* sm3_done; the number of blocks is taken before the padding.
sm3_done(h) ==
    LET bits == 8 * Block * h.nblocks + 8 * h.num
        ended == Copied(h.block, h.num, <<One>>)
        zeroed(b, from, to) == Copied(b, from, Zeros(to - from))
    IN  IF LengthFits(h)
          THEN sm3_compress(h, Copied(zeroed(ended, h.num + 1, Block - LenBytes), Block - LenBytes, LenField(bits)))
          ELSE sm3_compress(sm3_compress(h, zeroed(ended, h.num + 1, Block)),
                            Copied(zeroed(ended, 0, Block - LenBytes), Block - LenBytes, LenField(bits)))

-----------------------------------------------------------------------------
HashInit == message = 0 /\ pieces = 0 /\ sha = sha256_init /\ sm3 = sm3_init /\ digested = FALSE

\* The message grows by n bytes.
Process(n) ==
    /\ ~digested /\ message + n <= MaxMessage /\ pieces < MaxPieces
    /\ sha' = sha256_process(sha, Bytes(message, n))
    /\ sm3' = sm3_process(sm3, Bytes(message, n))
    /\ message' = message + n /\ pieces' = pieces + 1
    /\ UNCHANGED digested

Done ==
    /\ ~digested
    /\ sha' = sha256_done(sha) /\ sm3' = sm3_done(sm3)
    /\ digested' = TRUE
    /\ UNCHANGED <<message, pieces>>

HashNext == Done \/ \E n \in 0 .. MaxMessage : Process(n)
HashSpec == HashInit /\ [][HashNext]_hashVars

-----------------------------------------------------------------------------
\* The padded message: a 1 bit, zeros up to the end of a block but for the
\* length, and the length in bits.
Padding(n) ==
    LET short == n + 1 + LenBytes
        total == IF short % Block = 0 THEN short ELSE short + Block - (short % Block)
    IN  Bytes(0, n) \o <<One>> \o Zeros(total - short) \o LenField(8 * n)
Blocks(s) == [k \in 1 .. Len(s) \div Block |-> SubSeq(s, (k - 1) * Block + 1, k * Block)]

\* The buffers are never full between two calls, and what they hold is the end
\* of the message.
HashTypeOK ==
    /\ message \in 0 .. MaxMessage /\ pieces \in 0 .. MaxPieces
    /\ ~digested => /\ sha.curlen = message % Block /\ sm3.num = message % Block
                    /\ SubSeq(sha.buf, 1, sha.curlen) = Bytes(message - sha.curlen, sha.curlen)

\* sha256_done has compressed the blocks of the padded message, no others and
\* in order, however the message was cut into calls of sha256_process.
Sha256OfMessage == digested => sha.eaten = Blocks(Padding(message))

\* The same of sm3_process and sm3_done, which count the length in blocks.
Sm3OfMessage == digested => sm3.eaten = Blocks(Padding(message))

-----------------------------------------------------------------------------
pkaVars == <<conf, image, leaked, heap, fw, algs, sem, opmem, eng, vf, ran, pkaFaults>>

Fine == pkaFaults' = pkaFaults
Faulty == pkaFaults < MaxPkaFaults /\ pkaFaults' = pkaFaults + 1

-----------------------------------------------------------------------------
(* firmware.c                                                              *)

\* pdu_malloc: the pointer moves on even if there is no room.
pdu_malloc(h, n) ==
    LET up == ((n + Align - 1) \div Align) * Align
        fits == h.ptr + up < HeapBytes
    IN  [ptr |-> h.ptr + up, ok |-> fits, got |-> IF fits THEN Append(h.got, <<h.ptr, n>>) ELSE h.got]

region_fits(total, offset, entsize, count) == total >= offset /\ (count = 0 \/ (total - offset) \div count >= entsize)

\* pka_fw_init; the table of sections is in the image.
pka_fw_init(im) == im.header /\ region_fits(im.len, im.shoff, 4, Len(im.secs))

\* pka_fw_read_shdr
pka_fw_read_shdr(im, i) ==
    /\ i <= Len(im.secs)
    /\ LET s == im.secs[i]
       IN  /\ s.link <= Len(im.secs)
           /\ s.type = "nobits" \/ ( /\ region_fits(im.len, s.off, s.size, 1)
                                     /\ s.off % s.align = 0
                                     /\ s.ent # 0 => s.size % s.ent = 0)

\* RAM and ROM: whole words that begin with a tag block.
Code(im, i) ==
    /\ pka_fw_read_shdr(im, i)
    /\ im.secs[i].type = "progbits" => im.secs[i].align >= WordBytes /\ im.secs[i].size % WordBytes = 0 /\ im.secs[i].tag
CodeBytes(im, i) == IF i <= Len(im.secs) /\ im.secs[i].type = "progbits" THEN im.secs[i].size ELSE 0

\* prepare_symtab: the symbols, then the strings they are linked to.
Symbols(im) == pka_fw_read_shdr(im, 3) /\ im.secs[3].type = "symtab" /\ im.secs[3].align >= WordBytes /\ im.secs[3].ent = 4
prepare_symtab(im) ==
    pka_fw_read_shdr(im, im.secs[3].link) /\ im.secs[im.secs[3].link].type = "strtab" /\ im.ended

\* elppka_fw_parse: the image, its RAM, its ROM, its symbols and their strings
\* are looked at in turn, and memory is taken for each.  pdu_free gives nothing
\* back on an error.
ParseStages == <<"none", "ram", "rom", "symtab", "strtab", "parsed">>
Check(im, k) ==
    CASE k = 1 -> pka_fw_init(im)
      [] k = 2 -> Code(im, 1)
      [] k = 3 -> Code(im, 2) /\ CodeBytes(im, 1) + CodeBytes(im, 2) > 0
      [] k = 4 -> Symbols(im)
      [] k = 5 -> prepare_symtab(im)
Wanted(im, k) ==
    CASE k = 1 -> 16 [] k = 2 -> CodeBytes(im, 1) [] k = 3 -> CodeBytes(im, 2) [] k = 4 -> im.secs[3].size
      [] k = 5 -> im.secs[im.secs[3].link].size

\* dev_init gives the address of the registers to free, which never handed it
\* out: the probe fails, or the machine goes no further.
ProbeFails == fw' \in {"failed", "trapped"}

elppka_fw_parse ==
    /\ \E k \in 1 .. 5 :
         /\ fw = ParseStages[k]
         /\ \/ /\ ~Check(image, k)
               /\ ProbeFails /\ UNCHANGED heap
            \/ /\ Check(image, k) /\ Wanted(image, k) = 0
               /\ fw' = ParseStages[k + 1] /\ UNCHANGED heap
            \/ /\ Check(image, k) /\ Wanted(image, k) > 0
               /\ LET h == pdu_malloc(heap, Wanted(image, k))
                  IN  heap' = [ptr |-> h.ptr, got |-> h.got] /\ IF h.ok THEN fw' = ParseStages[k + 1] ELSE ProbeFails
    /\ UNCHANGED <<conf, image, leaked, algs, sem, opmem, eng, vf, ran, pkaFaults>>

\* What elppka_fw_load requires: a ROM that is the device's, a RAM with room.
Loadable(im) ==
    /\ CodeBytes(im, 2) > 0 => CodeBytes(im, 2) \div WordBytes <= conf.rom /\ im.rommatch
    /\ CodeBytes(im, 1) > 0 => CodeBytes(im, 1) \div WordBytes <= conf.ram

elppka_fw_load ==
    /\ fw = "parsed"
    /\ IF Loadable(image) THEN fw' = "loaded" /\ sem' = 1 ELSE ProbeFails /\ UNCHANGED sem
    /\ UNCHANGED <<conf, image, leaked, heap, algs, opmem, eng, vf, ran, pkaFaults>>

\* rsa_register, then sm2_register; the probe ends at the first failure.
alg_register ==
    /\ fw = "loaded" /\ algs \in {<<>>, <<"rsa">>}
    /\ \/ Fine /\ algs' = Append(algs, IF algs = <<>> THEN "rsa" ELSE "sm2") /\ UNCHANGED fw
       \/ Faulty /\ fw' = "error" /\ UNCHANGED algs
    /\ UNCHANGED <<conf, image, leaked, heap, sem, opmem, eng, vf, ran>>

Probed == fw \in {"failed", "error"} \/ Len(algs) = 2

-----------------------------------------------------------------------------
(* elppka.c                                                                *)

Radices == 2 .. MaxRadix
Sizes == 0 .. 2 * WordBytes * 2 ^ MaxRadix + 1

\* 0 for sizes that are too small or too large.
elppka_base_radix ==
    [size \in Sizes |-> LET able == {r \in Radices : size <= 2 * WordBytes * 2 ^ r}
                        IN  IF size <= 4 * WordBytes \/ able = {} THEN 0 ELSE CHOOSE r \in able : \A q \in able : r <= q]
elppka_page_size == [size \in Sizes |-> IF elppka_base_radix[size] = 0 THEN 0 ELSE 2 * WordBytes * 2 ^ elppka_base_radix[size]]
PageWords == [size \in Sizes |-> elppka_page_size[size] \div WordBytes]

Larger(a, b) == IF a > b THEN a ELSE b

index_is_valid(bank, index, page) ==
    /\ page <= conf.ecc \/ page <= conf.rsa
    /\ index <= 7
    /\ index < Larger(conf.ecc * 8, conf.rsa * (IF bank = "D" THEN 4 ELSE 2)) \div page

BankBase(bank) == CASE bank = "A" -> BankWords [] bank = "B" -> 2 * BankWords [] bank = "C" -> 3 * BankWords [] bank = "D" -> 4 * BankWords

\* operand_base_offset, -1 for an error.
operand_base_offset(reg, size) ==
    LET page == elppka_page_size[size]
    IN  IF page = 0 \/ ~index_is_valid(reg[1], reg[2], page) THEN -1
        ELSE BankBase(reg[1]) + reg[2] * (page \div WordBytes)

Given(b) == <<"given", b>>
Junk == <<"no", "number">>

\* The words of a number, from the least significant: positions of their bytes
\* in the data.  An incomplete word has its bytes at the end; the page has been
\* cleared before.
WordsOf ==
    [size \in Sizes |-> [i \in 0 .. PageWords[size] - 1 |-> [b \in 1 .. WordBytes |->
        LET k == size - (i + 1) * WordBytes + b IN IF k \in 1 .. size THEN k ELSE 0]]]

\* elppka_load_operand
Stored(m, reg, size, v) ==
    LET at == operand_base_offset(reg, size)
    IN  [a \in at .. at + PageWords[size] - 1 |-> <<v, WordsOf[size][a - at]>>] @@ m

\* Where the bytes of a number of this size have to be, counted from the least
\* significant one.
Significance == [size \in Sizes |-> [k \in 0 .. elppka_page_size[size] - 1 |-> IF k < size THEN size - k ELSE 0]]

\* What the coprocessor finds in a register and elppka_unload_operand reads:
\* the number whose bytes are in the page, with nothing above them.
Read(m, reg, size) ==
    LET at == operand_base_offset(reg, size)
        page == at .. at + PageWords[size] - 1
    IN  IF page \subseteq DOMAIN m /\ \A a \in page : m[a][1] = m[at][1] /\
             \A b \in 1 .. WordBytes : m[a][2][b] = Significance[size][(a - at) * WordBytes + WordBytes - b]
          THEN m[at][1] ELSE Junk

-----------------------------------------------------------------------------
(* pka_rsa.c and pka_sm2.c: the calls, with the operands they load and the *)
(* results they fetch into named buffers.                                  *)

In(reg, buf) == <<reg, buf>>

RsaCalls == <<
    [n |-> "rsa1", f |-> "calc_r_inv", in |-> <<In(<<"D", 0>>, "m")>>, out |-> <<>>],
    [n |-> "rsa2", f |-> "calc_mp",    in |-> <<>>, out |-> <<>>],
    [n |-> "rsa3", f |-> "calc_r_sqr", in |-> <<>>, out |-> <<>>],
    [n |-> "rsa4", f |-> "modexp",     in |-> <<In(<<"A", 0>>, "x"), In(<<"D", 2>>, "e"), In(<<"D", 0>>, "m")>>, out |-> <<In(<<"A", 0>>, "y")>>] >>
Modulus == <<In(<<"D", 0>>, "prime"), In(<<"D", 1>>, "mp"), In(<<"D", 3>>, "rsqr")>>
pmult(n, x, y, k, x1, y1) ==
    [n |-> n, f |-> "pmult", in |-> <<In(<<"A", 2>>, x), In(<<"B", 2>>, y), In(<<"A", 6>>, "A"), In(<<"D", 7>>, k)>> \o Modulus,
     out |-> <<In(<<"A", 2>>, x1), In(<<"B", 2>>, y1)>>]
Sm2Calls == <<
    [n |-> "sm21", f |-> "modadd", in |-> <<In(<<"A", 0>>, "r"), In(<<"B", 0>>, "s"), In(<<"D", 0>>, "order")>>, out |-> <<In(<<"A", 0>>, "r1")>>],
    pmult("sm22", "pubx", "puby", "r1", "r1", "r2"),
    pmult("sm23", "Gx", "Gy", "s", "r3", "temp"),
    [n |-> "sm24", f |-> "padd", in |-> <<In(<<"A", 2>>, "r1"), In(<<"B", 2>>, "r2"), In(<<"A", 3>>, "r3"), In(<<"B", 3>>, "temp"), In(<<"A", 6>>, "A")>> \o Modulus,
     out |-> <<In(<<"A", 2>>, "r1"), In(<<"B", 2>>, "r2")>>],
    [n |-> "sm25", f |-> "modadd", in |-> <<In(<<"A", 0>>, "e"), In(<<"B", 0>>, "r1"), In(<<"D", 0>>, "order")>>, out |-> <<In(<<"A", 0>>, "out")>>] >>
Calls(alg) == IF alg = "rsa" THEN RsaCalls ELSE Sm2Calls

\* The functions of the firmware: what each call of the two algorithms has to
\* find where, the results of earlier calls among it, and where results go.
G(bank, i, b) == <<<<bank, i>>, Given(b)>>
Found(bank, i, call, from) == <<<<bank, i>>, <<call, from>>>>
Mod == {G("D", 0, "prime"), G("D", 1, "mp"), G("D", 3, "rsqr"), G("A", 6, "A")}
Operands(call) ==
    CASE call \in {"rsa1", "rsa2", "rsa3"} -> {G("D", 0, "m")}
      [] call = "rsa4" -> {G("A", 0, "x"), G("D", 2, "e"), G("D", 0, "m"), Found("D", 1, "rsa2", "D"), Found("D", 3, "rsa3", "D")}
      [] call = "sm21" -> {G("A", 0, "r"), G("B", 0, "s"), G("D", 0, "order")}
      [] call = "sm22" -> Mod \cup {G("A", 2, "pubx"), G("B", 2, "puby"), Found("D", 7, "sm21", "A")}
      [] call = "sm23" -> Mod \cup {G("A", 2, "Gx"), G("B", 2, "Gy"), G("D", 7, "s")}
      [] call = "sm24" -> Mod \cup {Found("A", 2, "sm22", "A"), Found("B", 2, "sm22", "B"), Found("A", 3, "sm23", "A"), Found("B", 3, "sm23", "B")}
      [] call = "sm25" -> {G("A", 0, "hmsg"), Found("B", 0, "sm24", "A"), G("D", 0, "order")}
Results(call) ==
    CASE call = "rsa1" -> {<<"C", 0>>} [] call = "rsa2" -> {<<"D", 1>>} [] call = "rsa3" -> {<<"D", 3>>}
      [] call \in {"rsa4", "sm21", "sm25"} -> {<<"A", 0>>} [] OTHER -> {<<"A", 2>>, <<"B", 2>>}

Idle == [at |-> "idle", key |-> [alg |-> "none", size |-> 0, good |-> FALSE], step |-> 0, todo |-> <<>>, buf |-> <<>>, ret |-> -1, bad |-> FALSE]
Begin(key) ==
    [at |-> "param", key |-> key, step |-> 1, todo |-> Calls(key.alg)[1].in,
     buf |-> [b \in {"m", "e", "x", "y", "r", "s", "pubx", "puby", "A", "prime", "mp", "rsqr", "order", "Gx", "Gy", "r1", "r2", "r3", "temp", "out"}
              |-> Given(b)], ret |-> -1, bad |-> FALSE]
Call == Calls(vf.key.alg)[vf.step]

\* akcipher_verify: there must be memory for its parameters, and the algorithm.
akcipher_verify(key) ==
    /\ Probed /\ vf.at = "idle" /\ ran < MaxVerify
    /\ ran' = ran + 1
    /\ \/ /\ Fine
          /\ vf' = IF \E i \in 1 .. Len(algs) : algs[i] = key.alg THEN Begin(key)
                   ELSE [Idle EXCEPT !.key = key]
       \/ /\ Faulty
          /\ vf' = [Idle EXCEPT !.key = key]
    /\ UNCHANGED <<conf, image, leaked, heap, fw, algs, sem, opmem, eng>>

Return(ret) == vf' = [vf EXCEPT !.at = "idle", !.ret = ret]

\* parse_and_compute takes memory for the parameters of the call and for the
\* name of a register; without the second it does not give back the first.
parse_and_compute ==
    /\ vf.at = "param"
    /\ \/ Fine /\ vf' = [vf EXCEPT !.at = "load"] /\ UNCHANGED leaked
       \/ Faulty /\ Return(-1) /\ leaked' \in {leaked, leaked + 1}
    /\ UNCHANGED <<conf, image, heap, fw, algs, sem, opmem, eng, ran>>

\* What a buffer holds: e of sm2 is a hash over a key that was not initialized,
\* e of rsa is at the end of RsaBytes bytes, of which the first size are taken.
ValueOf(b) ==
    IF b # "e" THEN vf.buf[b]
    ELSE Given(IF vf.key.alg = "sm2" THEN "hmsg" ELSE IF vf.key.size = RsaBytes THEN "e" ELSE "head of e")

\* load_inputs, one operand at a time.
set_param ==
    /\ vf.at = "load" /\ vf.todo # <<>>
    /\ LET reg == Head(vf.todo)[1]
           buf == Head(vf.todo)[2]
       IN  IF operand_base_offset(reg, vf.key.size) < 0
             THEN Return(-1) /\ UNCHANGED opmem
             ELSE /\ vf' = [vf EXCEPT !.todo = Tail(@)]
                  /\ opmem' = Stored(opmem, reg, vf.key.size, ValueOf(buf))
    /\ UNCHANGED <<conf, image, leaked, heap, fw, algs, sem, eng, ran, pkaFaults>>

\* pka_call: it waits for the semaphore first, without a bound, and does not
\* give it back if the function cannot be started.
pka_call ==
    /\ vf.at = "load" /\ vf.todo = <<>> /\ sem > 0
    /\ sem' = sem - 1
    /\ IF Call.f \in image.funcs /\ elppka_base_radix[vf.key.size] # 0
         THEN /\ eng' = [eng EXCEPT !.busy = TRUE, !.func = Call.f, !.size = vf.key.size]
              /\ vf' = [vf EXCEPT !.at = "wait"]
         ELSE Return(-1) /\ UNCHANGED eng
    /\ UNCHANGED <<conf, image, leaked, heap, fw, algs, opmem, ran, pkaFaults>>

\* The coprocessor ends with a result or, by its watchdog, with a reason.
EngineEnds ==
    /\ eng.busy
    /\ LET right == \A o \in Operands(Call.n) : Read(opmem, o[1], eng.size) = o[2]
           M[S \in SUBSET Results(Call.n)] ==
               IF S = {} THEN opmem
               ELSE LET w == CHOOSE w \in S : TRUE IN Stored(M[S \ {w}], w, eng.size, IF right THEN <<Call.n, w[1]>> ELSE Junk)
       IN  \/ /\ Fine /\ opmem' = M[Results(Call.n)]
              /\ eng' = [eng EXCEPT !.busy = FALSE, !.irq = TRUE, !.reason = 0] /\ UNCHANGED vf
           \/ /\ Faulty /\ UNCHANGED opmem
              /\ eng' = [eng EXCEPT !.busy = FALSE, !.irq = TRUE, !.reason = 1] /\ vf' = [vf EXCEPT !.bad = TRUE]
    /\ UNCHANGED <<conf, image, leaked, heap, fw, algs, sem, ran>>

pka_sem_post == sem' = sem + 1

\* wait_pka_done acknowledges the interrupt and gives the semaphore back; then
\* pka_wait takes it for as long as it reads the status.
wait_pka_done ==
    /\ vf.at = "wait" /\ eng.irq
    /\ eng' = [eng EXCEPT !.irq = FALSE] /\ pka_sem_post
    /\ vf' = [vf EXCEPT !.at = "status"]
    /\ UNCHANGED <<conf, image, leaked, heap, fw, algs, opmem, ran, pkaFaults>>

StatusOk == ~eng.busy /\ eng.reason = 0

\* Mutant: a function that ended with a reason is taken for one that still runs.
WaitAgain == vf' = [vf EXCEPT !.at = "wait"]

CallFailed == Return(-1)

pka_wait ==
    /\ vf.at = "status" /\ sem > 0
    /\ IF StatusOk THEN vf' = [vf EXCEPT !.at = "unload", !.todo = Call.out] ELSE CallFailed
    /\ UNCHANGED <<conf, image, leaked, heap, fw, algs, sem, opmem, eng, ran, pkaFaults>>

\* unload_outputs
get_param ==
    /\ vf.at = "unload" /\ vf.todo # <<>>
    /\ vf' = [vf EXCEPT !.todo = Tail(@), !.buf[Head(vf.todo)[2]] = Read(opmem, Head(vf.todo)[1], vf.key.size)]
    /\ UNCHANGED <<conf, image, leaked, heap, fw, algs, sem, opmem, eng, ran, pkaFaults>>

\* The comparison at the end of rsa_verify and sm2_verify; that of rsa is of
\* the last bytes of RsaBytes.
Matches ==
    /\ vf.key.good
    /\ IF vf.key.alg = "rsa" THEN vf.key.size = RsaBytes /\ vf.buf["y"] = <<"rsa4", "A">> ELSE vf.buf["out"] = <<"sm25", "A">>

\* The next call, or the comparison; that of sm2 fails if the hash, which is
\* made from memory that was not initialized, is not the right one.
NextCall ==
    /\ vf.at = "unload" /\ vf.todo = <<>>
    /\ IF vf.step < Len(Calls(vf.key.alg))
         THEN vf' = [vf EXCEPT !.step = @ + 1, !.at = "param", !.todo = Calls(vf.key.alg)[vf.step + 1].in]
         ELSE \/ Matches /\ Return(0)
              \/ (~Matches \/ vf.key.alg = "sm2") /\ Return(-1)
    /\ UNCHANGED <<conf, image, leaked, heap, fw, algs, sem, opmem, eng, ran, pkaFaults>>

-----------------------------------------------------------------------------
PkaInit ==
    /\ conf \in Configs /\ image \in FwImages
    /\ leaked = 0 /\ heap = [ptr |-> 0, got |-> <<>>] /\ fw = "none" /\ algs = <<>> /\ sem = 0
    /\ opmem = <<>>
    /\ eng = [busy |-> FALSE, irq |-> FALSE, reason |-> 0, func |-> "none", size |-> 0]
    /\ vf = Idle /\ ran = 0 /\ pkaFaults = 0

PkaDriver ==
    \/ elppka_fw_parse \/ elppka_fw_load \/ alg_register
    \/ parse_and_compute \/ set_param \/ pka_call \/ wait_pka_done \/ pka_wait \/ get_param \/ NextCall

PkaNext == PkaDriver \/ EngineEnds \/ \E k \in PkaKeys : akcipher_verify(k)
PkaSpec == PkaInit /\ [][PkaNext]_pkaVars
PkaFairSpec == PkaSpec /\ WF_pkaVars(PkaDriver) /\ WF_pkaVars(EngineEnds)

-----------------------------------------------------------------------------
Functions == {RsaCalls[k].f : k \in 1 .. Len(RsaCalls)} \cup {Sm2Calls[k].f : k \in 1 .. Len(Sm2Calls)}
Complete == Functions \subseteq image.funcs

\* The state's types; the heap of the firmware, which moves its pointer past
\* the end when it is full, hands out disjoint blocks inside it.
PkaTypeOK ==
    /\ fw \in {"none", "ram", "rom", "symtab", "strtab", "parsed", "loaded", "failed", "trapped", "error"} /\ leaked \in 0 .. pkaFaults /\ sem \in 0 .. 1
    /\ eng.busy \in BOOLEAN /\ eng.irq \in BOOLEAN /\ eng.reason \in 0 .. 1
    /\ vf.at \in {"idle", "param", "load", "wait", "status", "unload"} /\ vf.ret \in {0, -1}
    /\ \A i \in 1 .. Len(heap.got) :
         /\ heap.got[i][1] + heap.got[i][2] <= HeapBytes
         /\ \A j \in 1 .. i - 1 : heap.got[j][1] + heap.got[j][2] <= heap.got[i][1]

\* What is written to the coprocessor when an image is loaded was inside the
\* image and has room in the device: the checks of the section headers by the
\* parser and of the sizes by the loader, which trusts the parser, are enough.
FirmwareInside ==
    fw = "loaded" =>
      \A i \in 1 .. 2 : CodeBytes(image, i) > 0 =>
         /\ image.secs[i].off + image.secs[i].size <= image.len
         /\ image.secs[i].size <= WordBytes * (IF i = 1 THEN conf.ram ELSE conf.rom)

\* While a function runs, every operand its caller gave is in its register as
\* the number it is, also for sizes that are no whole words, whatever an
\* earlier call of another size has left, and no operand lies over another.
OperandsExact ==
    eng.busy => \A k \in 1 .. Len(Call.in) : Read(opmem, Call.in[k][1], vf.key.size) = ValueOf(Call.in[k][2])

\* A signature is found good only if it is, and if no function failed meanwhile.
VerifiedMeansMatch == vf.at = "idle" /\ vf.ret = 0 => vf.key.good /\ ~vf.bad

\* An RSA signature that is good is found good unless a function or the memory
\* failed: operands left in place by the first three calls are there for the
\* fourth, and nothing of an earlier verification is in the way.
GoodRsaVerifies ==
    vf.at = "idle" /\ vf.key.alg = "rsa" /\ vf.key.good /\ vf.key.size = RsaBytes /\ algs = <<"rsa", "sm2">> /\ Complete /\ pkaFaults = 0
      => vf.ret = 0

\* Between verifications the device's semaphore is free, also after functions
\* that failed; except with a firmware that lacks a function: then the call
\* that asked for it keeps the semaphore, and the next one waits forever.
SemaphoreFree == fw = "loaded" /\ vf.at = "idle" => sem = 1 \/ ~Complete

\* Every verification ends, with that exception.
PkaCallsEnd == []<>(vf.at = "idle" \/ ~Complete)
==============================================================================
