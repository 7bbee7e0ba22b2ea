------------------------------- MODULE Malloc -------------------------------
(***************************************************************************)
(* The allocator of lib/libc/stdlib.c over the sbrk of arch/riscv/src/     *)
(* crt.c: chunks with boundary tags, bins of free chunks, the remainder of *)
(* the last split and the top chunk.                                       *)
(*                                                                         *)
(* A heap is a record: size, pin (PREV_INUSE) and foot (prev_size) are the *)
(* words of the chunks that begin at an address; bins are the lists from   *)
(* first to last; lr is the chunk in the last_remainder bin and blocks the *)
(* bits of binblocks; top 0 is initial_top.  Words between chunks are dead *)
(* and not kept.                                                           *)
(***************************************************************************)
EXTENDS Integers, Sequences, FiniteSets, TLC

CONSTANTS
    Page,           \* malloc_getpagesize
    RamStart,       \* end of the bss, aligned
    RamEnd,         \* __ld_ram_end
    TrimThreshold,  \* trim_threshold
    IntMax,         \* INT_MAX
    Requests,       \* sizes that are asked for
    Alignments,     \* alignments that memalign is asked for
    MaxLive,        \* bound: blocks in use
    MaxAllocs       \* bound: calls

SizeSz == 8
Granule == 16       \* MALLOC_ALIGNMENT
MinSize == 32       \* sizeof(struct malloc_chunk)

ASSUME MallocAssumption ==
    /\ {Page, RamStart, RamEnd, TrimThreshold, IntMax, MaxLive, MaxAllocs} \subseteq Nat
    /\ Requests \subseteq Nat /\ Alignments \subseteq Nat
    /\ Page > 0 /\ Page % Granule = 0 /\ RamStart % Granule = 0 /\ RamStart > 0

VARIABLES
    arena,          \* the heap
    live,           \* the blocks in use: [mem, n, align]
    last,           \* the last call: [op, n, p]
    allocs          \* calls so far

malVars == <<arena, live, last, allocs>>

RoundUp(n, a) == ((n + a - 1) \div a) * a

-----------------------------------------------------------------------------
(* Sizes and bins.                                                         *)

request2size(n) == IF n + SizeSz < MinSize THEN MinSize ELSE RoundUp(n + SizeSz, Granule)

Small == 512
bin_index(s) ==
    CASE s < Small -> s \div 8
      [] s >= Small /\ s \div 512 <= 4 -> 56 + s \div 64
      [] s \div 512 > 4 /\ s \div 512 <= 20 -> 91 + s \div 512
      [] s \div 512 > 20 /\ s \div 512 <= 84 -> 110 + s \div 4096
      [] s \div 512 > 84 /\ s \div 512 <= 340 -> 119 + s \div 32768
      [] s \div 512 > 340 /\ s \div 512 <= 1364 -> 124 + s \div 262144
      [] OTHER -> 126
Bins == 2 .. 127
Width == 4          \* BINBLOCKWIDTH

SizeOf(h, p) == IF p = 0 THEN 0 ELSE h.size[p]
next_chunk(h, p) == p + h.size[p]
Inuse(h, p) == h.pin[next_chunk(h, p)]

SetHead(h, p, s, b) == [h EXCEPT !.size = (p :> s) @@ @, !.pin = (p :> b) @@ @]
SetSize(h, p, s) == [h EXCEPT !.size = (p :> s) @@ @]
SetPin(h, p, b) == [h EXCEPT !.pin = (p :> b) @@ @]
SetFoot(h, p, s) == [h EXCEPT !.foot = ((p + s) :> s) @@ @]

\* Whether frontlink marks the block of the bin.
Marks(h, s) == s < Small \/ h.bins[bin_index(s)] = <<>>

\* frontlink: small chunks in front, large ones in front of those that are not larger.
frontlink(h, p, s) ==
    LET i == bin_index(s)
        l == h.bins[i]
        before == IF s < Small THEN {} ELSE {k \in 1 .. Len(l) : \A j \in 1 .. k : s < h.size[l[j]]}
        n == Cardinality(before)
    IN  [h EXCEPT !.bins[i] = SubSeq(l, 1, n) \o <<p>> \o SubSeq(l, n + 1, Len(l)),
                  !.blocks = IF Marks(h, s) THEN @ \cup {i \div Width} ELSE @]

\* unlink; the last remainder is in a bin of its own.
unlink(h, p) ==
    [h EXCEPT !.bins = [i \in Bins |-> SelectSeq(@[i], LAMBDA q : q # p)], !.lr = IF @ = p THEN 0 ELSE @]

-----------------------------------------------------------------------------
(* Memory from the system.                                                 *)

\* _sbrk: the end moves even if there is no memory left, and then stays out of
\* reach.  What lies between the ends is cleared: for a negative increment that
\* is a memset of almost the whole address space from the old end on.
_sbrk(h, inc) ==
    LET g == [h EXCEPT !.brk = @ + inc]
    IN  IF g.brk > RamEnd THEN [h |-> g, r |-> -1]
        ELSE [h |-> [g EXCEPT !.wiped = @ \/ inc < 0], r |-> h.brk]

\* malloc_extend_top.  The first time the end is brought to a page boundary.
\* Nobody else calls sbrk: the new memory follows the old top, unless a call
\* has failed before, and then every later one fails.
malloc_extend_top(h, nb) ==
    LET need == nb + MinSize
        more == _sbrk(h, IF h.top = 0 THEN need ELSE RoundUp(need, Page))
        top == more.r
        end == top + need
        correction == (Page - (end % Page)) % Page
        second == _sbrk(more.h, correction)
    IN  IF more.r = -1 THEN more.h
        ELSE IF h.top # 0 THEN SetHead(more.h, h.top, h.size[h.top] + RoundUp(need, Page), TRUE)
        ELSE SetHead([second.h EXCEPT !.top = top], top, IF second.r = -1 THEN need ELSE need + correction, TRUE)

\* malloc_trim: whole pages of the top are given back.
malloc_trim(h) ==
    LET size == h.size[h.top]
        extra == ((size - MinSize + Page - 1) \div Page - 1) * Page
    IN  IF extra < Page \/ h.brk > RamEnd \/ h.brk # h.top + size THEN h
        ELSE SetHead(_sbrk(h, - extra).h, h.top, size - extra, TRUE)

-----------------------------------------------------------------------------
(* malloc                                                                  *)

Took(h, p) == [h |-> h, p |-> p]

\* The whole chunk is used.
Take(h, p) == Took(SetPin(unlink(h, p), p + h.size[p], TRUE), p)

\* Mutant: what is left over has no foot.
SplitFootless(h, p, nb) ==
    LET rest == h.size[p] - nb
        r == p + nb
    IN  Took([SetHead(SetHead(unlink(h, p), p, nb, TRUE), r, rest, TRUE) EXCEPT !.lr = r], p)

\* The chunk is split and the rest becomes the last remainder.
Split(h, p, nb) ==
    LET rest == h.size[p] - nb
        r == p + nb
    IN  Took(SetFoot([SetHead(SetHead(unlink(h, p), p, nb, TRUE), r, rest, TRUE) EXCEPT !.lr = r], r, rest), p)

Use(h, p, nb) == IF h.size[p] - nb >= MinSize THEN Split(h, p, nb) ELSE Take(h, p)

\* In a list the search goes from the last to the first chunk.
FromLast(l, ok(_)) ==
    LET S == {k \in 1 .. Len(l) : ok(l[k])}
    IN  IF S = {} THEN 0 ELSE l[CHOOSE k \in S : \A j \in S : j <= k]

\* A chunk of the very size; where to go on otherwise.
Exact(h, nb) ==
    LET i == bin_index(nb)
        l == h.bins[i]
        fit == FromLast(l, LAMBDA p : h.size[p] >= nb)
    IN  IF nb < Small - 8 THEN [p |-> IF l = <<>> THEN 0 ELSE l[Len(l)], from |-> i + 2]
        ELSE IF fit = 0 THEN [p |-> 0, from |-> i + 1]
        ELSE IF h.size[fit] - nb >= MinSize THEN [p |-> 0, from |-> i] ELSE [p |-> fit, from |-> i]

Cleared(h, b, from) == \A i \in Width * b .. from - 1 : h.bins[i] = <<>>

\* The search through the bins by blocks, from bin from on; blocks in which
\* nothing was found are cleared.
Search(h, nb, from) ==
    LET able(b) == {i \in Width * b .. Width * b + Width - 1 : i >= from /\ i \in Bins /\ h.bins[i] # <<>>}
        bs == {b \in h.blocks : b >= from \div Width}
        hit == {b \in bs : able(b) # {}}
        b0 == CHOOSE b \in hit : \A c \in hit : b <= c
        i0 == CHOOSE i \in able(b0) : \A j \in able(b0) : i <= j
        seen == {b \in bs : hit = {} \/ b < b0}
    IN  [h |-> [h EXCEPT !.blocks = @ \ {b \in seen : Cleared(h, b, from)}],
         p |-> IF hit = {} THEN 0 ELSE FromLast(h.bins[i0], LAMBDA p : h.size[p] >= nb)]

TopServes(h, nb) == SizeOf(h, h.top) >= nb + MinSize

FromTop(h, nb) ==
    IF ~TopServes(h, nb) THEN Took(h, 0)
    ELSE LET p == h.top
         IN  Took(SetHead([SetHead(h, p, nb, TRUE) EXCEPT !.top = p + nb], p + nb, h.size[p] - nb, TRUE), p)

mALLOc(h, n) ==
    LET nb == request2size(n)
        exact == Exact(h, nb)
        lr == h.lr
        cleared == [h EXCEPT !.lr = 0]
        g == IF lr = 0 THEN h ELSE frontlink(cleared, lr, h.size[lr])
        found == Search(g, nb, exact.from)
    IN  IF nb > IntMax THEN Took(h, 0)
        ELSE IF exact.p # 0 THEN Take(h, exact.p)
        ELSE IF lr # 0 /\ h.size[lr] >= nb THEN Use(h, lr, nb)
        ELSE IF found.p # 0 THEN Use(found.h, found.p, nb)
        ELSE IF TopServes(found.h, nb) THEN FromTop(found.h, nb)
        ELSE FromTop(malloc_extend_top(found.h, nb), nb)

-----------------------------------------------------------------------------
(* free                                                                    *)

Backward(h, p) == ~h.pin[p]

fREe(h, p) ==
    LET next == next_chunk(h, p)
        back == Backward(h, p)
        q == IF back THEN p - h.foot[p] ELSE p
        islr == back /\ h.lr = q
        forward == ~h.pin[next_chunk(h, next)]
        sz == next - q + IF forward THEN h.size[next] ELSE 0
        toplr == ~islr /\ forward /\ h.lr = next
        a == IF back /\ ~islr THEN unlink(h, q) ELSE h
        b == IF ~forward THEN a ELSE IF toplr THEN [a EXCEPT !.lr = q] ELSE unlink(a, next)
        c == SetFoot(SetHead(SetPin(b, next, FALSE), q, sz, TRUE), q, sz)
        top == SetHead([(IF back THEN unlink(h, q) ELSE h) EXCEPT !.top = q], q, next - q + h.size[next], TRUE)
    IN  IF next = h.top
          THEN IF top.size[q] >= TrimThreshold THEN malloc_trim(top) ELSE top
          ELSE IF islr \/ toplr THEN c ELSE frontlink(c, q, sz)

-----------------------------------------------------------------------------
(* realloc and memalign                                                    *)

\* What an enlarged or shrunk chunk has too much is freed.
SplitOff(h, p, s, nb) ==
    IF s - nb >= MinSize
      THEN Took(fREe(SetPin(SetHead(SetSize(h, p, nb), p + nb, s - nb, TRUE), p + s, TRUE), p + nb), p)
      ELSE Took(SetPin(SetSize(h, p, s), p + s, TRUE), p)

NextGives(h, p) == next_chunk(h, p) # h.top /\ ~Inuse(h, next_chunk(h, p))

\* A chunk that has to grow does so into its neighbours if they have room: the
\* next one, both, the one before; else it moves.
rEALLOc(h, p, n) ==
    LET nb == request2size(n)
        old == h.size[p]
        next == next_chunk(h, p)
        more == IF next = h.top \/ NextGives(h, p) THEN h.size[next] ELSE 0
        prev == IF h.pin[p] THEN 0 ELSE p - h.foot[p]
        before == IF prev = 0 THEN 0 ELSE h.foot[p]
        IntoTop(g, q) == Took(SetHead([SetSize(g, q, nb) EXCEPT !.top = q + nb], q + nb, next + more - q - nb, TRUE), q)
        moved == mALLOc(h, n)
    IN  IF nb > IntMax THEN Took(h, 0)
        ELSE IF old >= nb THEN SplitOff(h, p, old, nb)
        ELSE IF next = h.top /\ old + more >= nb + MinSize THEN IntoTop(h, p)
        ELSE IF NextGives(h, p) /\ old + more >= nb THEN SplitOff(unlink(h, next), p, old + more, nb)
        ELSE IF prev # 0 /\ next = h.top /\ before + old + more >= nb + MinSize THEN IntoTop(unlink(h, prev), prev)
        ELSE IF prev # 0 /\ NextGives(h, p) /\ before + old + more >= nb
          THEN SplitOff(unlink(unlink(h, next), prev), prev, before + old + more, nb)
        ELSE IF prev # 0 /\ before + old >= nb THEN SplitOff(unlink(h, prev), prev, before + old, nb)
        ELSE IF moved.p = 0 THEN moved
        ELSE IF moved.p = next_chunk(moved.h, p) THEN SplitOff(moved.h, p, old + moved.h.size[moved.p], nb)
        ELSE Took(fREe(moved.h, p), moved.p)

Mem(p) == p + 2 * SizeSz

\* The chunk whose block is aligned, with room for a chunk before it.
Spot(m, p, a) == LET brk == RoundUp(m, a) - 2 * SizeSz IN IF brk - p < MinSize THEN brk + a ELSE brk

mEMALIGn(h, align, n) ==
    LET a == IF align < MinSize THEN MinSize ELSE align
        nb == request2size(n)
        got == mALLOc(h, nb + a + MinSize)
        p == got.p
        q == Spot(Mem(p), p, a)
        size == got.h.size[p]
        newsize == size - (q - p)
        led == fREe(SetSize(SetPin(SetHead(got.h, q, newsize, TRUE), q + newsize, TRUE), p, q - p), p)
        Trailed(g, r) == IF g.size[r] - nb >= MinSize
                           THEN Took(fREe(SetSize(SetHead(g, r + nb, g.size[r] - nb, TRUE), r, nb), r + nb), r)
                           ELSE Took(g, r)
    IN  IF align <= Granule THEN mALLOc(h, n)
        ELSE IF p = 0 THEN got
        ELSE IF Mem(p) % a = 0 THEN Trailed(got.h, p) ELSE Trailed(led, q)

-----------------------------------------------------------------------------
(* The program's calls.                                                    *)

First == RamStart

\* The chunks from the first to the top.
Chunks(h) ==
    IF h.top = 0 THEN {}
    ELSE LET C[n \in 0 .. 40] == IF n = 0 THEN {First} ELSE LET c == C[n - 1] IN c \cup {next_chunk(h, p) : p \in c \ {h.top}}
         IN  C[40]

\* Words that are no longer part of a chunk are forgotten, and so are the feet
\* of chunks in use.
Tidy(h) ==
    LET C == Chunks(h)
    IN  [h EXCEPT !.size = [p \in C |-> h.size[p]], !.pin = [p \in C |-> h.pin[p]],
                  !.foot = [p \in {q \in C : ~h.pin[q] /\ q \in DOMAIN h.foot} |-> h.foot[p]]]

Did(op, n, a, old, res) ==
    /\ allocs < MaxAllocs /\ ~arena.wiped
    /\ allocs' = allocs + 1
    /\ arena' = Tidy(res.h)
    /\ last' = [op |-> op, n |-> n, p |-> res.p]
    /\ live' = IF op = "free" THEN live \ old
               ELSE IF res.p = 0 THEN live ELSE (live \ old) \cup {[mem |-> Mem(res.p), n |-> n, align |-> a]}

malloc(n) == Cardinality(live) < MaxLive /\ Did("malloc", n, 1, {}, mALLOc(arena, n))
memalign(a, n) == Cardinality(live) < MaxLive /\ Did("memalign", n, a, {}, mEMALIGn(arena, a, n))
free(b) == Did("free", 0, 1, {b}, Took(fREe(arena, b.mem - 2 * SizeSz), 0))
realloc(b, n) ==
    IF n = 0 THEN free(b) ELSE Did("realloc", n, 1, {b}, rEALLOc(arena, b.mem - 2 * SizeSz, n))

MalInit ==
    /\ arena = [size |-> <<>>, pin |-> <<>>, foot |-> <<>>, bins |-> [i \in Bins |-> <<>>], lr |-> 0, blocks |-> {},
                top |-> 0, brk |-> RamStart, wiped |-> FALSE]
    /\ live = {} /\ last = [op |-> "none", n |-> 0, p |-> 0] /\ allocs = 0

MalNext ==
    \/ \E n \in Requests : malloc(n) \/ \E a \in Alignments : memalign(a, n)
    \/ \E b \in live : free(b) \/ \E n \in Requests \cup {0} : realloc(b, n)

MalSpec == MalInit /\ [][MalNext]_malVars

-----------------------------------------------------------------------------
FreeChunks(h) == {p \in Chunks(h) \ {h.top} : ~Inuse(h, p)}
InBins(h) == UNION {{h.bins[i][k] : k \in 1 .. Len(h.bins[i])} : i \in Bins}

\* Types, and that the chunks tile the memory: sizes are whole granules and at
\* least the smallest, and the top ends where sbrk has.
MalTypeOK ==
    /\ allocs \in 0 .. MaxAllocs /\ arena.top \in Nat /\ arena.blocks \subseteq 0 .. 31
    /\ arena.top # 0 =>
         /\ arena.top \in Chunks(arena)
         /\ \A p \in Chunks(arena) : p % Granule = 0 /\ arena.size[p] % Granule = 0 /\ arena.size[p] >= MinSize
         /\ arena.brk = next_chunk(arena, arena.top) \/ arena.brk > RamEnd

\* Boundary tags: no two free chunks are neighbours, none is in front of the
\* top, and every free chunk has its size behind it, where the free of the next
\* chunk looks for it.
TagsExact ==
    \A p \in FreeChunks(arena) :
        /\ arena.pin[p]
        /\ next_chunk(arena, p) # arena.top
        /\ next_chunk(arena, p) \in DOMAIN arena.foot /\ arena.foot[next_chunk(arena, p)] = arena.size[p]

\* The bins hold the free chunks and no others, each once and where malloc looks
\* for its size; a bin with chunks is in a marked block, large ones in order.
BinsExact ==
    /\ InBins(arena) \cup ({arena.lr} \ {0}) = FreeChunks(arena)
    /\ arena.lr \notin InBins(arena)
    /\ \A i \in Bins : arena.bins[i] # <<>> => i \div Width \in arena.blocks
    /\ \A i \in Bins : \A k \in 1 .. Len(arena.bins[i]) :
         /\ bin_index(arena.size[arena.bins[i][k]]) = i
         /\ \A j \in 1 .. k - 1 : arena.bins[i][j] # arena.bins[i][k] /\ arena.size[arena.bins[i][j]] >= arena.size[arena.bins[i][k]]

\* Every block in use is a chunk in use with room for what was asked for, and
\* aligned as asked; all other chunks are free.
LiveExact ==
    /\ \A b \in live :
         LET p == b.mem - 2 * SizeSz
         IN  p \in Chunks(arena) \ {arena.top} /\ Inuse(arena, p) /\ arena.size[p] - SizeSz >= b.n /\ b.mem % b.align = 0
    /\ \A b, c \in live : b.mem = c.mem => b = c
    /\ {b.mem - 2 * SizeSz : b \in live} = Chunks(arena) \ ({arena.top} \cup FreeChunks(arena))

\* A request fails only if no free chunk, and not the top with all memory sbrk
\* can still deliver, has room for it.
NoSpaceFor(h, nb, rest) ==
    /\ \A p \in FreeChunks(h) : h.size[p] < nb
    /\ SizeOf(h, h.top) < nb + MinSize
    /\ rest < nb + MinSize + Page
GivesUpOnlyIfFull ==
    [][last'.op = "malloc" /\ last'.p = 0 /\ request2size(last'.n) <= IntMax
         => NoSpaceFor(arena, request2size(last'.n), IF arena.brk > RamEnd THEN 0 ELSE RamEnd - arena.brk)]_malVars

\* malloc fails only if there is no memory: the rest of the RAM is what lies
\* between the end of the top and the end of the RAM.
NullMeansFull ==
    [][last'.op = "malloc" /\ last'.p = 0 /\ request2size(last'.n) <= IntMax
         => NoSpaceFor(arena, request2size(last'.n), RamEnd - (IF arena.top = 0 THEN RamStart ELSE next_chunk(arena, arena.top)))]_malVars

\* Giving memory back touches nothing behind the heap.
TrimTouchesNothing == ~arena.wiped

\* The heap is what its boundary tags, bins and live blocks say.
HeapExact == MalTypeOK /\ TagsExact /\ BinsExact /\ LiveExact
=============================================================================
