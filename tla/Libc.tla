-------------------------------- MODULE Libc --------------------------------
(***************************************************************************)
(* Parts of the C library (lib/libc): strings, output, options; and the    *)
(* reader of configuration files (lib/ini).                                *)
(***************************************************************************)
EXTENDS Integers, Sequences, SequencesExt, FiniteSets

(***************************************************************************)
(* lib/libc/string.c: the functions on strings and on memory.  Memory is a *)
(* sequence of bytes, a pointer the index of one; a call is made with      *)
(* pointers to strings that end, as its callers do, and its loop stops     *)
(* where the code's does.                                                  *)
(***************************************************************************)

CONSTANTS
  MemLen, StrBytes,        \* the memory, and the bytes other than 0 found in it
  UlongMax,             \* the largest unsigned long
  NumberChars, MaxChars \* the texts given to strtoul
ASSUME StringAssumption == MemLen \in Nat /\ StrBytes \subseteq Nat \ {0} /\ UlongMax \in Nat

VARIABLES smem,   \* the memory before the call
          scall   \* the call made and what it has returned, or <<>>
strVars == <<smem, scall>>

At(m, p) == m[p]
FirstPlace(p, far, Stops(_)) ==
  CHOOSE k \in p..far : Stops(k) /\ \A j \in p..k - 1 : ~Stops(j)
IsString(m, p) == \E k \in p..MemLen : m[k] = 0
Null_ptr == 0

-----------------------------------------------------------------------------
(* Strings.                                                                *)
strlen(m, p) == FirstPlace(p, MemLen, LAMBDA k : m[k] = 0) - p
strnlen(m, p, n) == FirstPlace(p, p + n, LAMBDA k : k = p + n \/ m[k] = 0) - p
Differ(m, a, b, i) == m[a + i] # m[b + i] \/ m[a + i] = 0
strcmp(m, a, b) ==
  LET i == FirstPlace(0, MemLen, LAMBDA k : Differ(m, a, b, k)) IN m[a + i] - m[b + i]
strncmp(m, a, b, n) ==
  LET i == FirstPlace(0, n, LAMBDA k : k = n \/ Differ(m, a, b, k)) IN IF i = n THEN 0 ELSE m[a + i] - m[b + i]
strchr(m, p, c) ==
  LET k == FirstPlace(p, MemLen, LAMBDA j : m[j] \in {0, c}) IN IF m[k] = 0 THEN Null_ptr ELSE k
strrchr(m, p, c) ==
  LET last == p + strlen(m, p)
      hits == {k \in p..last : m[k] = c}
  IN IF hits = {} THEN Null_ptr ELSE CHOOSE k \in hits : \A j \in hits : j <= k
strstr(m, hs, ne) ==
  LET fits(h) == \A i \in 0..strlen(m, ne) - 1 : h + i <= MemLen /\ m[h + i] = m[ne + i]
      hits == {h \in hs..hs + strlen(m, hs) - 1 : fits(h)}
  IN IF m[ne] = 0 THEN hs ELSE IF hits = {} THEN Null_ptr ELSE CHOOSE h \in hits : \A g \in hits : h <= g
isspace(c) == c \in 9..13 \cup {32}

-----------------------------------------------------------------------------
(* Copies: the bytes go one after the other, upwards or downwards.         *)
Copied_in(m, d, s, order) == FoldLeft(LAMBDA x, i : [x EXCEPT ![d + i] = x[s + i]], m, order)
Upwards(n) == [i \in 1..n |-> i - 1]
memcpy(m, d, s, n) == Copied_in(m, d, s, Upwards(n))
memmove(m, d, s, n) ==
  IF s = d THEN m ELSE IF d < s THEN Copied_in(m, d, s, Upwards(n)) ELSE Copied_in(m, d, s, Reverse(Upwards(n)))
memset(m, d, c, n) == [k \in DOMAIN m |-> IF k \in d..d + n - 1 THEN c ELSE m[k]]
\* strcpy and strcat stop in front of the 0 that ends src and do not copy it.
strcpy(m, d, s) == Copied_in(m, d, s, Upwards(strlen(m, s)))
strncpy(m, d, s, n) ==
  memset(Copied_in(m, d, s, Upwards(strnlen(m, s, n))), d + strnlen(m, s, n), 0, n - strnlen(m, s, n))
strcat(m, d, s) == Copied_in(m, d + strlen(m, d), s, Upwards(strlen(m, s)))
strdup(m, d, s) == memcpy(m, d, s, strlen(m, s) + 1)

memcmp(m, a, b, n) ==
  LET i == FirstPlace(0, n, LAMBDA k : k = n \/ m[a + k] # m[b + k]) IN IF i = n THEN 0 ELSE m[a + i] - m[b + i]
memchr(m, p, c, n) ==
  LET k == FirstPlace(p, p + n, LAMBDA j : j = p + n \/ m[j] = c) IN IF k = p + n THEN Null_ptr ELSE k

-----------------------------------------------------------------------------
(* Numbers: a text is a sequence of "-", "+", "x" and digits 0..35.        *)
Text(t, k) == IF k <= Len(t) THEN t[k] ELSE "end"
Signed(t) == IF Text(t, 1) \in {"-", "+"} THEN 1 ELSE 0
HexMark(t, base) == base \in {0, 16} /\ Text(t, Signed(t) + 1) = "0" /\ Text(t, Signed(t) + 2) = "x"
BaseOf(t, base) == IF HexMark(t, base) THEN 16
                   ELSE IF base = 0 THEN IF Text(t, Signed(t) + 1) = "0" THEN 8 ELSE 10 ELSE base
StartOf(t, base) == Signed(t) + (IF HexMark(t, base) THEN 3 ELSE 1)
DigitOf(c) == CASE c = "0" -> 0 [] c = "1" -> 1 [] c = "5" -> 5 [] c = "6" -> 6 [] c = "9" -> 9 [] c = "f" -> 15
                [] c = "x" -> 33 [] OTHER -> 99
TooMuchLoose(acc, c, b) == acc > UlongMax \div b
TooMuch(acc, c, b) == acc > UlongMax \div b \/ (acc = UlongMax \div b /\ c > UlongMax % b)
\* The loop: acc, any (0 no digit yet, 1 digits, -1 too large) and the place behind the last digit.
strtoul(t, base) ==
  LET b == BaseOf(t, base)
      go[k \in 1..MaxChars + 2, acc \in 0..UlongMax, any \in -1..1] ==
        IF DigitOf(Text(t, k)) >= b THEN [acc |-> acc, any |-> any, end |-> k]
        ELSE IF any < 0 \/ TooMuch(acc, DigitOf(Text(t, k)), b) THEN go[k + 1, acc, -1]
        ELSE go[k + 1, (acc * b + DigitOf(Text(t, k))) % (UlongMax + 1), 1]
      r == go[StartOf(t, base), 0, 0]
  IN [value |-> IF r.any < 0 THEN UlongMax
                ELSE IF Text(t, 1) = "-" THEN (UlongMax + 1 - r.acc) % (UlongMax + 1) ELSE r.acc,
      endptr |-> IF r.any # 0 THEN r.end ELSE 1]

-----------------------------------------------------------------------------
Memories == [1..MemLen -> StrBytes \cup {0}]
StrInit == smem \in Memories /\ scall = <<>>

Calls_string(f, p, q, n, r) == scall' = [f |-> f, p |-> p, q |-> q, n |-> n, r |-> r] /\ UNCHANGED smem
Compare == \E p, q \in 1..MemLen :
  /\ IsString(smem, p) /\ IsString(smem, q)
  /\ \/ Calls_string("strcmp", p, q, 0, strcmp(smem, p, q))
     \/ \E n \in 0..2 : Calls_string("strncmp", p, q, n, strncmp(smem, p, q, n))
     \/ Calls_string("strstr", p, q, 0, strstr(smem, p, q))
Look == \E p \in 1..MemLen, c \in StrBytes \cup {0} :
  \/ IsString(smem, p) /\ Calls_string("strchr", p, c, 0, strchr(smem, p, c))
  \/ IsString(smem, p) /\ Calls_string("strrchr", p, c, 0, strrchr(smem, p, c))
  \/ \E n \in 0..MemLen - p + 1 : Calls_string("memchr", p, c, n, memchr(smem, p, c, n))
\* The places of the callers do not overlap, except for memmove.
CopyMemory == \E p, q \in 1..MemLen : \E n \in 0..MemLen + 1 - (IF p < q THEN q ELSE p) :
  \/ Calls_string("memmove", p, q, n, memmove(smem, p, q, n))
  \/ Calls_string("memcmp", p, q, n, memcmp(smem, p, q, n))
  \/ (p + n <= q \/ q + n <= p) /\ Calls_string("memcpy", p, q, n, memcpy(smem, p, q, n))
  \/ q + n <= p /\ IsString(smem, q) /\ q + strlen(smem, q) < p
     /\ Calls_string("strncpy", p, q, n, strncpy(smem, p, q, n))
CopyString == \E p, q \in 1..MemLen :
  /\ IsString(smem, q) /\ q + strlen(smem, q) < p /\ p + strlen(smem, q) <= MemLen
  /\ \/ Calls_string("strdup", p, q, 0, strdup(smem, p, q))
     \/ Calls_string("strcpy", p, q, 0, strcpy(smem, p, q))
     \/ /\ IsString(smem, p) /\ p + strlen(smem, p) + strlen(smem, q) <= MemLen
        /\ Calls_string("strcat", p, q, 0, strcat(smem, p, q))
Number == \E t \in UNION {[1..n -> NumberChars] : n \in 0..MaxChars}, base \in {0, 8, 10, 16} :
  /\ \A k \in DOMAIN smem : smem[k] = 0
  /\ Calls_string("strtoul", t, base, 0, strtoul(t, base))

StrNext == scall = <<>> /\ (Compare \/ Look \/ CopyMemory \/ CopyString \/ Number)
StrSpec == StrInit /\ [][StrNext]_strVars

-----------------------------------------------------------------------------
(* References: whole strings, and the memory as it was before.             *)
Str(p) == SubSeq(smem, p, p + strlen(smem, p) - 1)
Sign(x) == IF x < 0 THEN -1 ELSE IF x > 0 THEN 1 ELSE 0
Less(a, b) == \E n \in 0..Len(a) : /\ n < Len(b) /\ IsPrefix(SubSeq(a, 1, n), b)
                                  /\ (n < Len(a) => a[n + 1] < b[n + 1])
Order(a, b) == IF a = b THEN 0 ELSE IF Less(a, b) THEN -1 ELSE 1
Cut_to(s, n) == SubSeq(s, 1, IF n < Len(s) THEN n ELSE Len(s))
\* What the memory is if the bytes s are put at p.
Put(p, s) == [k \in 1..MemLen |-> IF k \in p..p + Len(s) - 1 THEN s[k - p + 1] ELSE smem[k]]
NulBytes(n) == [i \in 1..n |-> 0]

Made == scall # <<>>

\* Comparing and searching find what the whole strings say: the order of two
\* strings or of their first n bytes, the first or last place of a byte and
\* the first place of a string (string.c, strcmp to strrchr, memcmp, strstr).
\* The 0 that ends a string is found by strrchr only.
SearchExact == Made =>
  CASE scall.f = "strcmp" -> Sign(scall.r) = Order(Str(scall.p), Str(scall.q))
    [] scall.f = "strncmp" -> Sign(scall.r) = Order(Cut_to(Str(scall.p), scall.n), Cut_to(Str(scall.q), scall.n))
    [] scall.f = "memcmp" -> Sign(scall.r) = Order(SubSeq(smem, scall.p, scall.p + scall.n - 1),
                                                   SubSeq(smem, scall.q, scall.q + scall.n - 1))
    [] scall.f \in {"strchr", "memchr"} ->
         LET s == IF scall.f = "strchr" THEN Str(scall.p) ELSE SubSeq(smem, scall.p, scall.p + scall.n - 1)
         IN IF scall.r = Null_ptr THEN scall.q \notin Range(s)
            ELSE smem[scall.r] = scall.q /\ scall.q \notin Range(SubSeq(s, 1, scall.r - scall.p))
    [] scall.f = "strrchr" ->
         LET s == Append(Str(scall.p), 0)
         IN IF scall.r = Null_ptr THEN scall.q \notin Range(s)
            ELSE smem[scall.r] = scall.q /\ scall.q \notin Range(SubSeq(s, scall.r - scall.p + 2, Len(s)))
    [] scall.f = "strstr" ->
         LET at(h) == IsPrefix(Str(scall.q), SubSeq(smem, h, MemLen))
         IN IF scall.r = Null_ptr THEN ~\E h \in scall.p..scall.p + Len(Str(scall.p)) : at(h)
            ELSE at(scall.r) /\ \A h \in scall.p..scall.r - 1 : ~at(h)
    [] OTHER -> TRUE

\* Copies put exactly the bytes of the source as it was before the call, also
\* where the places overlap (memmove), and change nothing else; strncpy fills
\* up with 0, strdup ends the copy, strcpy and strcat leave it without an end.
CopyExact == Made =>
  CASE scall.f \in {"memcpy", "memmove"} -> scall.r = Put(scall.p, SubSeq(smem, scall.q, scall.q + scall.n - 1))
    [] scall.f = "strncpy" ->
         scall.r = Put(scall.p, Cut_to(Str(scall.q) \o NulBytes(scall.n), scall.n))
    [] scall.f = "strdup" -> scall.r = Put(scall.p, Append(Str(scall.q), 0))
    [] scall.f = "strcpy" -> scall.r = Put(scall.p, Str(scall.q))
    [] scall.f = "strcat" -> scall.r = Put(scall.p + Len(Str(scall.p)), Str(scall.q))
    [] OTHER -> TRUE

\* The value of the digits of t from k on, however large, and where they end.
DigitsEnd(t, k, b) == FirstPlace(k, MaxChars + 2, LAMBDA j : DigitOf(Text(t, j)) >= b)
ValueIn(t, k, end, b) == FoldLeft(LAMBDA v, j : v * b + DigitOf(t[j]), 0, [i \in 1..end - k |-> k + i - 1])
\* strtoul returns the number the text stands for if it fits, and UlongMax if
\* it does not, with either sign; *endptr is the first character it did not use.
NumberExact == (Made /\ scall.f = "strtoul") =>
  LET t == scall.p
      b == BaseOf(t, scall.q)
      k == StartOf(t, scall.q)
      end == DigitsEnd(t, k, b)
      v == ValueIn(t, k, end, b)
  IN /\ scall.r.value = IF v > UlongMax THEN UlongMax
                        ELSE IF t # <<>> /\ t[1] = "-" THEN (UlongMax + 1 - v) % (UlongMax + 1) ELSE v
     /\ scall.r.endptr = IF end = k THEN 1 ELSE end

-----------------------------------------------------------------------------
(***************************************************************************)
(* Formatted output (lib/libc/stdio.c, common/stdio.c).  printf collects   *)
(* its text in console_tbuf under console_out_lock and hands it out when   *)
(* the buffer is found full between two format characters; puts holds the  *)
(* lock as well, putchar does not.  Harts print at the same time.  A       *)
(* format is a sequence of items: a literal character or a conversion with *)
(* its argument.                                                           *)
(***************************************************************************)

CONSTANTS
  Printers,          \* harts that print
  PrintCalls,        \* [fn, items, size]: the calls they make
  TbufMax,           \* CONSOLE_TBUF_MAX
  IntBits, LongBits  \* width of int, and of long and long long
ASSUME StdioAssumption == TbufMax \in Nat \ {0, 1} /\ IntBits \in Nat /\ LongBits \in Nat

VARIABLES
  pcall, pstep,   \* each printer's call and how far it is
  pleft, pqueue,  \* items still to format; characters on their way to the port
  ptext,          \* all the call's characters so far (reference)
  tbuf,           \* console_tbuf: [text, len], len the room left
  plock,          \* console_out_lock: its holder or "free"
  pready,         \* stdout_func is registered
  screen,         \* <<printer, character>> as the port got them
  sbuf            \* what each printer's snprintf wrote: [text, len], and its result
stdioVars == <<pcall, pstep, pleft, pqueue, ptext, tbuf, plock, pready, screen, sbuf>>

NUL == "NUL"
Free == "free"

-----------------------------------------------------------------------------
(* Conversions.                                                            *)
Digits == <<"0", "1", "2", "3", "4", "5", "6", "7", "8", "9", "a", "b", "c", "d", "e", "f">>
Repeat(c, n) == [i \in 1..n |-> c]

\* The argument as printi gets it: sign extended for d, zero extended for u, x.
Fetch(it) ==
  LET bits == IF it.long THEN LongBits ELSE IntBits
  IN IF it.conv = "d" THEN it.arg ELSE it.arg % 2^bits
prints(s, width, flags) ==
  LET room == IF width > Len(s) THEN width - Len(s) ELSE 0
      pad == Repeat(IF "zero" \in flags THEN "0" ELSE " ", room)
  IN IF "right" \in flags THEN s \o pad ELSE pad \o s
Radix(conv) == IF conv = "x" THEN 16 ELSE 10
DigitsOf(u, b) ==
  LET of[n \in 0..2^LongBits] == IF n < b THEN <<Digits[n + 1]>> ELSE Append(of[n \div b], Digits[(n % b) + 1])
  IN of[u]
Prefixed(s, it) ==
  IF "alternate" \in it.flags THEN (IF Radix(it.conv) = 16 THEN <<"0", "x">> ELSE <<"0">>) \o s ELSE s
printi(it) ==
  LET i == Fetch(it)
      s == Prefixed(DigitsOf(IF i < 0 THEN -i ELSE i, Radix(it.conv)), it)
  IN IF i >= 0 THEN prints(s, it.width, it.flags)
     ELSE IF it.width # 0 /\ "zero" \in it.flags THEN <<"-">> \o prints(s, it.width - 1, it.flags)
     ELSE prints(<<"-">> \o s, it.width, it.flags)

\* What one item of the format puts out; an unknown conversion puts out nothing.
ItemText(it) ==
  CASE it.conv = "lit" -> <<it.arg>>
    [] it.conv \in {"s", "c"} -> prints(it.arg, it.width, it.flags)
    [] it.conv \in {"d", "u", "x"} -> printi(it)
    [] OTHER -> <<>>

\* Into a buffer with room for len bytes; out_len is counted down all the same.
printc(b, c) ==
  [text |-> IF b.len > 1 THEN Append(b.text, c) ELSE b.text, len |-> IF b.len > 0 THEN b.len - 1 ELSE 0]
PrintText(b, s) == FoldLeft(LAMBDA x, c : printc(x, c), b, s)
Fresh == [text |-> <<>>, len |-> TbufMax]
\* nputs_all of the buffer: the text and, where the buffer had run full, the 0 behind it.
Flushed(b) == b.text \o Repeat(NUL, TbufMax - b.len - Len(b.text))

\* stdio_output: a newline goes out as two characters, and nothing without a port.
stdio_output(c) == IF ~pready THEN <<>> ELSE IF c = "\n" THEN <<"\r", "\n">> ELSE <<c>>

-----------------------------------------------------------------------------
StdioStart ==
  /\ pstep = [p \in Printers |-> "idle"]
  /\ pleft = [p \in Printers |-> <<>>] /\ pqueue = pleft /\ ptext = pleft
  /\ tbuf = Fresh
  /\ plock = Free
  /\ screen = <<>>
  /\ sbuf = [p \in Printers |-> [text |-> <<>>, len |-> 0]]
StdioInit == pcall \in [Printers -> PrintCalls] /\ pready \in BOOLEAN /\ StdioStart

AllText(items) == FoldLeft(LAMBDA s, it : s \o ItemText(it), <<>>, items)
Goes(p, step, left, queue) ==
  /\ pstep' = [pstep EXCEPT ![p] = step]
  /\ pleft' = [pleft EXCEPT ![p] = left]
  /\ pqueue' = [pqueue EXCEPT ![p] = queue]
Told(p, s) == ptext' = [ptext EXCEPT ![p] = @ \o s]

spin_lock(p) == plock = Free /\ plock' = p
printf(p) ==
  /\ pstep[p] = "idle" /\ pcall[p].fn = "printf"
  /\ spin_lock(p)
  /\ tbuf' = Fresh /\ Goes(p, "format", pcall[p].items, <<>>)
  /\ UNCHANGED <<pcall, ptext, pready, screen, sbuf>>
puts(p) ==
  /\ pstep[p] = "idle" /\ pcall[p].fn = "puts"
  /\ spin_lock(p)
  /\ Goes(p, "output", <<>>, Append(AllText(pcall[p].items), "\n")) /\ Told(p, Append(AllText(pcall[p].items), "\n"))
  /\ UNCHANGED <<pcall, tbuf, pready, screen, sbuf>>
putchar(p) ==
  /\ pstep[p] = "idle" /\ pcall[p].fn = "putchar"
  /\ Goes(p, "output", <<>>, AllText(pcall[p].items)) /\ Told(p, AllText(pcall[p].items))
  /\ UNCHANGED <<pcall, tbuf, plock, pready, screen, sbuf>>
\* sprintf is the same with room for everything.
snprintf(p) ==
  /\ pstep[p] = "idle" /\ pcall[p].fn = "snprintf"
  /\ sbuf' = [sbuf EXCEPT ![p] = PrintText([text |-> <<>>, len |-> pcall[p].size], AllText(pcall[p].items))]
  /\ Goes(p, "done", <<>>, <<>>) /\ Told(p, AllText(pcall[p].items))
  /\ UNCHANGED <<pcall, tbuf, plock, pready, screen>>

\* One turn of print's loop: a full buffer is handed out first.
RoomKept == tbuf
Room == IF tbuf.len = 0 THEN Fresh ELSE tbuf
print(p) ==
  /\ pstep[p] = "format" /\ pqueue[p] = <<>> /\ pleft[p] # <<>>
  /\ tbuf' = PrintText(Room, ItemText(Head(pleft[p])))
  /\ Goes(p, "format", Tail(pleft[p]), IF tbuf.len = 0 THEN Flushed(tbuf) ELSE <<>>)
  /\ Told(p, ItemText(Head(pleft[p])))
  /\ UNCHANGED <<pcall, plock, pready, screen, sbuf>>
PrintEnds(p) ==
  /\ pstep[p] = "format" /\ pqueue[p] = <<>> /\ pleft[p] = <<>>
  /\ Goes(p, "output", <<>>, IF tbuf.len < TbufMax THEN Flushed(tbuf) ELSE <<>>)
  /\ UNCHANGED <<pcall, ptext, tbuf, plock, pready, screen, sbuf>>
nputs(p) ==
  /\ pqueue[p] # <<>>
  /\ screen' = screen \o [i \in 1..Len(stdio_output(Head(pqueue[p]))) |-> <<p, stdio_output(Head(pqueue[p]))[i]>>]
  /\ pqueue' = [pqueue EXCEPT ![p] = Tail(@)]
  /\ UNCHANGED <<pcall, pstep, pleft, ptext, tbuf, plock, pready, sbuf>>
spin_unlock(p) ==
  /\ pstep[p] = "output" /\ pqueue[p] = <<>>
  /\ plock' = IF pcall[p].fn = "putchar" THEN plock ELSE Free
  /\ Goes(p, "done", <<>>, <<>>)
  /\ UNCHANGED <<pcall, ptext, tbuf, pready, screen, sbuf>>

StdioNext ==
  \E p \in Printers : printf(p) \/ puts(p) \/ putchar(p) \/ snprintf(p) \/ print(p) \/ PrintEnds(p) \/ nputs(p) \/ spin_unlock(p)
StdioSpec == StdioInit /\ [][StdioNext]_stdioVars

-----------------------------------------------------------------------------
Places(p) == {i \in DOMAIN screen : screen[i][1] = p}
Shown(p) == LET of == SelectSeq(screen, LAMBDA x : x[1] = p) IN [i \in DOMAIN of |-> of[i][2]]
WithReturns(s) == FoldLeft(LAMBDA t, c : t \o (IF c = "\n" THEN <<"\r", "\n">> ELSE <<c>>), <<>>, s)

\* No buffer holds more than fits with the 0 behind it (printc).
StdioTypeOK ==
  /\ Len(tbuf.text) < TbufMax /\ tbuf.len \in 0..TbufMax
  /\ \A p \in Printers : Len(sbuf[p].text) <= IF pcall[p].size > 0 THEN pcall[p].size - 1 ELSE 0

\* A call that holds the lock comes out in one piece: nothing another such
\* call prints stands between two of its characters.
InOnePiece == \A p \in Printers : \A i, j \in Places(p) :
  pcall[p].fn \in {"printf", "puts"} =>
    \A k \in i..j : screen[k][1] = p \/ pcall[screen[k][1]].fn = "putchar"

\* A text shorter than console_tbuf comes out whole, with a return before each
\* newline; a longer one of single characters loses every TbufMax-th to a 0.
Lost(s) == [i \in DOMAIN s |-> IF i % TbufMax = 0 THEN NUL ELSE s[i]]
Singles(p) == \A i \in DOMAIN pcall[p].items : pcall[p].items[i].conv = "lit"
TextWhole == \A p \in Printers : pready /\ pstep[p] = "done" /\ pcall[p].fn # "snprintf" =>
  LET all == AllText(pcall[p].items)
  IN CASE pcall[p].fn = "puts" -> Shown(p) = WithReturns(Append(all, "\n"))
       [] pcall[p].fn = "putchar" -> Shown(p) = WithReturns(all)
       [] pcall[p].fn = "printf" /\ Len(all) < TbufMax -> Shown(p) = WithReturns(all)
       [] pcall[p].fn = "printf" /\ Len(all) >= TbufMax /\ Singles(p) -> Shown(p) = WithReturns(Lost(all))
       [] OTHER -> TRUE

\* snprintf writes what fits and stops in front of the end of the buffer.
SnprintfExact == \A p \in Printers : pstep[p] = "done" /\ pcall[p].fn = "snprintf" =>
  LET all == AllText(pcall[p].items)
      n == IF pcall[p].size = 0 THEN 0 ELSE pcall[p].size - 1
  IN sbuf[p].text = SubSeq(all, 1, IF n < Len(all) THEN n ELSE Len(all))

\* A number comes out with the value of its argument, padded to its width with
\* the sign in front of the zeros (without the flags that the code prints in
\* its own way: # together with 0, and 0 together with -).
Plain(it) == it.conv \in {"d", "u", "x"} /\ Cardinality(it.flags) < 2 /\ "alternate" \notin it.flags
ValueRead(s, b) ==
  FoldLeft(LAMBDA v, c : IF c \in {" ", "-"} THEN v ELSE v * b + (CHOOSE d \in 0..15 : Digits[d + 1] = c), 0, s)
NumbersExact == \A p \in Printers : \A i \in DOMAIN pcall[p].items :
  LET it == pcall[p].items[i]
      s == ItemText(it)
      v == ValueRead(s, Radix(it.conv))
  IN Plain(it) =>
       /\ Fetch(it) = IF "-" \in Range(s) THEN -v ELSE v
       /\ Len(s) >= it.width /\ (Len(s) > it.width => s[1] # " " /\ s[Len(s)] # " ")
       /\ \A k \in DOMAIN s : s[k] = "-" => \A j \in 1..k - 1 : s[j] = " "

(***************************************************************************)
(* The option parser of lib/libc/getopt.c.  A caller calls getopt_long     *)
(* until it returns EOF; the parser keeps its place in globals and moves   *)
(* the operands behind the options while it goes.  A word is a sequence of *)
(* characters; the character behind its end is Nul.                        *)
(***************************************************************************)

CONSTANTS
  GetoptConfigs,  \* [ordering, colon, only, short, long]: what the caller accepts
  ArgWords,       \* words of a command line
  MaxArgs         \* words behind the program's name

VARIABLES
  gconf, gorig,   \* what the caller accepts; the command line as it was
  argv,           \* the command line now
  gopt,           \* optind, optwhere, permute_from, num_nonopts, optarg
  gotten,         \* <<returned value, optarg>> of every call so far
  gend            \* EOF was returned
getoptVars == <<gconf, gorig, argv, gopt, gotten, gend>>

Nul == "nul"
NoWord == <<"null">>   \* the null pointer behind the last word
DashDash == <<"-", "-">>
EOF == "EOF"
argc == Len(argv)

Word(i) == IF i < argc THEN argv[i + 1] ELSE NoWord
Char(w, k) == IF k < Len(w) THEN w[k + 1] ELSE Nul
From(w, k) == SubSeq(w, k + 1, Len(w))
Shorts == DOMAIN gconf.short

-----------------------------------------------------------------------------
reverse_argv_elements(a, from, num) ==
  [i \in DOMAIN a |-> IF i - 1 \in from..from + num - 1 THEN a[2 * from + num - i + 1] ELSE a[i]]
permute(a, from, len1, len2) ==
  reverse_argv_elements(
    reverse_argv_elements(reverse_argv_elements(a, from, len1), from, len1 + len2), from, len2)

is_option(w) == w = NoWord \/ Char(w, 0) = "-" \/ (gconf.only /\ Char(w, 0) = "+")

\* One call ends with the value r; o is the parser's place.
Return_opt(a, o, r) ==
  /\ argv' = a
  /\ gopt' = o
  /\ gotten' = IF r = EOF THEN gotten ELSE Append(gotten, <<r, o.optarg>>)
  /\ gend' = (r = EOF)
  /\ UNCHANGED <<gconf, gorig>>

(* Do the words have to be permuted, and where does the next call begin?   *)
Permuted(o, next) ==
  IF gconf.ordering = "permute" /\ o.optwhere = 1 /\ o.num_nonopts # 0
  THEN permute(argv, o.permute_from, o.num_nonopts, 1 + next) ELSE argv
Stepped(o, next) ==
  IF o.optwhere # 1 THEN o
  ELSE IF gconf.ordering = "permute" /\ o.num_nonopts # 0
       THEN [o EXCEPT !.optind = o.permute_from + 1 + next]
       ELSE [o EXCEPT !.optind = @ + 1 + next]
OptionFound(o, r, next) == Return_opt(Permuted(o, next), Stepped(o, next), r)

\* The argument of an option found at `rest`, the characters behind its name.
ArgumentIn(rest) == IF Char(rest, 0) = "=" THEN Tail(rest) ELSE rest
WithArgument(o, r, has_arg, rest, long) ==
  \/ /\ has_arg = "optional"
     /\ OptionFound([o EXCEPT !.optarg = IF ArgumentIn(rest) = <<>> THEN NoWord ELSE ArgumentIn(rest), !.optwhere = 1], r, 0)
  \/ /\ has_arg = "required" /\ ArgumentIn(rest) # <<>>
     /\ OptionFound([o EXCEPT !.optarg = ArgumentIn(rest), !.optwhere = 1], r, 0)
  \/ /\ has_arg = "required" /\ ArgumentIn(rest) = <<>> /\ o.optind + 1 >= argc
     /\ Return_opt(argv, [o EXCEPT !.optind = @ + 1], IF gconf.colon THEN ":" ELSE "?")
  \/ /\ has_arg = "required" /\ ArgumentIn(rest) = <<>> /\ o.optind + 1 < argc
     /\ OptionFound([o EXCEPT !.optarg = Word(o.optind + 1), !.optwhere = 1], r, 1)
  \/ /\ has_arg = "no"
     /\ OptionFound([o EXCEPT !.optarg = NoWord,
                        !.optwhere = IF ~long /\ Char(Word(o.optind), o.optwhere + 1) # Nul THEN @ + 1 ELSE 1], r, 0)

PastUnknown(o, w) ==
  IF Char(w, o.optwhere + 1) = Nul THEN [o EXCEPT !.optind = @ + 1, !.optwhere = 1] ELSE [o EXCEPT !.optwhere = @ + 1]
ShortOption(o) ==
  LET w == Word(o.optind)
      c == Char(w, o.optwhere)
  IN \/ /\ c \notin Shorts
        /\ Return_opt(argv, PastUnknown(o, w), "?")
     \/ /\ c \in Shorts
        /\ WithArgument(o, c, gconf.short[c], From(w, o.optwhere + 1), FALSE)

(* A long option: the first name that is matched in full, or else the one  *)
(* name that begins like the word.                                         *)
Name_of(w, from) == LET eq == {k \in from..Len(w) - 1 : Char(w, k) = "="}
                    IN IF eq = {} THEN From(w, from) ELSE SubSeq(w, from + 1, CHOOSE k \in eq : \A j \in eq : k <= j)
Begins(name) == {i \in DOMAIN gconf.long : IsPrefix(name, gconf.long[i].name)}
Exact_names(name) == {i \in DOMAIN gconf.long : gconf.long[i].name = name}
FirstOf(S) == CHOOSE i \in S : \A j \in S : i <= j
\* The search stops at an exact match: only the names before it can make the word ambiguous.
Before(name) == {i \in Begins(name) : Exact_names(name) # {} => i < FirstOf(Exact_names(name))}
Ambiguous(name) == \E i, j \in Before(name) : i # j
LongMatch(name) == IF Exact_names(name) # {} THEN FirstOf(Exact_names(name)) ELSE FirstOf(Begins(name))

IsLong(o) == /\ o.optwhere = 1
             /\ \/ IsPrefix(DashDash, Word(o.optind))
                \/ gconf.only /\ Char(Word(o.optind), 0) = "+"
LongOption(p) ==
  LET w == Word(p.optind)
      o == IF IsPrefix(DashDash, w) THEN [p EXCEPT !.optwhere = 2] ELSE p
      name == Name_of(w, o.optwhere)
  IN \/ /\ Ambiguous(name) /\ Return_opt(argv, o, "?")
     \/ /\ ~Ambiguous(name) /\ Begins(name) = {} /\ ShortOption(o)
     \/ /\ ~Ambiguous(name) /\ Begins(name) # {}
        /\ WithArgument(o, gconf.long[LongMatch(name)].val, gconf.long[LongMatch(name)].has_arg,
                        From(w, o.optwhere + Len(name)), TRUE)

\* There is a word at optind: the ways here have looked at it.
ParseOption(o) ==
  \/ IsLong(o) /\ LongOption(o)
  \/ ~IsLong(o) /\ ShortOption(o)

(* Find the next option, at the beginning of a word.                       *)
NextOption(o) == CHOOSE i \in o.optind..argc : is_option(Word(i)) /\ \A j \in o.optind..i - 1 : ~is_option(Word(j))
SkipOperands(o) == [o EXCEPT !.permute_from = o.optind, !.num_nonopts = NextOption(o) - o.optind,
                             !.optind = NextOption(o)]
PermuteOperands(o) ==
  \/ /\ Word(o.optind) = NoWord
     /\ Return_opt(argv, [o EXCEPT !.optind = o.permute_from], EOF)
  \/ /\ Word(o.optind) = DashDash
     /\ Return_opt(permute(argv, o.permute_from, o.num_nonopts, 1), [o EXCEPT !.optind = o.permute_from + 1], EOF)
  \/ /\ Word(o.optind) \notin {NoWord, DashDash}
     /\ ParseOption(o)
FindOption(o) ==
  \/ o.optwhere # 1 /\ ShortOption(o)
  \/ o.optwhere = 1 /\ gconf.ordering = "permute" /\ PermuteOperands(SkipOperands(o))
  \/ /\ o.optwhere = 1 /\ gconf.ordering # "permute" /\ Word(o.optind) = NoWord
     /\ Return_opt(argv, o, EOF)
  \/ /\ o.optwhere = 1 /\ gconf.ordering # "permute" /\ Word(o.optind) # NoWord /\ is_option(Word(o.optind))
     /\ ParseOption(o)
  \/ /\ o.optwhere = 1 /\ gconf.ordering = "in_order" /\ ~is_option(Word(o.optind))
     /\ Return_opt(argv, [o EXCEPT !.optarg = Word(o.optind), !.optind = @ + 1], "1")
  \/ /\ o.optwhere = 1 /\ gconf.ordering = "require" /\ ~is_option(Word(o.optind))
     /\ Return_opt(argv, o, EOF)

FirstTime(o) ==
  IF o.optind = 0 THEN [o EXCEPT !.optind = 1, !.optwhere = 1, !.permute_from = 0, !.num_nonopts = 0] ELSE o
getopt_long ==
  /\ ~gend
  /\ \/ gopt.optind >= argc /\ Return_opt(argv, gopt, EOF)
     \/ gopt.optind < argc /\ Word(gopt.optind) = DashDash /\ Return_opt(argv, [gopt EXCEPT !.optind = @ + 1], EOF)
     \/ gopt.optind < argc /\ Word(gopt.optind) # DashDash /\ FindOption(FirstTime(gopt))

CommandLines == {<<<<"prog">>>> \o a : a \in UNION {[1..n -> ArgWords] : n \in 0..MaxArgs}}
GetoptStart ==
  /\ argv = gorig
  /\ gopt = [optind |-> 0, optwhere |-> 0, permute_from |-> 0, num_nonopts |-> 0, optarg |-> NoWord]
  /\ gotten = <<>> /\ gend = FALSE

GetoptInit == gconf \in GetoptConfigs /\ gorig \in CommandLines /\ GetoptStart

GetoptNext == getopt_long
GetoptSpec == GetoptInit /\ [][GetoptNext]_getoptVars

-----------------------------------------------------------------------------
(* The reference: what the command line means, word by word and character  *)
(* by character, without moving anything.                                  *)
Meaning ==
  LET nothing == [opts |-> <<>>, rest |-> <<>>, ok |-> TRUE]
      wrong == [nothing EXCEPT !.ok = FALSE]
      W(i) == gorig[i]
      read[i \in 2..Len(gorig) + 1, k \in 1..6] ==
        LET with(opt, m) == [m EXCEPT !.opts = <<opt>> \o @]
            w == W(i)
            rest == From(w, k + 1)
            arg(v, has, text, more) ==
              CASE has = "no" /\ more -> with(<<v, NoWord>>, read[i, k + 1])
                [] has = "no" /\ ~more -> with(<<v, NoWord>>, read[i + 1, 1])
                [] has = "optional" -> with(<<v, IF ArgumentIn(text) = <<>> THEN NoWord ELSE ArgumentIn(text)>>, read[i + 1, 1])
                [] has = "required" /\ ArgumentIn(text) # <<>> -> with(<<v, ArgumentIn(text)>>, read[i + 1, 1])
                [] has = "required" /\ ArgumentIn(text) = <<>> ->
                     IF i = Len(gorig) THEN wrong ELSE with(<<v, W(i + 1)>>, read[i + 2, 1])
            name == Name_of(w, IF Char(w, 0) = "+" THEN 1 ELSE 2)
            fits == IF Exact_names(name) # {} THEN Exact_names(name) ELSE Begins(name)
        IN IF i > Len(gorig) THEN nothing
           ELSE IF k = 1 /\ w = DashDash THEN [nothing EXCEPT !.rest = SubSeq(gorig, i + 1, Len(gorig))]
           ELSE IF k = 1 /\ ~is_option(w)
           THEN CASE gconf.ordering = "permute" -> [read[i + 1, 1] EXCEPT !.rest = <<w>> \o @]
                  [] gconf.ordering = "in_order" -> with(<<"1", w>>, read[i + 1, 1])
                  [] gconf.ordering = "require" -> [nothing EXCEPT !.rest = SubSeq(gorig, i, Len(gorig))]
           ELSE IF k = 1 /\ (IsPrefix(DashDash, w) \/ Char(w, 0) = "+")
           THEN IF fits = {} \/ Ambiguous(name) THEN wrong
                ELSE LET l == gconf.long[FirstOf(fits)]
                     IN arg(l.val, l.has_arg, From(w, Len(name) + IF Char(w, 0) = "+" THEN 1 ELSE 2), FALSE)
           ELSE IF Char(w, k) \notin Shorts THEN wrong
           ELSE arg(Char(w, k), gconf.short[Char(w, k)], rest, rest # <<>>)
  IN read[2, 1]

\* The words are only moved, and the parser's place stays within them.
GetoptTypeOK ==
  /\ \A w \in Range(gorig) \cup Range(argv) : Len(SelectSeq(argv, LAMBDA x : x = w)) = Len(SelectSeq(gorig, LAMBDA x : x = w))
  /\ gopt.optind \in 0..argc /\ gopt.optwhere \in 0..6
  /\ gopt.permute_from + gopt.num_nonopts <= argc

\* A command line without mistakes gives its options with their arguments in
\* order, and leaves its operands, in order, behind optind (getopt_internal).
\* The first call looks for `--` at argv[0], so that without permutation one
\* that comes first is read as an option.
MeansThis(m) == m.ok => gotten = m.opts /\ SubSeq(argv, gopt.optind + 1, argc) = m.rest
OptionsExact ==
  gend /\ (argc > 1 /\ gorig[2] = DashDash => gconf.ordering = "permute") => MeansThis(Meaning)

\* Every call takes at least one character of the command line, so that the
\* loop of the caller ends, also on a command line with mistakes.
CallsAdvance == Len(gotten) <= FoldLeft(LAMBDA n, w : n + Len(w), 0, gorig)

(***************************************************************************)
(* The parser of configuration files, lib/ini/ini.c, as conf.ini is read:  *)
(* from a string, with a buffer for one line, comments, continued values   *)
(* and a handler that may refuse.  A document is a sequence of lines; each *)
(* comes with what a reader of the file means by it.                       *)
(***************************************************************************)

CONSTANTS
  IniLines,    \* [text, parts]: the characters of a line and what its pieces mean
  MaxIniLines,
  INI_MAX_LINE, MAX_NAME, MAX_SECTION,
  Refused      \* names the handler does not know
ASSUME IniAssumption == INI_MAX_LINE \in Nat \ {0, 1, 2} /\ MAX_NAME \in Nat \ {0} /\ MAX_SECTION \in Nat \ {0}

VARIABLES
  idoc,              \* the lines of the document
  ictx,              \* the string not read yet
  isection, iprev,   \* section[] and prev_name[]
  ilineno, ierror,   \* lines so far; the first with an error, or 0
  icalls,            \* calls of the handler
  iend               \* the value returned, once it has
iniVars == <<idoc, ictx, isection, iprev, ilineno, ierror, icalls, iend>>

Newlines == {"\n", "\r"}
Blank == {" ", "\t"} \cup Newlines

-----------------------------------------------------------------------------
\* The place of the first element from p on for which Stops holds, or the end.
FirstAt(s, p, Stops(_)) ==
  CHOOSE k \in p..Len(s) + 1 : (k = Len(s) + 1 \/ Stops(k)) /\ \A j \in p..k - 1 : ~Stops(j)
lskip(s) == SubSeq(s, FirstAt(s, 1, LAMBDA k : s[k] \notin Blank), Len(s))
rstrip(s) == Reverse(lskip(Reverse(s)))
\* An inline comment begins at a `;` behind a space; the first character is never one.
CommentAt(s, k) == k > 1 /\ s[k] = ";" /\ s[k - 1] \in Blank
find_chars_or_comment(s, chars) == FirstAt(s, 1, LAMBDA k : s[k] \in chars \/ CommentAt(s, k))
Uncommented(s) == SubSeq(s, 1, find_chars_or_comment(s, {}) - 1)
strncpy0(s, size) == SubSeq(s, 1, IF Len(s) < size THEN Len(s) ELSE size - 1)

\* The next line, newline included, or as much of it as fits.
ini_reader_string(num) == FirstAt(ictx, 1, LAMBDA k : ictx[k] \in Newlines \/ k = num - 1)
ReadLine == SubSeq(ictx, 1, IF ini_reader_string(INI_MAX_LINE) <= Len(ictx) THEN ini_reader_string(INI_MAX_LINE) ELSE Len(ictx))

HANDLER(section, name, value) == icalls' = Append(icalls, <<section, name, value>>)
Fails(failed) == ierror' = IF failed /\ ierror = 0 THEN ilineno + 1 ELSE ierror

(* The five kinds of line, of which `start` is the text without the blanks *)
(* around it and `indented` says whether there were any before it.         *)
Comment(start) ==
  /\ start # <<>> /\ start[1] \in {";", "#"}
  /\ UNCHANGED <<isection, iprev, ierror, icalls>>
Continues(start, indented) ==
  /\ iprev # <<>> /\ start # <<>> /\ start[1] \notin {";", "#"} /\ indented
  /\ HANDLER(isection, iprev, rstrip(Uncommented(start)))
  /\ Fails(iprev \in Refused)
  /\ UNCHANGED <<isection, iprev>>
NewLine(start, indented) ==
  start # <<>> /\ start[1] \notin {";", "#"} /\ ~(iprev # <<>> /\ indented)
Section(start, end) ==
  IF end <= Len(start) - 1 /\ start[end + 1] = "]"
  THEN /\ isection' = strncpy0(SubSeq(start, 2, end), MAX_SECTION)
       /\ iprev' = <<>>
       /\ UNCHANGED <<ierror, icalls>>
  ELSE Fails(TRUE) /\ UNCHANGED <<isection, iprev, icalls>>
Pair(start, end) ==
  IF end <= Len(start) /\ start[end] \in {"=", ":"}
  THEN LET name == rstrip(SubSeq(start, 1, end - 1))
       IN /\ HANDLER(isection, name, rstrip(lskip(Uncommented(SubSeq(start, end + 1, Len(start))))))
          /\ Fails(name \in Refused)
          /\ iprev' = strncpy0(name, MAX_NAME)
          /\ UNCHANGED isection
  ELSE Fails(TRUE) /\ UNCHANGED <<isection, iprev, icalls>>
IniLine(start, indented) ==
  \/ start = <<>> /\ UNCHANGED <<isection, iprev, ierror, icalls>>
  \/ Comment(start)
  \/ Continues(start, indented)
  \/ /\ NewLine(start, indented) /\ start[1] = "["
     /\ Section(start, find_chars_or_comment(SubSeq(start, 2, Len(start)), {"]"}))
  \/ /\ NewLine(start, indented) /\ start[1] # "["
     /\ Pair(start, find_chars_or_comment(start, {"=", ":"}))

ini_parse_stream ==
  /\ iend = <<>> /\ ictx # <<>>
  /\ ictx' = SubSeq(ictx, Len(ReadLine) + 1, Len(ictx))
  /\ ilineno' = ilineno + 1
  /\ IniLine(lskip(rstrip(ReadLine)), ReadLine # <<>> /\ ReadLine[1] \in Blank)
  /\ UNCHANGED <<idoc, iend>>
IniReturns ==
  /\ iend = <<>> /\ ictx = <<>>
  /\ iend' = <<ierror>>
  /\ UNCHANGED <<idoc, ictx, isection, iprev, ilineno, ierror, icalls>>

Documents == UNION {[1..n -> IniLines] : n \in 0..MaxIniLines}
ini_parse_string ==
  /\ ictx = FoldLeft(LAMBDA s, l : s \o l.text, <<>>, idoc)
  /\ isection = <<>> /\ iprev = <<>> /\ ilineno = 0 /\ ierror = 0 /\ icalls = <<>> /\ iend = <<>>
IniNext == ini_parse_stream \/ IniReturns
IniSpec == idoc \in Documents /\ ini_parse_string /\ [][IniNext]_iniVars

-----------------------------------------------------------------------------
(* What the document means: its pieces one after the other.                *)
Pieces == FoldLeft(LAMBDA s, l : s \o l.parts, <<>>, idoc)
Names(t, n) == SubSeq(t, 1, IF Len(t) < n THEN Len(t) ELSE n - 1)
Understood ==
  FoldLeft(LAMBDA d, m :
      LET k == d.line + 1
          wrong(e) == IF e /\ d.error = 0 THEN k ELSE d.error
          p == IF m.indented /\ d.prev # <<>> /\ m.cont # <<>> THEN [kind |-> "more", value |-> m.cont[1]] ELSE m.alone
      IN CASE p.kind = "nothing" -> [d EXCEPT !.line = k]
           [] p.kind = "wrong" -> [d EXCEPT !.line = k, !.error = wrong(TRUE)]
           [] p.kind = "more" -> [d EXCEPT !.line = k, !.calls = Append(@, <<d.section, d.prev, p.value>>),
                                           !.error = wrong(d.prev \in Refused)]
           [] p.kind = "section" -> [d EXCEPT !.line = k, !.section = Names(p.name, MAX_SECTION), !.prev = <<>>]
           [] p.kind = "pair" -> [d EXCEPT !.line = k, !.calls = Append(@, <<d.section, p.name, p.value>>),
                                           !.prev = Names(p.name, MAX_NAME), !.error = wrong(p.name \in Refused)],
      [line |-> 0, section |-> <<>>, prev |-> <<>>, calls |-> <<>>, error |-> 0], Pieces)

\* The line and the names kept between lines fit their buffers, and the lines
\* are counted as they are read.
IniTypeOK ==
  /\ Len(isection) < MAX_SECTION /\ Len(iprev) < MAX_NAME /\ Len(ReadLine) < INI_MAX_LINE
  /\ ilineno <= Len(Pieces) /\ ierror \in 0..ilineno

\* The handler is called with the sections, names and values the document
\* means, in its order, whatever blanks, comments, continued and broken lines
\* surround them, and the first line in error is reported (ini_parse_stream).
DocumentExact == iend # <<>> =>
  /\ icalls = Understood.calls
  /\ iend[1] = Understood.error
=============================================================================
