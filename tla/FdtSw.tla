-------------------------------- MODULE FdtSw --------------------------------
(***************************************************************************)
(* lib/fdt, a tree written from front to back: fdt_sw.c, fdt_empty_tree.c. *)
(* While it is written the structure grows upwards behind the reserved     *)
(* ranges, and the strings grow downwards from the end of the buffer;      *)
(* names are negative offsets from that end until fdt_finish().            *)
(***************************************************************************)
EXTENDS FdtRw

CONSTANTS
    SwSizes,        \* sizes given to fdt_create() and fdt_resize()
    SwNodes, SwNames, SwValues,
    SwMaxCalls      \* bound on the calls

VARIABLES
    sw,             \* the blob being written
    swBuilt,        \* ghost: its nodes so far, as Nodes() would list them
    swOpen,         \* ghost: the names of the open nodes
    swRsv,          \* ghost: its reserved ranges
    swLast          \* the last call, and its number

swVars == <<sw, swBuilt, swOpen, swRsv, swLast>>

NO_NAME_DEDUP == 1
Wrap == 2^30        \* unsigned int, scaled

-----------------------------------------------------------------------------
(* The functions: each returns [err, b].                                   *)
fdt_sw_probe_(b) == CASE b.magic = "fdt" -> BADSTATE [] b.magic = "sw" -> 0 [] OTHER -> BADMAGIC
fdt_sw_probe_memrsv_(b) ==
    IF fdt_sw_probe_(b) # 0 THEN fdt_sw_probe_(b) ELSE IF b.off_strings # 0 THEN BADSTATE ELSE 0
fdt_sw_probe_struct_(b) ==
    IF fdt_sw_probe_(b) # 0 THEN fdt_sw_probe_(b) ELSE IF b.off_strings # b.total THEN BADSTATE ELSE 0

GrabLoose(b, bytes) ==
    IF b.size_struct + Len(bytes) > b.total - b.off_struct
    THEN Error(b, NOSPACE) ELSE Done(PutStruct([b EXCEPT !.size_struct = @ + Len(bytes)], b.size_struct, bytes))
\* fdt_grab_space_() for these bytes, and the bytes written there.
Grab(b, bytes) ==
    IF b.size_struct + Len(bytes) > b.total - b.off_struct - b.size_strings
    THEN Error(b, NOSPACE) ELSE Done(PutStruct([b EXCEPT !.size_struct = @ + Len(bytes)], b.size_struct, bytes))

\* The buffer holds at least size bytes: memset() clears them.
fdt_create_with_flags(b, size, flags) ==
    IF size < HdrSize THEN Error(b, NOSPACE)
    ELSE Done([magic |-> "sw", version |-> 17, last_comp |-> flags, total |-> size, off_rsv |-> HdrSize,
               off_struct |-> HdrSize, size_struct |-> 0, off_strings |-> 0, size_strings |-> 0,
               mem |-> [i \in DOMAIN b.mem |-> IF i <= size THEN 0 ELSE b.mem[i]]])

\* fdt_resize(fdt, fdt, size): the strings move to the new end.
fdt_resize(b, size) ==
    LET head == b.off_struct + b.size_struct
        tail == b.size_strings
        moved == Put(b, size - tail, Bytes(b, b.total - tail, tail))
    IN  IF fdt_sw_probe_(b) # 0 THEN Error(b, fdt_sw_probe_(b))
        ELSE IF head + tail > size THEN Error(b, NOSPACE)
        ELSE Done([moved EXCEPT !.total = size, !.off_strings = IF @ # 0 THEN size ELSE 0])

fdt_add_reservemap_entry(b, address, size) ==
    IF fdt_sw_probe_memrsv_(b) # 0 THEN Error(b, fdt_sw_probe_memrsv_(b))
    ELSE IF b.off_struct + RsvSize > b.total THEN Error(b, NOSPACE)
    ELSE Done([Put(b, b.off_struct, Word(address) \o Word(size)) EXCEPT !.off_struct = @ + RsvSize])

fdt_finish_reservemap(b) ==
    LET r == fdt_add_reservemap_entry(b, 0, 0)
    IN  IF r.err # 0 THEN r ELSE Done([r.b EXCEPT !.off_strings = b.total])

Grabbed(b, bytes) == IF fdt_sw_probe_struct_(b) # 0 THEN Error(b, fdt_sw_probe_struct_(b)) ELSE Grab(b, bytes)
fdt_begin_node(b, name) == Grabbed(b, Word(FDT_BEGIN_NODE) \o NameField(name))
fdt_end_node(b) == Grabbed(b, Word(FDT_END_NODE))

\* err: the negative offset, or 0 for no room.
fdt_add_string_(b, s) ==
    LET offset == b.size_strings + Len(s) + 1
    IN  IF (b.total - offset) % Wrap < b.off_struct + b.size_struct
        THEN [err |-> 0, b |-> b, allocated |-> TRUE]
        ELSE [err |-> -offset, allocated |-> TRUE,
              b |-> [Put(b, b.total - offset, Append(s, NUL)) EXCEPT !.size_strings = offset]]

FoundOrNew(b, s, p) ==
    IF p >= 0 THEN [err |-> p - b.size_strings, b |-> b, allocated |-> FALSE] ELSE fdt_add_string_(b, s)
sw_find_add_string(b, s) == FoundOrNew(b, s, fdt_find_string_(Bytes(b, b.total - b.size_strings, b.size_strings), s))

\* g: the space for the property; f: the string.
OrRollBack(g, f, name) == IF g.err < 0 THEN Error(RollBack(f, name), NOSPACE) ELSE g
PropBytes(nameoff, val) ==
    Word(FDT_PROP) \o Word(Len(val)) \o Word(nameoff) \o [i \in 1..TagAlign(Len(val)) |-> IF i <= Len(val) THEN val[i] ELSE 0]
Named(b, f, name, val) ==
    IF f.err = 0 THEN Error(b, NOSPACE) ELSE OrRollBack(Grab(f.b, PropBytes(f.err, val)), f, name)
fdt_property(b, name, val) ==
    IF fdt_sw_probe_struct_(b) # 0 THEN Error(b, fdt_sw_probe_struct_(b))
    ELSE IF b.last_comp = NO_NAME_DEDUP THEN Named(b, fdt_add_string_(b, name), name, val)
    ELSE Named(b, sw_find_add_string(b, name), name, val)

\* The walk of fdt_finish(), with tag t at o.
RECURSIVE FixNames(_, _, _)
FixNames(b, o, t) ==
    CASE t[1] = FDT_END -> IF t[2] < 0 THEN Error(b, t[2]) ELSE Done(b)
      [] t[1] = FDT_PROP ->
           FixNames(PutStruct(b, o + 2 * TagSize, Word(PropNameOff(b, o) + b.size_strings)), t[2], fdt_next_tag(b, t[2]))
      [] OTHER -> FixNames(b, t[2], fdt_next_tag(b, t[2]))

Complete(r) ==
    IF r.err < 0 THEN r
    ELSE Done([r.b EXCEPT !.total = r.b.off_strings + r.b.size_strings, !.last_comp = 16, !.magic = "fdt"])
\* The string table moves behind the structure, whose bytes end at top.
StringsTo(b, top) == [Put(b, top, Bytes(b, b.total - b.size_strings, b.size_strings)) EXCEPT !.off_strings = top]
Walk(b) == Complete(FixNames(b, 0, fdt_next_tag(b, 0)))
Ended(g) == IF g.err < 0 THEN g ELSE Walk(StringsTo(g.b, g.b.off_struct + g.b.size_struct))
fdt_finish(b) == Ended(Grabbed(b, Word(FDT_END)))

\* fdt_create_empty_tree(): each call unless the one before failed.
IfDone(r, next(_)) == IF r.err < 0 THEN r ELSE next(r.b)
fdt_create_empty_tree(b, size) ==
    IfDone(fdt_create_with_flags(b, size, 0), LAMBDA b1 :
    IfDone(fdt_finish_reservemap(b1), LAMBDA b2 :
    IfDone(fdt_begin_node(b2, <<>>), LAMBDA b3 :
    IfDone(fdt_end_node(b3), LAMBDA b4 :
    IfDone(fdt_finish(b4), LAMBDA b5 : fdt_open_into(b5, size))))))

-----------------------------------------------------------------------------
(* The caller.                                                             *)
MaxSwSize == CHOOSE s \in SwSizes : \A t \in SwSizes : t <= s
NoBlob ==
    [magic |-> "none", version |-> 0, last_comp |-> 0, total |-> 0, off_rsv |-> 0, off_struct |-> 0, size_struct |-> 0,
     off_strings |-> 0, size_strings |-> 0, mem |-> [i \in 1..MaxSwSize |-> 99]]

SwInit ==
    /\ sw = NoBlob /\ swBuilt = <<>> /\ swOpen = <<>> /\ swRsv = <<>>
    /\ swLast = [op |-> "none", err |-> 0, n |-> 0, need |-> 0]

InStruct == sw.magic = "sw" /\ sw.off_strings # 0

\* A call that leaves r and takes `need' bytes; the ghosts change if it succeeds.
Called(op, need, r, built, open, rsv) ==
    /\ swLast.n < SwMaxCalls
    /\ sw' = r.b
    /\ swLast' = [op |-> op, err |-> r.err, n |-> swLast.n + 1, need |-> need]
    /\ swBuilt' = IF r.err = 0 THEN built ELSE swBuilt
    /\ swOpen' = IF r.err = 0 THEN open ELSE swOpen
    /\ swRsv' = IF r.err = 0 THEN rsv ELSE swRsv

SwCreate(size, flags) ==
    sw.magic = "none" /\ Called("create", 0, fdt_create_with_flags(sw, size, flags), <<>>, <<>>, <<>>)
SwEmpty(size) ==
    /\ sw.magic = "none"
    /\ Called("empty", 0, fdt_create_empty_tree(sw, size), <<[at |-> 0, path |-> <<>>, props |-> <<>>]>>, <<>>, <<>>)
SwResize(size) == Called("resize", 0, fdt_resize(sw, size), swBuilt, swOpen, swRsv)
SwReserve == Called("reserve", RsvSize, fdt_add_reservemap_entry(sw, 5, 6), swBuilt, swOpen, Append(swRsv, <<5, 6>>))
SwFinishReserve == Called("endrsv", RsvSize, fdt_finish_reservemap(sw), swBuilt, swOpen, swRsv)

\* The caller nests its nodes and gives a node its properties before its
\* subnodes, each once; what it calls in a wrong state is refused.
IsNode(path) == \E i \in DOMAIN swBuilt : swBuilt[i].path = path
SwBegin(name) ==
    LET open == Append(swOpen, name)
    IN  /\ InStruct => IF swBuilt = <<>> THEN name = <<>> ELSE swOpen # <<>> /\ name # <<>> /\ ~IsNode(Tail(open))
        /\ Called("begin", TagSize + TagAlign(Len(name) + 1), fdt_begin_node(sw, name),
                  Append(swBuilt, [at |-> sw.size_struct, path |-> Tail(open), props |-> <<>>]), open, swRsv)
SwEnd ==
    /\ InStruct => swOpen # <<>>
    /\ Called("end", TagSize, fdt_end_node(sw), swBuilt, IF swOpen = <<>> THEN <<>> ELSE SubSeq(swOpen, 1, Len(swOpen) - 1), swRsv)

\* What the name takes from the table.
NameNeed(name) ==
    IF sw.last_comp # NO_NAME_DEDUP /\ StringNeed([sw EXCEPT !.off_strings = sw.total - sw.size_strings], name) = 0
    THEN 0 ELSE Len(name) + 1
SwProperty(name, val) ==
    LET n == Len(swBuilt)
    IN  /\ swLast.n < SwMaxCalls
        /\ InStruct => /\ n > 0 /\ swOpen # <<>> /\ swBuilt[n].path = Tail(swOpen)
                       /\ \A i \in DOMAIN swBuilt[n].props : swBuilt[n].props[i][1] # name
        /\ Called("property", PropHdr + TagAlign(Len(val)) + (IF InStruct THEN NameNeed(name) ELSE 0),
                  fdt_property(sw, name, val),
                  IF n = 0 THEN swBuilt ELSE [swBuilt EXCEPT ![n].props = Append(@, <<name, val>>)], swOpen, swRsv)
SwFinish ==
    /\ InStruct => swOpen = <<>> /\ swBuilt # <<>>
    /\ Called("finish", TagSize, fdt_finish(sw), swBuilt, swOpen, swRsv)

SwNext ==
    \/ \E s \in SwSizes : SwEmpty(s) \/ SwResize(s) \/ \E f \in {0, NO_NAME_DEDUP} : SwCreate(s, f)
    \/ \E n \in SwNodes \cup {<<>>} : SwBegin(n)
    \/ \E n \in SwNames, v \in SwValues : SwProperty(n, v)
    \/ SwReserve \/ SwFinishReserve \/ SwEnd \/ SwFinish

SwSpec == SwInit /\ [][SwNext]_swVars

-----------------------------------------------------------------------------
(* What the calls promise.                                                 *)
\* The structure that grows upwards and the strings that grow downwards never
\* meet, whatever is refused and however the buffer is resized in between
\* (fdt_grab_space_, fdt_add_string_, fdt_resize).
GrowApart ==
    /\ sw.total <= Len(sw.mem) /\ sw.size_strings >= 0
    /\ sw.off_struct + sw.size_struct + sw.size_strings <= sw.total

\* A tree under construction can be read: every node begun so far has its name
\* and its properties, through names that are counted from the end of the
\* buffer (fdt_get_string with FDT_SW_MAGIC, fdt_find_add_string_).
ReadWhileWritten ==
    InStruct /\ sw.size_struct > 0 =>
        \A i \in DOMAIN swBuilt :
            /\ fdt_getprop_by_offset(sw, swBuilt[i].at) = swBuilt[i].props
            /\ fdt_get_name(sw, swBuilt[i].at) = IF i = 1 THEN <<>> ELSE swBuilt[i].path[Len(swBuilt[i].path)]

\* A finished tree holds exactly the nodes, properties and reserved ranges it
\* was given, in their order, and passes fdt_check_full() (fdt_finish,
\* fdt_create_empty_tree).
FinishedAsBuilt ==
    sw.magic = "fdt" =>
        /\ fdt_check_full(sw, Len(sw.mem)) = 0
        /\ Nodes(sw) = swBuilt
        /\ Reserved(sw) = swRsv

\* Calls are accepted in the order memory ranges, structure, complete and in
\* no other; in their order they fail only for lack of room, and do so exactly
\* when there is none; a refused call leaves all sizes and offsets alone
\* (fdt_sw_probe_memrsv_, fdt_sw_probe_struct_, fdt_property_placeholder).
OrderAndRoom ==
    swLast'.n # swLast.n /\ swLast'.op \in {"reserve", "endrsv", "begin", "end", "property", "finish", "resize"} =>
       LET op == swLast'.op
           expected == CASE sw.magic = "none" -> BADMAGIC
                         [] sw.magic = "fdt" -> BADSTATE
                         [] sw.magic \notin {"none", "fdt"} /\ op = "resize" -> 0
                         [] OTHER -> IF (op \in {"reserve", "endrsv"}) = (sw.off_strings = 0) THEN 0 ELSE BADSTATE
           used == sw.off_struct + sw.size_struct + sw.size_strings + swLast'.need
       IN  /\ expected # 0 => swLast'.err = expected
           /\ expected = 0 /\ op # "resize" => swLast'.err = IF used > sw.total THEN NOSPACE ELSE 0
           /\ swLast'.err # 0 => sw' = [sw EXCEPT !.mem = sw'.mem]
=============================================================================
