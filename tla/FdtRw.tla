-------------------------------- MODULE FdtRw --------------------------------
(***************************************************************************)
(* lib/fdt, changes to a blob: fdt_rw.c, fdt_wip.c and the callers'        *)
(* helpers of fdtput.c.  Every operator that stands for a function returns *)
(* [err, b]: its result and the blob it leaves behind.                     *)
(*                                                                         *)
(* The caller is the firmware: it looks a node up by its path, keeps the   *)
(* offset in a variable and calls one or more functions with it, as the    *)
(* board code does (plat/sg2042, plat/sg2044, plat/bm1690/tp).             *)
(***************************************************************************)
EXTENDS Fdt

CONSTANTS
    FdtBlobs,       \* blobs the compiler may have built
    FdtPaths,       \* paths the callers look up
    PropNames, NodeNames, PropValues,
    FdtSizes,       \* sizes of the buffers given to fdt_open_into()
    FdtCuts,        \* by how many bytes the length given to of_modify_prop() falls short
    MaxEdits        \* bound on the calls that change a blob

VARIABLES
    blob,           \* the tree in memory
    node,           \* the offset the caller holds, or an error
    held,           \* ghost: the path of that node
    nodes,          \* ghost: Nodes(blob)
    last,           \* the last call: its arguments and its result; ghosts: `served', it
                    \* lacked nothing it failed for; `torn', it left no tree that is known
    edits           \* number of calls so far

fdtVars == <<blob, node, held, nodes, last, edits>>

Done(b) == [err |-> 0, b |-> b]
Error(b, e) == [err |-> e, b |-> b]

\* memcpy() of s to offset o of the blob.
Put(b, o, s) == [b EXCEPT !.mem = SubSeq(SubSeq(@, 1, o) \o s \o SubSeq(@, o + Len(s) + 1, Len(@)), 1, Len(@))]
PutStruct(b, o, s) == Put(b, b.off_struct + o, s)

\* A word in memory: its value and its further bytes.
Word(v) == [i \in 1..TagSize |-> IF i = 1 THEN v ELSE 0]

-----------------------------------------------------------------------------
(* Splices.                                                                *)
fdt_blocks_misordered_(b, rsv_size, struct_size) ==
    \/ b.off_rsv < HdrSize
    \/ b.off_struct < b.off_rsv + rsv_size
    \/ b.off_strings < b.off_struct + struct_size
    \/ b.total < b.off_strings + b.size_strings

fdt_rw_probe_(b) ==
    IF fdt_ro_probe_(b) < 0 THEN fdt_ro_probe_(b)
    ELSE IF b.version < 17 THEN BADVERSION
    ELSE IF fdt_blocks_misordered_(b, RsvSize, b.size_struct) THEN BADLAYOUT
    ELSE 0

fdt_data_size_(b) == b.off_strings + b.size_strings

SpliceError(b, soff, oldlen, newlen) ==
    LET dsize == fdt_data_size_(b)
    IN  IF oldlen < 0 \/ soff + oldlen > dsize THEN BADOFFSET
        ELSE IF soff < 0 \/ dsize + newlen < oldlen THEN BADOFFSET
        ELSE IF dsize - oldlen + newlen > b.total THEN NOSPACE
        ELSE 0

\* The bytes behind the splice move to their new place.
fdt_splice_(b, soff, oldlen, newlen) ==
    LET d == newlen - oldlen
    IN  [i \in DOMAIN b.mem |->
            IF i > soff + newlen /\ i <= fdt_data_size_(b) + d THEN b.mem[i - d] ELSE b.mem[i]]

fdt_splice_mem_rsv_(b, n, oldn, newn) ==
    LET o == b.off_rsv + n * RsvSize
        d == (newn - oldn) * RsvSize
        err == SpliceError(b, o, oldn * RsvSize, newn * RsvSize)
    IN  IF err # 0 THEN Error(b, err)
        ELSE Done([b EXCEPT !.mem = fdt_splice_(b, o, oldn * RsvSize, newn * RsvSize),
                            !.off_struct = @ + d, !.off_strings = @ + d])

fdt_splice_struct_(b, o, oldlen, newlen) ==
    LET d == newlen - oldlen
        err == SpliceError(b, b.off_struct + o, oldlen, newlen)
    IN  IF err # 0 THEN Error(b, err)
        ELSE Done([b EXCEPT !.mem = fdt_splice_(b, b.off_struct + o, oldlen, newlen),
                            !.size_struct = @ + d, !.off_strings = @ + d])

fdt_del_last_string_(b, s) == [b EXCEPT !.size_strings = @ - (Len(s) + 1)]

fdt_splice_string_(b, n) ==
    LET err == SpliceError(b, fdt_data_size_(b), 0, n)
    IN  IF err # 0 THEN Error(b, err) ELSE Done([b EXCEPT !.size_strings = @ + n])

StringTable(b) == Bytes(b, b.off_strings, b.size_strings)

\* err: the offset of the string, or the error.
Added(b, s, r) ==
    IF r.err < 0 THEN [err |-> r.err, b |-> b, allocated |-> FALSE]
    ELSE [err |-> b.size_strings, b |-> Put(r.b, fdt_data_size_(b), Append(s, NUL)), allocated |-> TRUE]
FoundOrAdded(b, s, p) ==
    IF p >= 0 THEN [err |-> p, b |-> b, allocated |-> FALSE] ELSE Added(b, s, fdt_splice_string_(b, Len(s) + 1))
fdt_find_add_string_(b, s) == FoundOrAdded(b, s, fdt_find_string_(StringTable(b), s))

-----------------------------------------------------------------------------
(* Properties.                                                             *)
\* After an error of the splice: the string goes again if this call added it.
RollBackNever(f, name) == f.b

RollBack(f, name) == IF f.allocated THEN fdt_del_last_string_(f.b, name) ELSE f.b

\* In the results of the next three, `at' is the offset of the property.
At(e, b, o) == [err |-> e, b |-> b, at |-> o]

Resized(r, p, len) == IF r.err < 0 THEN At(r.err, r.b, p) ELSE At(0, PutStruct(r.b, p + TagSize, Word(len)), p)
ResizeAt(b, p, len) ==
    IF p < 0 THEN At(p, b, 0)
    ELSE Resized(fdt_splice_struct_(b, p + PropHdr, TagAlign(PropLen(b, p)), TagAlign(len)), p, len)
fdt_resize_property_(b, o, name, len) == ResizeAt(b, fdt_get_property(b, o, name), len)

\* r: the splice; f: the string; next: the offset behind the node's name.
Inserted(r, f, next, name, len) ==
    IF r.err < 0 THEN At(r.err, RollBack(f, name), 0)
    ELSE At(0, PutStruct(r.b, next, Word(FDT_PROP) \o Word(len) \o Word(f.err)), next)
InsertAt(f, next, name, len) ==
    IF f.err < 0 THEN At(f.err, f.b, 0)
    ELSE Inserted(fdt_splice_struct_(f.b, next, 0, PropHdr + TagAlign(len)), f, next, name, len)
AddBehind(b, next, name, len) ==
    IF next < 0 THEN At(next, b, 0) ELSE InsertAt(fdt_find_add_string_(b, name), next, name, len)
fdt_add_property_(b, o, name, len) == AddBehind(b, fdt_check_node_offset_(b, o), name, len)

OrAdd(r, b, o, name, len) == IF r.err = NOTFOUND THEN fdt_add_property_(b, o, name, len) ELSE r
fdt_setprop_placeholder(b, o, name, len) ==
    IF fdt_rw_probe_(b) < 0 THEN At(fdt_rw_probe_(b), b, 0)
    ELSE OrAdd(fdt_resize_property_(b, o, name, len), b, o, name, len)

Filled(r, val) == IF r.err < 0 THEN Error(r.b, r.err) ELSE Done(PutStruct(r.b, r.at + PropHdr, val))
fdt_setprop(b, o, name, val) == Filled(fdt_setprop_placeholder(b, o, name, Len(val)), val)

\* old: the length so far.
Lengthened(r, p, old, val) ==
    IF r.err < 0 THEN r
    ELSE Done(PutStruct(PutStruct(r.b, p + TagSize, Word(old + Len(val))), p + PropHdr + old, val))
AppendAt(b, p, o, name, val) ==
    IF p >= 0
    THEN Lengthened(fdt_splice_struct_(b, p + PropHdr, TagAlign(PropLen(b, p)), TagAlign(PropLen(b, p) + Len(val))),
                    p, PropLen(b, p), val)
    ELSE Filled(fdt_add_property_(b, o, name, Len(val)), val)
fdt_appendprop(b, o, name, val) ==
    IF fdt_rw_probe_(b) < 0 THEN Error(b, fdt_rw_probe_(b))
    ELSE AppendAt(b, fdt_get_property(b, o, name), o, name, val)

DeleteAt(b, p) ==
    IF p < 0 THEN Error(b, p) ELSE fdt_splice_struct_(b, p, PropHdr + TagAlign(PropLen(b, p)), 0)
fdt_delprop(b, o, name) ==
    IF fdt_rw_probe_(b) < 0 THEN Error(b, fdt_rw_probe_(b)) ELSE DeleteAt(b, fdt_get_property(b, o, name))

WriteAt(b, p, idx, val) ==
    IF p < 0 THEN Error(b, p)
    ELSE IF PropLen(b, p) < Len(val) + idx THEN Error(b, NOSPACE)
    ELSE Done(PutStruct(b, p + PropHdr + idx, val))
fdt_setprop_inplace_namelen_partial(b, o, name, idx, val) == WriteAt(b, fdt_get_property(b, o, name), idx, val)

SameLength(b, p, val) == p >= 0 => PropLen(b, p) = Len(val)
fdt_setprop_inplace(b, o, name, val) ==
    IF SameLength(b, fdt_get_property(b, o, name), val)
    THEN fdt_setprop_inplace_namelen_partial(b, o, name, 0, val) ELSE Error(b, NOSPACE)

Nops(n) == [i \in 1..TagAlign(n) |-> IF i % TagSize = 1 \/ TagSize = 1 THEN FDT_NOP ELSE 0]

NopAt(b, p) == IF p < 0 THEN Error(b, p) ELSE Done(PutStruct(b, p, Nops(PropLen(b, p) + PropHdr)))
fdt_nop_property(b, o, name) == NopAt(b, fdt_get_property(b, o, name))

-----------------------------------------------------------------------------
(* Nodes.                                                                  *)
NameSet(r, o, name) == IF r.err < 0 THEN r ELSE Done(PutStruct(r.b, o + TagSize, Append(name, NUL)))
Rename(b, o, old, name) ==
    IF Failed(old) THEN Error(b, old[1])
    ELSE NameSet(fdt_splice_struct_(b, o + TagSize, TagAlign(Len(old) + 1), TagAlign(Len(name) + 1)), o, name)
fdt_set_name(b, o, name) ==
    IF fdt_rw_probe_(b) < 0 THEN Error(b, fdt_rw_probe_(b)) ELSE Rename(b, o, fdt_get_name(b, o), name)

\* The first offset from o on, with tag t there, that is no property.
RECURSIVE SkipProps(_, _, _)
SkipProps(b, o, t) ==
    IF t[1] \in {FDT_PROP, FDT_NOP} THEN SkipProps(b, t[2], fdt_next_tag(b, t[2])) ELSE o
BehindProps(b, o) == SkipProps(b, o, fdt_next_tag(b, o))

\* The name, its NUL and its padding.

NameField(name) == [i \in 1..TagAlign(Len(name) + 1) |-> IF i <= Len(name) THEN name[i] ELSE NUL]

\* err: the offset of the new node, or the error.
NodeBytes(name) == Word(FDT_BEGIN_NODE) \o NameField(name) \o Word(FDT_END_NODE)
NodeSet(r, o, name) == IF r.err < 0 THEN r ELSE [err |-> o, b |-> PutStruct(r.b, o, NodeBytes(name))]
NewNodeAt(b, o, name) == NodeSet(fdt_splice_struct_(b, o, 0, Len(NodeBytes(name))), o, name)
UnlessFound(b, found, parent, name) ==
    IF found >= 0 THEN Error(b, EXISTS)
    ELSE IF found # NOTFOUND THEN Error(b, found)
    ELSE NewNodeAt(b, BehindProps(b, fdt_next_tag(b, parent)[2]), name)
fdt_add_subnode(b, parent, name) ==
    IF fdt_rw_probe_(b) < 0 THEN Error(b, fdt_rw_probe_(b))
    ELSE UnlessFound(b, fdt_subnode_offset(b, parent, name), parent, name)

\* n: offset and depth.
RECURSIVE EndFrom(_, _)
EndFrom(b, n) == IF n[1] < 0 \/ n[2] < 0 THEN n[1] ELSE EndFrom(b, fdt_next_node(b, n[1], n[2], TRUE))
fdt_node_end_offset_(b, o) == EndFrom(b, <<o, 0>>)

DeleteUpTo(b, o, end) == IF end < 0 THEN Error(b, end) ELSE fdt_splice_struct_(b, o, end - o, 0)
fdt_del_node(b, o) ==
    IF fdt_rw_probe_(b) < 0 THEN Error(b, fdt_rw_probe_(b)) ELSE DeleteUpTo(b, o, fdt_node_end_offset_(b, o))

NopUpTo(b, o, end) == IF end < 0 THEN Error(b, end) ELSE Done(PutStruct(b, o, Nops(end - o)))
fdt_nop_node(b, o) == NopUpTo(b, o, fdt_node_end_offset_(b, o))

fdt_add_mem_rsv(b, address, size) ==
    LET n == fdt_num_mem_rsv(b)
        r == fdt_splice_mem_rsv_(b, n, 0, 1)
        err == fdt_rw_probe_(b)
    IN  IF err < 0 THEN Error(b, err)
        ELSE IF r.err < 0 THEN r ELSE Done(Put(r.b, b.off_rsv + n * RsvSize, Word(address) \o Word(size)))

fdt_del_mem_rsv(b, n) ==
    LET err == fdt_rw_probe_(b)
    IN  IF err < 0 THEN Error(b, err)
        ELSE IF n >= fdt_num_mem_rsv(b) THEN Error(b, NOTFOUND) ELSE fdt_splice_mem_rsv_(b, n, 1, 0)

-----------------------------------------------------------------------------
(* Whole blobs.                                                            *)
\* fdt_packblocks_() to offset `to' of the buffer: the three blocks move one
\* after the other, each from where it is by then.
fdt_packblocks_(b, to, rsv_size, struct_size, strings_size) ==
    LET rsv == HdrSize
        str == rsv + rsv_size
        tab == str + struct_size
        one == Put(b, to + rsv, Bytes(b, b.off_rsv, rsv_size))
        two == Put(one, to + str, Bytes(one, b.off_struct, struct_size))
    IN  [Put(two, to + tab, Bytes(two, b.off_strings, strings_size))
            EXCEPT !.off_rsv = rsv, !.off_struct = str, !.size_struct = struct_size, !.off_strings = tab]

\* The buffer has at least bufsize bytes; what was not part of it before is arbitrary (here 0).
Grown(b, bufsize) ==
    IF bufsize <= Len(b.mem) THEN b ELSE [b EXCEPT !.mem = @ \o [i \in 1..(bufsize - Len(@)) |-> 0]]

RECURSIVE StructEnd(_, _)
StructEnd(b, o) == LET t == fdt_next_tag(b, o) IN IF t[1] = FDT_END THEN t[2] ELSE StructEnd(b, t[2])

\* fdt_open_into(fdt, fdt, bufsize): the buffer of the tree itself.
fdt_open_into(b0, bufsize) ==
    LET b == Grown(b0, bufsize)
        rsv_size == (fdt_num_mem_rsv(b0) + 1) * RsvSize
        struct_size == IF b0.version >= 17 THEN b0.size_struct ELSE StructEnd(b0, 0)
        newsize == HdrSize + rsv_size + struct_size + b0.size_strings
        behind == fdt_packblocks_(b, b0.total, rsv_size, struct_size, b0.size_strings)
        moved == Put(behind, HdrSize, Bytes(behind, b0.total + HdrSize, newsize - HdrSize))
    IN  IF fdt_ro_probe_(b0) < 0 THEN Error(b, fdt_ro_probe_(b0))
        ELSE IF b0.version < 16 THEN Error(b, BADVERSION)
        ELSE IF struct_size < 0 THEN Error(b, struct_size)
        ELSE IF ~fdt_blocks_misordered_(b0, rsv_size, struct_size) THEN
               IF b0.total > bufsize THEN Error(b, NOSPACE)
               ELSE Done([b EXCEPT !.version = 17, !.size_struct = struct_size, !.total = bufsize])
        ELSE IF bufsize < newsize \/ b0.total + newsize > bufsize THEN Error(b, NOSPACE)
        ELSE Done([moved EXCEPT !.total = bufsize, !.version = 17, !.last_comp = 16])

fdt_pack(b) ==
    LET rsv_size == (fdt_num_mem_rsv(b) + 1) * RsvSize
        p == fdt_packblocks_(b, 0, rsv_size, b.size_struct, b.size_strings)
        err == fdt_rw_probe_(b)
    IN  IF err < 0 THEN Error(b, err) ELSE Done([p EXCEPT !.total = fdt_data_size_(p)])

-----------------------------------------------------------------------------
(* fdtput.c.                                                               *)
\* What a failed malloc() or realloc() leaves the caller with.  No tree lies at
\* address 0: libfdt refuses it by its magic number.  A firmware that traps
\* there instead stops in the middle of the call.
Null == [magic |-> "null"]

\* served: the heap has the room.
realloc_fdt(b, delta, served) == IF served THEN fdt_open_into(b, b.total + delta).b ELSE Null

realloc_node(b, name, served) == realloc_fdt(b, 2 * TagSize + TagAlign(Len(name) + 1), served)

\* oldlen: the length, or the error fdt_get_property() left in its place.
RoomFor(name, oldlen, newlen) ==
    (IF oldlen < 0 THEN PropHdr + Len(name) + 1 ELSE 0)
    + (IF newlen > oldlen THEN TagAlign(newlen) - TagAlign(oldlen) ELSE 0)
OldLen(b, p) == IF p < 0 THEN p ELSE PropLen(b, p)
realloc_property(b, o, name, newlen, served) ==
    realloc_fdt(b, RoomFor(name, OldLen(b, fdt_get_property(b, o, name)), newlen), served)

Again(r, o, name, val, served) ==
    IF r.err = NOSPACE THEN fdt_setprop(realloc_property(r.b, o, name, Len(val), served), o, name, val) ELSE r
StoreAt(b, o, name, val, served) ==
    IF o < 0 THEN Error(b, o) ELSE Again(fdt_setprop(b, o, name, val), o, name, val, served)
store_key_value(b, path, name, val, served) == StoreAt(b, fdt_path_offset(b, path), name, val, served)

\* A copy of the first len bytes; those behind them are arbitrary, here 0 or
\* what the tree has there.
utilfdt_read(b, len) == {b, [b EXCEPT !.mem = SubSeq(@, 1, len) \o [i \in 1..(Len(@) - len) |-> 0]]}

\* The whole of blob p over the caller's buffer, whatever its size; what lay
\* behind the buffer is lost.
utilfdt_write(b, p) == [p EXCEPT !.mem = SubSeq(@, 1, p.total) \o SubSeq(b.mem, p.total + 1, Len(b.mem))]

\* of_modify_prop() with this copy of the tree: the copy is changed, packed and
\* written back.  A number is converted in a buffer of its own; fails: the
\* allocation that fails, if any.
CopiedBack(b, r) == IF r.err < 0 THEN Error(b, -1) ELSE Done(utilfdt_write(b, fdt_pack(r.b).b))
of_modify_prop(b, copy, path, name, val, type, fails) ==
    IF fails = "copy" \/ type = "unknown" \/ (type = "number" /\ fails = "value") THEN Error(b, -1)
    ELSE CopiedBack(b, store_key_value(copy, path, name, val, fails # "grow"))

\* The loop of create_paths(): every name of the path that is missing below o.
\* n: the number of times the heap has room for a larger tree.
RECURSIVE CreateBelow(_, _, _, _)
FoundOrMade(b, found, o, name, path, n) ==
    IF found = NOTFOUND THEN fdt_add_subnode(realloc_node(b, path, n > 0), o, name) ELSE [err |-> found, b |-> b]
CreateRest(r, path, n) == IF r.err < 0 THEN Error(r.b, -1) ELSE CreateBelow(r.b, r.err, path, n)
CreateBelow(b, o, path, n) ==
    LET k == IndexOrEnd(path, SLASH)
        name == SubSeq(path, 1, k - 1)
        found == fdt_subnode_offset(b, o, name)
    IN  IF path = <<>> THEN Done(b)
        ELSE CreateRest(FoundOrMade(b, found, o, name, path, n), SubSeq(path, k + 1, Len(path)),
                        IF found = NOTFOUND THEN n - 1 ELSE n)
create_paths(b, path, n) == CreateBelow(b, 0, IF path[1] = SLASH THEN Tail(path) ELSE path, n)

-----------------------------------------------------------------------------
(* What a blob means, read word by word.                                   *)
\* Nodes in their order: where each begins, its path (the root's is <<>>) and
\* its properties; <<>> if the structure is not well formed.
RECURSIVE ReadFrom(_, _, _, _)
ReadFrom(b, o, open, ns) ==
    LET tag == b.mem[b.off_struct + o + 1]
        rest == SubSeq(b.mem, b.off_struct + o + TagSize + 1, Len(b.mem))
        name == SubSeq(rest, 1, IndexOrEnd(rest, NUL) - 1)
        len == rest[1]
        label == SubSeq(b.mem, b.off_strings + rest[TagSize + 1] + 1, Len(b.mem))
        pname == SubSeq(label, 1, IndexOrEnd(label, NUL) - 1)
        val == SubSeq(rest, 2 * TagSize + 1, 2 * TagSize + len)
        here == CHOOSE i \in DOMAIN ns : ns[i].path = Tail(open) /\ \A j \in DOMAIN ns : ns[j].path = Tail(open) => j <= i
    IN  IF o >= b.size_struct THEN <<>> ELSE
        CASE tag = FDT_END -> IF open = <<>> /\ o + TagSize = b.size_struct THEN ns ELSE <<>>
          [] tag = FDT_NOP -> ReadFrom(b, o + TagSize, open, ns)
          [] tag = FDT_BEGIN_NODE /\ (open = <<>> => ns = <<>>) ->
               ReadFrom(b, o + TagSize + TagAlign(Len(name) + 1), Append(open, name),
                        Append(ns, [at |-> o, path |-> Tail(Append(open, name)), props |-> <<>>]))
          [] tag = FDT_END_NODE /\ open # <<>> -> ReadFrom(b, o + TagSize, SubSeq(open, 1, Len(open) - 1), ns)
          [] tag = FDT_PROP /\ open # <<>> ->
               ReadFrom(b, o + PropHdr + TagAlign(len), open, [ns EXCEPT ![here].props = Append(@, <<pname, val>>)])
          [] OTHER -> <<>>
Nodes(b) == IF fdt_data_size_(b) > Len(b.mem) THEN <<>> ELSE ReadFrom(b, 0, <<>>, <<>>)

\* Properties as a function from names to values.
AsFunction(props) ==
    [n \in {props[i][1] : i \in DOMAIN props} |->
        props[CHOOSE i \in DOMAIN props : props[i][1] = n /\ \A j \in DOMAIN props : props[j][1] = n => i <= j][2]]

\* The tree: paths to properties.
Tree(ns) ==
    [p \in {ns[i].path : i \in DOMAIN ns} |-> AsFunction(ns[CHOOSE i \in DOMAIN ns : ns[i].path = p].props)]

Reserved(b) == [i \in 1..fdt_num_mem_rsv(b) |-> RsvAt(b, i - 1)]

-----------------------------------------------------------------------------
(* The caller.                                                             *)
Call(o, n, v, e) == [op |-> o, name |-> n, val |-> v, err |-> e, served |-> TRUE, torn |-> FALSE]
NoCall == Call("none", <<>>, <<>>, 0)

FdtInit ==
    /\ blob \in FdtBlobs /\ nodes = Nodes(blob)
    /\ node = NOTFOUND /\ held = <<>> /\ last = NoCall /\ edits = 0

PathAt(ns, o) == ns[CHOOSE i \in DOMAIN ns : ns[i].at = o].path

\* node = fdt_path_offset(fdt, path)
Look(path) ==
    LET o == fdt_path_offset(blob, path)
    IN  /\ edits < MaxEdits /\ node < 0 /\ ~last.torn
        /\ node' = o
        /\ held' = IF o < 0 THEN <<>> ELSE PathAt(nodes, o)
        /\ last' = Call("look", path, <<>>, IF o < 0 THEN o ELSE 0)
        /\ UNCHANGED <<blob, nodes, edits>>

\* A call that leaves r; o and path: what the caller holds afterwards.
Returns(call, r, o, path) ==
    /\ edits < MaxEdits /\ edits' = edits + 1 /\ ~last.torn
    /\ blob' = r.b /\ nodes' = IF call.torn THEN <<>> ELSE Nodes(r.b)
    /\ last' = [call EXCEPT !.err = IF r.err < 0 THEN r.err ELSE 0]
    /\ node' = o /\ held' = path

Keeps(call, r) == Returns(call, r, node, held)

SetProp(n, v) == node >= 0 /\ Keeps(Call("set", n, v, 0), fdt_setprop(blob, node, n, v))
AppendProp(n, v) == node >= 0 /\ Keeps(Call("append", n, v, 0), fdt_appendprop(blob, node, n, v))
DelProp(n) == node >= 0 /\ Keeps(Call("delprop", n, <<>>, 0), fdt_delprop(blob, node, n))
SetInPlace(n, v) == node >= 0 /\ Keeps(Call("inplace", n, v, 0), fdt_setprop_inplace(blob, node, n, v))
NopProp(n) == node >= 0 /\ Keeps(Call("delprop", n, <<>>, 0), fdt_nop_property(blob, node, n))

\* The callers rename to names that no other node has.
SetName(n) ==
    /\ node > 0
    /\ Append(SubSeq(held, 1, Len(held) - 1), n) \notin DOMAIN Tree(nodes)
    /\ LET r == fdt_set_name(blob, node, n)
       IN  Returns(Call("name", n, <<>>, 0), r, node, IF r.err < 0 THEN held ELSE Append(SubSeq(held, 1, Len(held) - 1), n))

\* The caller goes on with the new node.
AddSubnode(n) ==
    /\ node >= 0
    /\ LET r == fdt_add_subnode(blob, node, n)
       IN  Returns(Call("add", n, <<>>, 0), r, IF r.err < 0 THEN node ELSE r.err, IF r.err < 0 THEN held ELSE Append(held, n))

DelNode ==
    /\ node > 0
    /\ \E r \in {fdt_del_node(blob, node), fdt_nop_node(blob, node)} :
          Returns(Call("delnode", <<>>, <<>>, 0), r, NOTFOUND, <<>>)

AddRsv == node < 0 /\ Returns(Call("addrsv", <<5, 6>>, <<>>, 0), fdt_add_mem_rsv(blob, 5, 6), node, held)
DelRsv(n) == node < 0 /\ Returns(Call("delrsv", <<n>>, <<>>, 0), fdt_del_mem_rsv(blob, n), node, held)
OpenInto(size) == node < 0 /\ Returns(Call("open", <<>>, <<>>, 0), fdt_open_into(blob, size), node, held)
Pack == node < 0 /\ Returns(Call("pack", <<>>, <<>>, 0), fdt_pack(blob), node, held)

\* The board code gives the length the file had when it was read, be the tree
\* longer by now or not.  A tree written back from a copy that was cut is no
\* longer known.
Copies == UNION {utilfdt_read(blob, len) : len \in {blob.total} \cup {fdt_data_size_(blob) - cut : cut \in FdtCuts}}
WholeCopy(copy) == Bytes(copy, 0, fdt_data_size_(blob)) = Bytes(blob, 0, fdt_data_size_(blob))
\* The type of the value, and the allocation that fails.
Ways == {<<"string", "none">>, <<"number", "copy">>, <<"number", "value">>, <<"number", "grow">>, <<"unknown", "none">>}
Modified(copy, path, n, v, way) ==
    LET r == of_modify_prop(blob, copy, path, n, v, way[1], way[2])
    IN  [r |-> r, torn |-> r.err = 0 /\ ~WholeCopy(copy), served |-> r.err = 0 \/ (WholeCopy(copy) /\ way = <<"string", "none">>)]
Modify(path, n, v) ==
    /\ node < 0 /\ ~last.torn /\ edits < MaxEdits
    /\ \E m \in {Modified(copy, path, n, v, way) : copy \in Copies, way \in Ways} :
          Returns([Call("modify", <<path, n>>, v, 0) EXCEPT !.served = m.served, !.torn = m.torn], m.r, node, held)

\* create_paths() puts the larger tree in place of its caller's, and NULL if there is no room.
Created(path, n) ==
    LET r == create_paths(blob, path, n)
    IN  [r |-> r, torn |-> r.b = Null, served |-> r.err = 0 \/ n = Len(Components(path))]
Create(path) ==
    /\ node < 0 /\ ~last.torn /\ edits < MaxEdits
    /\ \E m \in {Created(path, n) : n \in 0..Len(Components(path))} :
          Returns([Call("create", path, <<>>, 0) EXCEPT !.served = m.served, !.torn = m.torn], m.r, node, held)

\* The caller is done with its node.
Leave == node >= 0 /\ node' = NOTFOUND /\ held' = <<>> /\ last' = NoCall /\ UNCHANGED <<blob, nodes, edits>>

FdtNext ==
    \/ \E p \in FdtPaths : Look(p) \/ Create(p) \/ \E n \in PropNames, v \in PropValues : Modify(p, n, v)
    \/ \E n \in PropNames : DelProp(n) \/ NopProp(n)
    \/ \E n \in PropNames, v \in PropValues : SetProp(n, v) \/ AppendProp(n, v) \/ SetInPlace(n, v)
    \/ \E n \in NodeNames : SetName(n) \/ AddSubnode(n)
    \/ \E n \in 0..1 : DelRsv(n)
    \/ \E s \in FdtSizes : OpenInto(s)
    \/ DelNode \/ AddRsv \/ Pack \/ Leave

FdtSpec == FdtInit /\ [][FdtNext]_fdtVars

-----------------------------------------------------------------------------
(* What the calls promise.                                                 *)
\* Whether blob b may be written: version 17, blocks in their order.
Writable(b) == b.magic = "fdt" /\ b.version = 17 /\ ~fdt_blocks_misordered_(b, RsvSize, b.size_struct)

\* Every offset of the header stays inside the tree, and the tree inside its
\* buffer, also after a call that found no room (fdt_splice_); not so a tree
\* that its caller has lost (Modify, Create).
FdtTypeOK ==
    ~last.torn =>
    /\ blob.total <= Len(blob.mem) /\ fdt_data_size_(blob) <= blob.total
    /\ blob.off_struct + blob.size_struct <= blob.total
    /\ node \in Int /\ edits \in 0..MaxEdits

\* Whatever was called, and whether it succeeded or not, the blob passes
\* fdt_check_full() and reads as a tree with one root, no two nodes of one
\* path and no property twice in a node.
BlobSound ==
  ~last.torn =>
    LET ns == nodes
    IN  /\ fdt_check_full(blob, Len(blob.mem)) = 0
        /\ ns # <<>>
        /\ \A i, j \in DOMAIN ns : ns[i].path = ns[j].path => i = j
        /\ \A i \in DOMAIN ns : Cardinality(DOMAIN AsFunction(ns[i].props)) = Len(ns[i].props)

\* The offset a caller holds names the node it looked up or added, however
\* often it has called functions with it (the board code sets many properties
\* of a node with one offset); only a deleted node's offset is dead.
HeldNode ==
    node >= 0 => \E i \in DOMAIN nodes : nodes[i].at = node /\ nodes[i].path = held

\* Name s matches node name n: equal, or s leaves out the unit address.
Matches(s, n) ==
    \/ s = n
    \/ /\ Len(s) < Len(n) /\ SubSeq(n, 1, Len(s)) = s /\ n[Len(s) + 1] = AT
       /\ \A i \in DOMAIN s : s[i] # AT

\* The children of path p whose name matches s, in their order.
Children(ns, p, s) ==
    {i \in DOMAIN ns : /\ Len(ns[i].path) = Len(p) + 1 /\ SubSeq(ns[i].path, 1, Len(p)) = p
                       /\ Matches(s, ns[i].path[Len(p) + 1])}
First(S) == CHOOSE i \in S : \A j \in S : i <= j

\* The index of the node that names lead to from path p, or 0.
RECURSIVE Resolve(_, _, _)
Resolve(ns, i, names) ==
    IF names = <<>> THEN i
    ELSE LET c == Children(ns, ns[i].path, Head(names)) IN IF c = {} THEN 0 ELSE Resolve(ns, First(c), Tail(names))

\* Every absolute path is found exactly if it is there, and of several nodes
\* that match the first; a node's properties, its parent, its depth and its
\* path come back as they stand in the tree, into every buffer that is large
\* enough and into no smaller one (fdt_path_offset, fdt_getprop_by_offset,
\* fdt_parent_offset, fdt_get_path).  Looked at when the caller holds no node.
LookupsExact ==
  node < 0 /\ ~last.torn =>
    LET ns == nodes
    IN  /\ \A p \in FdtPaths :
              LET i == Resolve(ns, 1, Components(p))
              IN  p[1] = SLASH => fdt_path_offset(blob, p) = IF i = 0 THEN NOTFOUND ELSE ns[i].at
        /\ \A i \in DOMAIN ns :
              /\ fdt_getprop_by_offset(blob, ns[i].at) = ns[i].props
              /\ fdt_node_depth(blob, ns[i].at) = Len(ns[i].path)
              /\ i > 1 => \E j \in DOMAIN ns : /\ ns[j].at = fdt_parent_offset(blob, ns[i].at)
                                              /\ ns[j].path = SubSeq(ns[i].path, 1, Len(ns[i].path) - 1)
              /\ LET text == fdt_get_path(blob, ns[i].at, 100)
                 IN  /\ Components(text) = ns[i].path
                     /\ fdt_get_path(blob, ns[i].at, Len(text) + 1) = text
                     /\ fdt_get_path(blob, ns[i].at, Len(text) - 1) = <<NOSPACE>>

\* The strings of a list that ends with NUL, by their places.
InList(list, s) ==
    \E i \in 1..Len(list) :
        /\ i = 1 \/ list[i - 1] = NUL
        /\ i + Len(s) <= Len(list) /\ SubSeq(list, i, i + Len(s)) = Append(s, NUL)

\* A search by property value, by compatible string or by phandle returns the
\* first node that has it, and the lists of strings agree with each other
\* (fdt_node_offset_by_*, fdt_stringlist_*).  A list without NUL at its end
\* may be taken for one that has it.
SearchesExact ==
  node < 0 /\ ~last.torn =>
    LET ns == nodes
        t == Tree(ns)
        first(S) == IF S = {} THEN NOTFOUND ELSE ns[First(S)].at
        having(n) == {i \in DOMAIN ns : n \in DOMAIN t[ns[i].path]}
    IN  /\ \A n \in PropNames, v \in PropValues :
              fdt_node_offset_by_prop_value(blob, -1, n, v) = first({i \in having(n) : t[ns[i].path][n] = v})
        /\ \A v \in PropValues :
              LET s == SubSeq(v, 1, IndexOrEnd(v, NUL) - 1)
                  lists == {i \in having(CompatibleName) : InList(t[ns[i].path][CompatibleName], s)}
                  open == {i \in having(CompatibleName) : LET l == t[ns[i].path][CompatibleName] IN l # <<>> /\ l[Len(l)] # NUL}
              IN  /\ s # <<>> => fdt_node_offset_by_compatible(blob, -1, s) \in {first(lists)} \cup {ns[i].at : i \in open}
                  /\ s # <<>> => \A i \in lists : fdt_stringlist_search(t[ns[i].path][CompatibleName], s) >= 0
        /\ \A i \in having(CompatibleName) :
              LET l == t[ns[i].path][CompatibleName]
                  k == fdt_stringlist_count(l)
              IN  l # <<>> /\ k >= 0 => fdt_stringlist_get(l, k - 1) # <<NOTFOUND>> /\ fdt_stringlist_get(l, k) = <<NOTFOUND>>
        /\ LET m == fdt_find_max_phandle(blob)
               owners(h) == {i \in having(PhandleName) : LET v == t[ns[i].path][PhandleName] IN Len(v) = TagSize /\ v[1] = h}
           IN  /\ m > 0 => fdt_node_offset_by_phandle(blob, m) = first(owners(m))
               /\ \A h \in (m + 1)..(m + 3) : owners(h) = {}

-----------------------------------------------------------------------------
(* What each call does to the tree.                                        *)
StringNeed(b, n) ==
    IF \E i \in 1..(b.size_strings - Len(n)) : SubSeq(StringTable(b), i, i + Len(n)) = Append(n, NUL) THEN 0 ELSE Len(n) + 1

\* The room that value v of property n takes in node p, and the size of a
\* tree without a byte to spare.
PropNeed(b, t, p, n, v) ==
    IF n \in DOMAIN t[p] THEN TagAlign(Len(v)) - TagAlign(Len(t[p][n]))
    ELSE PropHdr + TagAlign(Len(v)) + StringNeed(b, n)
Packed(b) == HdrSize + RsvSize * (Len(Reserved(b)) + 1) + b.size_struct + b.size_strings

WithProp(t, p, n, v) == [t EXCEPT ![p] = [m \in DOMAIN @ \cup {n} |-> IF m = n THEN v ELSE @[m]]]
WithoutProp(t, p, n) == [t EXCEPT ![p] = [m \in DOMAIN @ \ {n} |-> @[m]]]
Below(p, q) == Len(q) >= Len(p) /\ SubSeq(q, 1, Len(p)) = p
WithoutNode(t, p) == [q \in {q \in DOMAIN t : ~Below(p, q)} |-> t[q]]
Renamed(t, p, n) ==
    LET new(q) == IF Below(p, q) THEN [q EXCEPT ![Len(p)] = n] ELSE q
    IN  [r \in {new(q) : q \in DOMAIN t} |-> t[CHOOSE q \in DOMAIN t : new(q) = r]]

\* The error, and the tree, that a call with the node of path p must give;
\* `need' is the room it takes.
Promise(c, b, ns, p) ==
    LET t == Tree(ns)
        has == c.name \in DOMAIN t[p]
        old == IF has THEN t[p][c.name] ELSE <<>>
        val == IF c.op = "append" THEN old \o c.val ELSE c.val
        need == CASE c.op \in {"set", "append"} -> PropNeed(b, t, p, c.name, val)
                  [] c.op = "name" -> TagAlign(Len(c.name) + 1) - TagAlign(Len(p[Len(p)]) + 1)
                  [] c.op = "add" -> 2 * TagSize + TagAlign(Len(c.name) + 1)
                  [] OTHER -> 0
        refused == IF b.version < 17 THEN BADVERSION ELSE BADLAYOUT
        no(e) == [err |-> e, tree |-> t]
        yes(u) == [err |-> 0, tree |-> u]
    IN  CASE c.op = "inplace" -> IF ~has THEN no(NOTFOUND) ELSE IF Len(old) # Len(val) THEN no(NOSPACE) ELSE yes(WithProp(t, p, c.name, val))
          [] c.op \in {"set", "append", "name", "add"} /\ Writable(b) ->
               IF c.op = "add" /\ Children(ns, p, c.name) # {} THEN no(EXISTS)
               ELSE IF fdt_data_size_(b) + need > b.total THEN no(NOSPACE)
               ELSE yes(CASE c.op = "name" -> Renamed(t, p, c.name)
                          [] c.op = "add" -> [q \in DOMAIN t \cup {Append(p, c.name)} |-> IF q \in DOMAIN t THEN t[q] ELSE <<>>]
                          [] OTHER -> WithProp(t, p, c.name, val))
          [] OTHER -> no(refused)

\* A call that changes a property or a node does to the tree what it says, and
\* nothing else; it fails exactly if the name is taken, the property is missing
\* or the room that is left does not suffice; and a failed call leaves the
\* tree, the strings and the header as they were (fdt_setprop, fdt_appendprop,
\* fdt_setprop_inplace, fdt_set_name, fdt_add_subnode).
EditsTree ==
    last'.op \in {"set", "append", "inplace", "name", "add"} /\ edits' # edits =>
       LET want == Promise(last', blob, nodes, held)
       IN  /\ last'.err = want.err
           /\ Tree(nodes') = want.tree
           /\ Reserved(blob') = Reserved(blob)
           /\ last'.err # 0 => blob' = [blob EXCEPT !.mem = blob'.mem]

\* A removed property or node is gone with all that belongs to it and nothing
\* else is, whether its bytes are taken out or overwritten by NOPs
\* (fdt_delprop, fdt_nop_property, fdt_del_node, fdt_nop_node).
RemovesExactly ==
    last'.op \in {"delprop", "delnode"} /\ edits' # edits =>
       LET t == Tree(nodes)
           u == Tree(nodes')
       IN  /\ last'.op = "delprop" => (last'.err = NOTFOUND <=> last'.name \notin DOMAIN t[held] /\ (Writable(blob) \/ last'.err = NOTFOUND))
           /\ u = IF last'.err # 0 THEN t
                  ELSE IF last'.op = "delprop" THEN WithoutProp(t, held, last'.name) ELSE WithoutNode(t, held)

\* Moving a tree into a larger buffer and packing it change no node, no
\* property and no reserved range, whatever the order of the blocks was; a
\* packed tree has no byte to spare (fdt_open_into, fdt_pack).
MovesKeepTree ==
    last'.op \in {"open", "pack"} /\ edits' # edits =>
       /\ Tree(nodes') = Tree(nodes) /\ Reserved(blob') = Reserved(blob)
       /\ last'.op = "open" /\ last'.err = 0 => Writable(blob')
       /\ last'.op = "pack" /\ last'.err = 0 => blob'.total = Packed(blob)

\* of_modify_prop() does all or nothing: a call that fails leaves the caller's
\* tree alone, whichever allocation failed; one that succeeds sets the property
\* and changes nothing else, and writes behind the caller's buffer exactly as
\* far as the packed tree does not fit.  With memory, a known type and a copy of
\* the whole tree it fails only for a path that is not there.  Nothing is
\* promised of a success with a copy that was cut.
ModifiesWhole ==
    last'.op = "modify" /\ edits' # edits =>
       LET o == fdt_path_offset(blob, last'.name[1])
           t == Tree(nodes)
           p == PathAt(nodes, o)
           size == Packed(blob) + PropNeed(blob, t, p, last'.name[2], last'.val)
       IN  /\ last'.err # 0 => blob' = blob
           /\ last'.err = 0 /\ ~last'.torn =>
                 /\ Writable(blob) /\ o >= 0
                 /\ Tree(nodes') = WithProp(t, p, last'.name[2], last'.val) /\ Reserved(blob') = Reserved(blob)
                 /\ blob'.total = size /\ Len(blob'.mem) = IF size > Len(blob.mem) THEN size ELSE Len(blob.mem)
           /\ last'.served /\ Writable(blob) => (last'.err # 0 <=> o < 0)

\* create_paths() adds the names of the path that are missing and nothing else,
\* and fails only if the heap has no room for one of them; then its caller is
\* left without the tree.
CreatesPath ==
    last'.op = "create" /\ edits' # edits /\ Writable(blob) =>
       LET t == Tree(nodes)
           u == Tree(nodes')
           end == Resolve(nodes', 1, Components(last'.name))
       IN  /\ last'.served => last'.err = 0
           /\ last'.torn <=> last'.err # 0
           /\ last'.err = 0 => /\ end # 0
                               /\ \A q \in DOMAIN t : q \in DOMAIN u /\ u[q] = t[q]
                               /\ \A q \in DOMAIN u \ DOMAIN t : u[q] = <<>> /\ Below(q, nodes'[end].path)

\* The reserved ranges are a list that grows at its end and shrinks where it
\* was asked to; the tree behind it does not change (fdt_add_mem_rsv,
\* fdt_del_mem_rsv).
ReservesExactly ==
    last'.op \in {"addrsv", "delrsv"} /\ edits' # edits /\ Writable(blob) =>
       LET r == Reserved(blob)
           n == last'.name[1]
       IN  /\ Tree(nodes') = Tree(nodes)
           /\ Reserved(blob') =
                 IF last'.err # 0 THEN r
                 ELSE IF last'.op = "addrsv" THEN Append(r, last'.name)
                 ELSE SubSeq(r, 1, n) \o SubSeq(r, n + 2, Len(r))
           /\ last'.err = NOTFOUND <=> last'.op = "delrsv" /\ n >= Len(r)
           /\ last'.err = NOSPACE <=> last'.op = "addrsv" /\ fdt_data_size_(blob) + RsvSize > blob.total
=============================================================================
