--------------------------------- MODULE Fdt ---------------------------------
(***************************************************************************)
(* lib/fdt, read only part: a flattened device tree as it lies in memory   *)
(* (fdt.c, fdt_ro.c, fdt_check.c, fdt_addresses.c, of.c).                  *)
(*                                                                         *)
(* A blob is a record of its header fields and of `mem', its bytes from    *)
(* the start of the header on.  The scale is smaller than the real one: a  *)
(* 32-bit word has TagSize bytes, its value stands in the first of them,   *)
(* and a reserve entry has two words.  Characters are their ASCII codes.   *)
(* A blob is 8-byte aligned.  Errors are the negative numbers of libfdt.h. *)
(***************************************************************************)
EXTENDS Integers, Sequences, FiniteSets, TLC

CONSTANTS
    TagSize,        \* FDT_TAGSIZE
    HdrSize,        \* FDT_ALIGN(sizeof(struct fdt_header), 8)
    MaxNcells       \* FDT_MAX_NCELLS

ASSUME FdtScale == TagSize \in Nat \ {0} /\ HdrSize \in Nat /\ HdrSize % TagSize = 0 /\ MaxNcells \in Nat

FDT_BEGIN_NODE == 1
FDT_END_NODE == 2
FDT_PROP == 3
FDT_NOP == 4
FDT_END == 9

NOTFOUND == -1
EXISTS == -2
NOSPACE == -3
BADOFFSET == -4
BADPATH == -5
BADPHANDLE == -6
BADSTATE == -7
TRUNCATED == -8
BADMAGIC == -9
BADVERSION == -10
BADSTRUCTURE == -11
BADLAYOUT == -12
BADNCELLS == -14
BADVALUE == -15

NUL == 0
SLASH == 47
AT == 64

PropHdr == 3 * TagSize      \* sizeof(struct fdt_property): tag, len, nameoff
RsvSize == 2 * TagSize      \* sizeof(struct fdt_reserve_entry)

TagAlign(n) == ((n + TagSize - 1) \div TagSize) * TagSize

\* The first element of s that is c, or Len(s) + 1.
IndexOrEnd(s, c) ==
    CHOOSE i \in 1..(Len(s) + 1) : (i = Len(s) + 1 \/ s[i] = c) /\ \A j \in 1..(i - 1) : s[j] # c

-----------------------------------------------------------------------------
(* fdt.c: header, tags and nodes.                                          *)
\* The n bytes of the blob from offset o on.
Bytes(b, o, n) == SubSeq(b.mem, o + 1, o + n)

StructWord(b, o) == b.mem[b.off_struct + o + 1]

fdt_ro_probe_(b) ==
    IF b.magic = "fdt" THEN IF b.version < 2 \/ b.last_comp > 17 THEN BADVERSION ELSE b.total
    ELSE IF b.magic = "sw" THEN IF b.size_struct = 0 THEN BADSTATE ELSE b.total
    ELSE BADMAGIC

check_off_(b, o) == HdrSize <= o /\ o <= b.total
check_block_(b, o, n) == check_off_(b, o) /\ check_off_(b, o + n)

fdt_check_header(b) ==
    IF b.magic # "fdt" THEN BADMAGIC
    ELSE IF b.version < 2 \/ b.last_comp > 17 \/ b.version < b.last_comp THEN BADVERSION
    ELSE IF b.total < HdrSize \/ ~check_off_(b, b.off_rsv) THEN TRUNCATED
    ELSE IF b.version < 17 /\ ~check_off_(b, b.off_struct) THEN TRUNCATED
    ELSE IF b.version >= 17 /\ ~check_block_(b, b.off_struct, b.size_struct) THEN TRUNCATED
    ELSE IF ~check_block_(b, b.off_strings, b.size_strings) THEN TRUNCATED
    ELSE 0

\* fdt_offset_ptr() is not NULL.
fdt_offset_ptr(b, o, n) ==
    /\ o >= 0
    /\ o + b.off_struct + n <= b.total
    /\ b.version >= 17 => o + n <= b.size_struct

\* Where the tag at o ends, before alignment; negative if it does not end.
TagEnd(b, o) ==
    LET tag == StructWord(b, o)
        top == IF b.version >= 17 THEN b.size_struct ELSE b.total - b.off_struct
        name == o + TagSize
    IN  CASE tag = FDT_BEGIN_NODE ->
               LET k == CHOOSE i \in name..top : (i = top \/ StructWord(b, i) = NUL) /\ \A j \in name..(i - 1) : StructWord(b, j) # NUL
               IN  IF k < top THEN k + 1 ELSE BADSTRUCTURE
          [] tag = FDT_PROP ->
               IF fdt_offset_ptr(b, name, TagSize) THEN o + PropHdr + StructWord(b, name) ELSE BADSTRUCTURE
          [] tag \in {FDT_END, FDT_END_NODE, FDT_NOP} -> name
          [] OTHER -> BADSTRUCTURE

\* The tag at o and *nextoffset.
TagUpTo(b, o, end) ==
    IF end < 0 THEN <<FDT_END, BADSTRUCTURE>>
    ELSE IF ~fdt_offset_ptr(b, o, end - o) THEN <<FDT_END, BADSTRUCTURE>>
    ELSE <<StructWord(b, o), TagAlign(end)>>
fdt_next_tag(b, o) ==
    IF fdt_offset_ptr(b, o, TagSize) THEN TagUpTo(b, o, TagEnd(b, o)) ELSE <<FDT_END, TRUNCATED>>

\* The offset behind tag t, which must be of the kind asked for.
Behind(t, kind) == IF t[1] # kind THEN BADOFFSET ELSE t[2]
CheckOffset(b, o, kind) ==
    IF o < 0 \/ o % TagSize # 0 THEN BADOFFSET ELSE Behind(fdt_next_tag(b, o), kind)

fdt_check_node_offset_(b, o) == CheckOffset(b, o, FDT_BEGIN_NODE)
fdt_check_prop_offset_(b, o) == CheckOffset(b, o, FDT_PROP)

\* The loop of fdt_next_node(), with tag t at o; `counts': depth is given.
RECURSIVE NodeFrom(_, _, _, _, _)
NodeFrom(b, o, t, depth, counts) ==
    IF t[1] = FDT_BEGIN_NODE THEN <<o, depth + 1>>
    ELSE IF t[1] = FDT_END_NODE /\ counts /\ depth = 0 THEN <<t[2], -1>>
    ELSE IF t[1] = FDT_END THEN <<IF t[2] >= 0 \/ (t[2] = TRUNCATED /\ ~counts) THEN NOTFOUND ELSE t[2], depth>>
    ELSE NodeFrom(b, t[2], fdt_next_tag(b, t[2]), IF t[1] = FDT_END_NODE THEN depth - 1 ELSE depth, counts)

\* The offset fdt_next_node() returns, and *depth.
NodeAfter(b, first, depth, counts) ==
    IF first < 0 THEN <<first, depth>> ELSE NodeFrom(b, first, fdt_next_tag(b, first), depth, counts)
fdt_next_node(b, o, depth, counts) ==
    NodeAfter(b, IF o < 0 THEN 0 ELSE fdt_check_node_offset_(b, o), depth, counts)

FirstIn(n) == IF n[1] < 0 \/ n[2] # 1 THEN NOTFOUND ELSE n[1]
fdt_first_subnode(b, o) == FirstIn(fdt_next_node(b, o, 0, TRUE))

RECURSIVE NextSubnode(_, _)
NextSubnode(b, n) ==
    IF n[1] < 0 \/ n[2] < 1 THEN NOTFOUND
    ELSE IF n[2] > 1 THEN NextSubnode(b, fdt_next_node(b, n[1], n[2], TRUE))
    ELSE n[1]
fdt_next_subnode(b, o) == NextSubnode(b, fdt_next_node(b, o, 1, TRUE))

\* The first place of s and its NUL in the table, or -1.
fdt_find_string_(table, s) ==
    LET here(p) == SubSeq(table, p + 1, p + Len(s) + 1) = Append(s, NUL)
        last == Len(table) - Len(s) - 1
    IN  IF \E p \in 0..last : here(p) THEN CHOOSE p \in 0..last : here(p) /\ \A q \in 0..(p - 1) : ~here(q) ELSE -1

-----------------------------------------------------------------------------
(* fdt_ro.c: names and properties.                                         *)
\* The string at stroff of the strings block without its NUL, or <<error>>.
fdt_get_string(b, stroff) ==
    LET abs == stroff + b.off_strings
        sw == b.magic = "sw"
        limit == IF sw THEN -stroff ELSE b.size_strings - stroff
        inside == /\ abs >= 0 /\ abs < b.total
                  /\ IF sw THEN stroff < 0 /\ -stroff <= b.size_strings
                           ELSE stroff >= 0 /\ (b.version >= 17 => stroff < b.size_strings)
        room == IF (sw \/ b.version >= 17) /\ limit < b.total - abs THEN limit ELSE b.total - abs
        k == IndexOrEnd(Bytes(b, abs, room), NUL)
    IN  IF fdt_ro_probe_(b) < 0 THEN <<fdt_ro_probe_(b)>>
        ELSE IF ~inside THEN <<BADOFFSET>>
        ELSE IF k > room THEN <<TRUNCATED>>
        ELSE Bytes(b, abs, k - 1)

fdt_string_eq_(b, stroff, s) == fdt_get_string(b, stroff) = s

\* The characters of s up to its first NUL.
UpToNul(s) == SubSeq(s, 1, IndexOrEnd(s, NUL) - 1)

\* The name of a node that fdt_check_node_offset_() accepts; or <<error>>.
NameUpTo(b, o, next) ==
    IF next < 0 THEN <<next>> ELSE UpToNul(Bytes(b, b.off_struct + o + TagSize, next - o - TagSize))
fdt_get_name(b, o) ==
    IF fdt_ro_probe_(b) < 0 THEN <<fdt_ro_probe_(b)>> ELSE NameUpTo(b, o, fdt_check_node_offset_(b, o))

Failed(s) == s # <<>> /\ s[1] < 0

NameEq(p, s) ==
    /\ ~Failed(p) /\ Len(p) >= Len(s)
    /\ SubSeq(p, 1, Len(s)) = s
    /\ \/ Len(p) = Len(s)
       \/ p[Len(s) + 1] = AT /\ \A i \in 1..Len(s) : s[i] # AT
fdt_nodename_eq_(b, o, s) == NameEq(fdt_get_name(b, o), s)

\* The loop of nextprop_(), with tag t at o.
RECURSIVE PropAfter(_, _, _)
PropAfter(b, o, t) ==
    CASE t[1] = FDT_END -> IF t[2] >= 0 THEN BADSTRUCTURE ELSE t[2]
      [] t[1] = FDT_PROP -> o
      [] t[1] = FDT_NOP -> PropAfter(b, t[2], fdt_next_tag(b, t[2]))
      [] OTHER -> NOTFOUND
nextprop_(b, o) == IF o < 0 THEN o ELSE PropAfter(b, o, fdt_next_tag(b, o))

fdt_first_property_offset(b, o) == nextprop_(b, fdt_check_node_offset_(b, o))
fdt_next_property_offset(b, o) == nextprop_(b, fdt_check_prop_offset_(b, o))

PropLen(b, o) == StructWord(b, o + TagSize)
PropNameOff(b, o) == StructWord(b, o + 2 * TagSize)
PropData(b, o) == Bytes(b, b.off_struct + o + PropHdr, PropLen(b, o))

RECURSIVE PropFrom(_, _, _)
PropFrom(b, o, name) ==
    IF o < 0 THEN o
    ELSE IF fdt_string_eq_(b, PropNameOff(b, o), name) THEN o
    ELSE PropFrom(b, fdt_next_property_offset(b, o), name)

\* The offset of the property struct, or the error in *lenp.
fdt_get_property(b, o, name) == PropFrom(b, fdt_first_property_offset(b, o), name)

\* The value, or <<error>>.
ValueAt(b, p) == IF p < 0 THEN <<p>> ELSE PropData(b, p)
fdt_getprop(b, o, name) == ValueAt(b, fdt_get_property(b, o, name))

\* Names and values of the properties, by offset from p on.
RECURSIVE PropsFrom(_, _)
PropsFrom(b, p) ==
    IF p < 0 THEN <<>>
    ELSE <<<<fdt_get_string(b, PropNameOff(b, p)), PropData(b, p)>>>> \o PropsFrom(b, fdt_next_property_offset(b, p))
fdt_getprop_by_offset(b, o) == PropsFrom(b, fdt_first_property_offset(b, o))

-----------------------------------------------------------------------------
(* Finding nodes.                                                          *)
\* The loop over the nodes; n: offset and depth.
RECURSIVE SubnodeFrom(_, _, _)
SubnodeFrom(b, n, name) ==
    IF n[2] < 0 THEN NOTFOUND
    ELSE IF n[1] < 0 THEN n[1]
    ELSE IF n[2] = 1 /\ fdt_nodename_eq_(b, n[1], name) THEN n[1]
    ELSE SubnodeFrom(b, fdt_next_node(b, n[1], n[2], TRUE), name)
fdt_subnode_offset(b, o, name) ==
    IF fdt_ro_probe_(b) < 0 THEN fdt_ro_probe_(b) ELSE SubnodeFrom(b, <<o, 0>>, name)

\* The names between the slashes of a path.
RECURSIVE Components(_)
Components(s) ==
    IF s = <<>> THEN <<>>
    ELSE IF s[1] = SLASH THEN Components(Tail(s))
    ELSE LET k == IndexOrEnd(s, SLASH)
         IN  <<SubSeq(s, 1, k - 1)>> \o Components(SubSeq(s, k, Len(s)))

RECURSIVE Descend(_, _, _)
Descend(b, o, names) ==
    IF names = <<>> \/ o < 0 THEN o ELSE Descend(b, fdt_subnode_offset(b, o, Head(names)), Tail(names))

AliasesName == <<97, 108>>      \* "aliases"

\* The path an alias stands for, with its NUL, or <<error>>.
fdt_get_alias(b, name) == fdt_getprop(b, Descend(b, 0, <<AliasesName>>), name)

\* Path `value' of an alias stands for the first of the names.
FromAlias(b, value, names) ==
    IF Failed(value) THEN BADPATH ELSE Descend(b, 0, Components(UpToNul(value)) \o Tail(names))

\* An alias stands for an absolute path.
fdt_path_offset(b, path) ==
    IF fdt_ro_probe_(b) < 0 THEN fdt_ro_probe_(b)
    ELSE IF path = <<>> THEN BADPATH
    ELSE IF path[1] = SLASH THEN Descend(b, 0, Components(path))
    ELSE FromAlias(b, fdt_get_alias(b, Components(path)[1]), Components(path))

-----------------------------------------------------------------------------
(* Up the tree, and searches by value.                                     *)
\* The loop of fdt_supernode_atdepth_offset(): <<result, *nodedepth>>.
Missed(o) == IF o = NOTFOUND \/ o >= 0 THEN BADOFFSET ELSE IF o = BADOFFSET THEN BADSTRUCTURE ELSE o
RECURSIVE SuperFrom(_, _, _, _, _)
SuperFrom(b, target, want, n, super) ==
    IF n[1] < 0 \/ n[1] > target THEN <<Missed(n[1]), 0>>
    ELSE IF n[1] = target THEN <<IF want > n[2] THEN NOTFOUND ELSE IF n[2] = want THEN n[1] ELSE super, n[2]>>
    ELSE SuperFrom(b, target, want, fdt_next_node(b, n[1], n[2], TRUE), IF n[2] = want THEN n[1] ELSE super)
fdt_supernode_atdepth_offset(b, o, want) ==
    IF fdt_ro_probe_(b) < 0 THEN <<fdt_ro_probe_(b), 0>>
    ELSE IF want < 0 THEN <<NOTFOUND, 0>>
    ELSE SuperFrom(b, o, want, <<0, 0>>, -13)

DepthIn(s) == IF s[1] < 0 THEN s[1] ELSE s[2]
fdt_node_depth(b, o) == DepthIn(fdt_supernode_atdepth_offset(b, o, 0))
SuperAt(b, o, d) == IF d < 0 THEN d ELSE fdt_supernode_atdepth_offset(b, o, d - 1)[1]
fdt_parent_offset(b, o) == SuperAt(b, o, fdt_node_depth(b, o))

\* buf without its last name.
DropName(buf) ==
    LET cut == {i \in 1..(Len(buf) - 1) : buf[i] = SLASH}
    IN  IF cut = {} THEN <<>> ELSE SubSeq(buf, 1, CHOOSE i \in cut : \A j \in cut : j <= i)

RECURSIVE Popped(_, _)
Popped(buf, n) == IF n = 0 THEN buf ELSE Popped(DropName(buf), n - 1)

\* fdt_get_path(): the path, or <<error>>.  Names that do not fit are left out.
\* n: offset and depth of the node; got: how many names stand in buf, and buf.
WithName(got, name, depth, buflen) ==
    IF got[1] >= depth /\ Len(got[2]) + Len(name) + 1 <= buflen
    THEN <<got[1] + 1, got[2] \o Append(name, SLASH)>> ELSE got
UpTo(got, depth) == IF got[1] > depth THEN <<depth, Popped(got[2], got[1] - depth)>> ELSE got
PathIn(got, depth) ==
    IF got[1] < depth + 1 THEN <<NOSPACE>>
    ELSE IF Len(got[2]) > 1 THEN SubSeq(got[2], 1, Len(got[2]) - 1) ELSE got[2]
RECURSIVE PathFrom(_, _, _, _, _)
PathFrom(b, target, buflen, n, got) ==
    IF n[1] < 0 \/ n[1] > target THEN <<Missed(n[1])>>
    ELSE IF n[1] = target THEN PathIn(WithName(UpTo(got, n[2]), fdt_get_name(b, n[1]), n[2], buflen), n[2])
    ELSE PathFrom(b, target, buflen, fdt_next_node(b, n[1], n[2], TRUE),
                           WithName(UpTo(got, n[2]), fdt_get_name(b, n[1]), n[2], buflen))
fdt_get_path(b, o, buflen) ==
    IF fdt_ro_probe_(b) < 0 THEN <<fdt_ro_probe_(b)>>
    ELSE IF buflen < 2 THEN <<NOSPACE>>
    ELSE PathFrom(b, o, buflen, <<0, 0>>, <<0, <<>>>>)

PhandleName == <<112, 104>>     \* "phandle"

\* 0: no phandle (linux,phandle is a second name for it).
WordOr0(v) == IF Len(v) # TagSize \/ Failed(v) THEN 0 ELSE v[1]
fdt_get_phandle(b, o) == WordOr0(fdt_getprop(b, o, PhandleName))

NodeAnyDepth(b, o) == fdt_next_node(b, o, 0, FALSE)[1]

Larger(x, y) == IF x > y THEN x ELSE y
RECURSIVE MaxPhandleFrom(_, _, _)
MaxPhandleFrom(b, o, max) ==
    IF o = NOTFOUND THEN max
    ELSE IF o < 0 THEN o
    ELSE MaxPhandleFrom(b, NodeAnyDepth(b, o), Larger(fdt_get_phandle(b, o), max))
fdt_find_max_phandle(b) == MaxPhandleFrom(b, NodeAnyDepth(b, -1), 0)

RECURSIVE ByPhandle(_, _, _)
ByPhandle(b, o, phandle) ==
    IF o < 0 THEN o
    ELSE IF fdt_get_phandle(b, o) = phandle THEN o
    ELSE ByPhandle(b, NodeAnyDepth(b, o), phandle)
fdt_node_offset_by_phandle(b, phandle) ==
    IF phandle = 0 THEN BADPHANDLE
    ELSE IF fdt_ro_probe_(b) < 0 THEN fdt_ro_probe_(b)
    ELSE ByPhandle(b, NodeAnyDepth(b, -1), phandle)

RECURSIVE ByPropValue(_, _, _, _)
ByPropValue(b, o, name, val) ==
    IF o < 0 THEN o
    ELSE IF fdt_getprop(b, o, name) = val THEN o ELSE ByPropValue(b, NodeAnyDepth(b, o), name, val)
fdt_node_offset_by_prop_value(b, o, name, val) ==
    IF fdt_ro_probe_(b) < 0 THEN fdt_ro_probe_(b) ELSE ByPropValue(b, NodeAnyDepth(b, o), name, val)

-----------------------------------------------------------------------------
(* Lists of strings.                                                       *)
\* The list has n bytes; text holds them and the byte behind, which memcmp()
\* may read when the list does not end with NUL.
RECURSIVE fdt_stringlist_contains(_, _, _)
fdt_stringlist_contains(text, n, s) ==
    /\ n >= Len(s)
    /\ \/ SubSeq(text, 1, Len(s) + 1) = Append(s, NUL)
       \/ LET k == IndexOrEnd(text, NUL)
          IN  k <= n /\ fdt_stringlist_contains(SubSeq(text, k + 1, Len(text)), n - k, s)

\* The strings of a list; the last is <<BADVALUE>> if its NUL is missing.
RECURSIVE Strings(_)
Strings(list) ==
    IF list = <<>> THEN <<>>
    ELSE LET k == IndexOrEnd(list, NUL)
         IN  IF k > Len(list) THEN <<<<BADVALUE>>>>
             ELSE <<SubSeq(list, 1, k - 1)>> \o Strings(SubSeq(list, k + 1, Len(list)))

Ends(strings) == strings # <<>> /\ Failed(strings[Len(strings)])

fdt_stringlist_count(list) == IF Ends(Strings(list)) THEN BADVALUE ELSE Len(Strings(list))

fdt_stringlist_search(list, s) ==
    LET all == Strings(list)
        k == IndexOrEnd(all, s)
    IN  IF k <= Len(all) THEN k - 1 ELSE IF Ends(all) THEN BADVALUE ELSE NOTFOUND

fdt_stringlist_get(list, i) == IF i < Len(Strings(list)) THEN Strings(list)[i + 1] ELSE <<NOTFOUND>>

CompatibleName == <<99>>        \* "compatible"

CompatibleAt(b, p, s) ==
    IF p < 0 THEN p
    ELSE IF fdt_stringlist_contains(Bytes(b, b.off_struct + p + PropHdr, PropLen(b, p) + 1), PropLen(b, p), s) THEN 0 ELSE 1
fdt_node_check_compatible(b, o, s) == CompatibleAt(b, fdt_get_property(b, o, CompatibleName), s)

\* The loop with node o, for which the check said `found'.
RECURSIVE ByCompatible(_, _, _, _)
ByCompatible(b, o, found, s) ==
    IF o < 0 THEN o
    ELSE IF found < 0 /\ found # NOTFOUND THEN found
    ELSE IF found = 0 THEN o
    ELSE ByCompatible(b, NodeAnyDepth(b, o), fdt_node_check_compatible(b, NodeAnyDepth(b, o), s), s)
fdt_node_offset_by_compatible(b, o, s) ==
    IF fdt_ro_probe_(b) < 0 THEN fdt_ro_probe_(b)
    ELSE ByCompatible(b, NodeAnyDepth(b, o), fdt_node_check_compatible(b, NodeAnyDepth(b, o), s), s)

-----------------------------------------------------------------------------
(* Reserved memory, cells, and the check of a whole blob.                  *)
\* fdt_mem_rsv() is not NULL.
fdt_mem_rsv(b, n) == b.off_rsv + n * RsvSize <= b.total - RsvSize

RsvAt(b, n) == <<b.mem[b.off_rsv + n * RsvSize + 1], b.mem[b.off_rsv + n * RsvSize + TagSize + 1]>>

RECURSIVE RsvCount(_, _)
RsvCount(b, i) ==
    IF ~fdt_mem_rsv(b, i) THEN TRUNCATED ELSE IF RsvAt(b, i)[2] = 0 THEN i ELSE RsvCount(b, i + 1)
fdt_num_mem_rsv(b) == RsvCount(b, 0)

fdt_get_mem_rsv(b, n) ==
    IF fdt_ro_probe_(b) < 0 THEN <<fdt_ro_probe_(b)>> ELSE IF fdt_mem_rsv(b, n) THEN RsvAt(b, n) ELSE <<BADOFFSET>>

CellsIn(v) ==
    IF Failed(v) THEN v[1]
    ELSE IF Len(v) # TagSize THEN BADNCELLS
    ELSE IF v[1] > MaxNcells THEN BADNCELLS
    ELSE v[1]
\* `given' cells if there is no such property, and no fewer than least.
CellsOr(n, given, least) == IF n >= 0 /\ n < least THEN BADNCELLS ELSE IF n = NOTFOUND THEN given ELSE n
AddressCellsName == <<35, 97>>      \* "#address-cells"
SizeCellsName == <<35, 115>>        \* "#size-cells"
fdt_cells(b, o, name) ==
    CellsIn(fdt_getprop(b, o, name))
fdt_address_cells(b, o) == CellsOr(fdt_cells(b, o, AddressCellsName), 2, 1)
fdt_size_cells(b, o) == CellsOr(fdt_cells(b, o, SizeCellsName), 1, 0)

\* of_property_read_u32(), of_property_read_string(): length and value, or <<-1>>.
ReadString(v) == IF Failed(v) THEN <<-1>> ELSE <<Len(v), v>>
ReadWord(v) == IF Failed(v) \/ Len(v) # TagSize THEN <<-1>> ELSE <<TagSize, v[1]>>
of_property_read_u32(b, path, name) == ReadWord(fdt_getprop(b, fdt_path_offset(b, path), name))
of_property_read_string(b, path, name) == ReadString(fdt_getprop(b, fdt_path_offset(b, path), name))

\* The loop of fdt_check_full(), with tag t at o.
RECURSIVE CheckFrom(_, _, _, _, _)
CheckFrom(b, o, t, depth, expect_end) ==
    IF t[2] < 0 THEN t[2]
    ELSE IF expect_end /\ t[1] # FDT_END THEN BADSTRUCTURE
    ELSE IF t[1] = FDT_END THEN IF depth # 0 THEN BADSTRUCTURE ELSE 0
    ELSE IF t[1] = FDT_BEGIN_NODE /\ depth = 0 /\ fdt_get_name(b, o) # <<>> THEN BADSTRUCTURE
    ELSE IF t[1] = FDT_END_NODE /\ depth = 0 THEN BADSTRUCTURE
    ELSE IF t[1] = FDT_PROP /\ Failed(fdt_get_string(b, PropNameOff(b, o))) THEN fdt_get_string(b, PropNameOff(b, o))[1]
    ELSE CheckFrom(b, t[2], fdt_next_tag(b, t[2]),
                            CASE t[1] = FDT_BEGIN_NODE -> depth + 1 [] t[1] = FDT_END_NODE -> depth - 1 [] OTHER -> depth,
                            t[1] = FDT_END_NODE /\ depth = 1)

fdt_check_full(b, bufsize) ==
    IF bufsize < HdrSize THEN TRUNCATED
    ELSE IF fdt_check_header(b) # 0 THEN fdt_check_header(b)
    ELSE IF bufsize < b.total THEN TRUNCATED
    ELSE IF fdt_num_mem_rsv(b) < 0 THEN fdt_num_mem_rsv(b)
    ELSE CheckFrom(b, 0, fdt_next_tag(b, 0), 0, FALSE)
=============================================================================
