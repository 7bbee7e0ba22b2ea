----------------------------- MODULE FdtOverlay -----------------------------
(***************************************************************************)
(* lib/fdt/fdt_overlay.c: an overlay is merged into a base tree, as the    *)
(* boards do with the tree they load (merge_dtbs).  Trees are taken as     *)
(* what they say: the base maps paths to properties, an overlay lists its  *)
(* nodes in their order, and property values are sequences of cells.  The  *)
(* texts of __fixups__ and __symbols__ are taken apart into records; names *)
(* have no unit address.  The blobs themselves are the subject of FdtRw.   *)
(***************************************************************************)
EXTENDS Integers, Sequences, FiniteSets, TLC

CONSTANTS
    OvBases,        \* base trees
    Overlays,       \* overlays that may be applied to them
    MaxCell         \* the largest cell, all ones

ASSUME OvScale == MaxCell \in Nat \ {0}

VARIABLES
    ovBase,         \* [magic, tree, sym]: sym maps labels to paths
    ovFirst,        \* ghost: the base as it was
    ov,             \* the overlay at hand: [id, magic, nodes, tpath, local, fixups, sym]
    ovStage,        \* the function fdt_overlay_apply() is about to call
    ovDelta,        \* delta
    ovAt,           \* position in the overlay's nodes
    ovTarget,       \* path of the node the fragment goes to
    ovDone          \* ghost: the overlays applied so far, as they were given

ovVars == <<ovBase, ovFirst, ov, ovStage, ovDelta, ovAt, ovTarget, ovDone>>

Ok == "ok"
NotFound == "not found"
NoSpace == "no space"
BadPhandle == "bad phandle"
NoPhandles == "no phandles"
BadOverlay == "bad overlay"

-----------------------------------------------------------------------------
(* Nodes, properties and cells.                                            *)
Phandles(t) == {t[p]["phandle"][1] : p \in {p \in DOMAIN t : "phandle" \in DOMAIN t[p]}}

MaxPhandle(t) == CHOOSE m \in Phandles(t) \cup {0} : \A h \in Phandles(t) : h <= m

\* Positions of the node with this path; there is at most one.
Positions(nodes, path) == {i \in DOMAIN nodes : nodes[i].path = path}
HasNode(nodes, path) == Positions(nodes, path) # {}
NodeAt(nodes, path) == nodes[CHOOSE i \in Positions(nodes, path) : TRUE]

\* The first of the errors that is one.
FirstOf(errs) ==
    LET bad == {i \in DOMAIN errs : errs[i] # Ok}
    IN  IF bad = {} THEN Ok ELSE errs[CHOOSE i \in bad : \A j \in bad : i <= j]

\* fdt_setprop_inplace_namelen_partial() of one cell.
SetCell(nodes, ref, val) ==
    [i \in DOMAIN nodes |-> IF nodes[i].path = ref.path THEN [nodes[i] EXCEPT !.props[ref.name][ref.off] = val] ELSE nodes[i]]

-----------------------------------------------------------------------------
(* The steps.                                                              *)
overlay_phandle_add_offset(props, delta) ==
    IF "phandle" \notin DOMAIN props THEN Ok
    ELSE IF Len(props["phandle"]) # 1 THEN BadPhandle
    ELSE IF props["phandle"][1] + delta >= MaxCell THEN NoPhandles
    ELSE Ok
overlay_adjust_node_phandles(nodes, delta) ==
    [i \in DOMAIN nodes |->
        IF "phandle" \in DOMAIN nodes[i].props THEN [nodes[i] EXCEPT !.props["phandle"][1] = @ + delta] ELSE nodes[i]]

\* The cell that an entry of __local_fixups__ names.
LocalError(nodes, ref) ==
    IF ~HasNode(nodes, ref.path) THEN BadOverlay
    ELSE IF ref.name \notin DOMAIN NodeAt(nodes, ref.path).props THEN BadOverlay
    ELSE IF ref.off > Len(NodeAt(nodes, ref.path).props[ref.name]) THEN BadOverlay
    ELSE Ok
IsRef(refs, node, name, k) ==
    \E j \in DOMAIN refs : refs[j].path = node.path /\ refs[j].name = name /\ refs[j].off = k
overlay_update_local_node_references(nodes, refs, delta) ==
    [i \in DOMAIN nodes |->
        [nodes[i] EXCEPT !.props = [n \in DOMAIN @ |-> [k \in DOMAIN @[n] |->
            IF IsRef(refs, nodes[i], n, k) THEN (@[n][k] + delta) % (MaxCell + 1) ELSE @[n][k]]]]]

\* The phandle of the base node with this label.
LabelPhandle(b, label) ==
    IF "phandle" \in DOMAIN b.tree[b.sym[label]] THEN b.tree[b.sym[label]]["phandle"][1] ELSE 0
FixupError(b, nodes, f) ==
    IF ~f.wellformed THEN BadOverlay
    ELSE IF f.label \notin DOMAIN b.sym THEN NotFound
    ELSE IF b.sym[f.label] \notin DOMAIN b.tree THEN NotFound
    ELSE IF LabelPhandle(b, f.label) = 0 THEN NotFound
    ELSE IF ~HasNode(nodes, f.path) THEN BadOverlay
    ELSE IF f.name \notin DOMAIN NodeAt(nodes, f.path).props THEN NotFound
    ELSE IF f.off > Len(NodeAt(nodes, f.path).props[f.name]) THEN NoSpace
    ELSE Ok
overlay_fixup_one_phandle(b, nodes, f) == SetCell(nodes, f, LabelPhandle(b, f.label))
RECURSIVE overlay_fixup_phandles(_, _, _)
overlay_fixup_phandles(b, nodes, fixups) ==
    IF fixups = <<>> THEN nodes
    ELSE overlay_fixup_phandles(b, overlay_fixup_one_phandle(b, nodes, Head(fixups)), Tail(fixups))

overlay_get_target_phandle(props) ==
    IF "target" \notin DOMAIN props THEN 0 ELSE IF Len(props["target"]) # 1 THEN MaxCell ELSE props["target"][1]

\* fdt_overlay_target_offset(): [err, path].
Target(tree, o, fragment) ==
    LET h == overlay_get_target_phandle(NodeAt(o.nodes, <<fragment>>).props)
        owners == {p \in DOMAIN tree : "phandle" \in DOMAIN tree[p] /\ tree[p]["phandle"] = <<h>>}
        no(e) == [err |-> e, path |-> <<>>]
    IN  IF h = MaxCell THEN no(BadPhandle)
        ELSE IF h # 0 THEN IF owners = {} THEN no(NotFound) ELSE [err |-> Ok, path |-> CHOOSE p \in owners : TRUE]
        ELSE IF fragment \notin DOMAIN o.tpath THEN no(BadOverlay)
        ELSE IF o.tpath[fragment] \notin DOMAIN tree THEN no(NotFound)
        ELSE [err |-> Ok, path |-> o.tpath[fragment]]

Inside(path) == Len(path) >= 2 /\ path[2] = "__overlay__"
Rest(path) == SubSeq(path, 3, Len(path))

\* Properties of set S of an overlay's node, set in the node `place' of the
\* tree, which is made if it is not there.
WithProps(tree, place, props, S) ==
    LET old == IF place \in DOMAIN tree THEN tree[place] ELSE <<>>
        new == [n \in DOMAIN old \cup S |-> IF n \in S THEN props[n] ELSE old[n]]
    IN  [p \in DOMAIN tree \cup {place} |-> IF p = place THEN new ELSE tree[p]]

\* One symbol of the overlay: where it stands in the base, <<>> if nowhere.
SymbolError(tree, o, path) ==
    IF ~Inside(path) THEN Ok
    ELSE IF ~HasNode(o.nodes, SubSeq(path, 1, 2)) THEN BadOverlay
    ELSE Target(tree, o, path[1]).err
SymbolPath(tree, o, path) == Target(tree, o, path[1]).path \o Rest(path)

overlay_symbol_update(b, o) ==
    LET kept == {s \in DOMAIN o.sym : Inside(o.sym[s])}
    IN  [s \in DOMAIN b.sym \cup kept |-> IF s \in kept THEN SymbolPath(b.tree, o, o.sym[s]) ELSE b.sym[s]]

-----------------------------------------------------------------------------
(* fdt_overlay_apply().                                                    *)
NoOverlay == [id |-> "none", magic |-> FALSE, nodes |-> <<>>, tpath |-> <<>>, local |-> <<>>, fixups |-> <<>>, sym |-> <<>>]

OvInit ==
    /\ ovBase \in OvBases /\ ovFirst = ovBase /\ ov = NoOverlay /\ ovStage = "idle"
    /\ ovDelta = 0 /\ ovAt = 0 /\ ovTarget = <<>> /\ ovDone = <<>>

\* err: the magic of both is erased.
Erased ==
    /\ ovBase' = [ovBase EXCEPT !.magic = FALSE] /\ ov' = [ov EXCEPT !.magic = FALSE] /\ ovStage' = "idle"
    /\ UNCHANGED <<ovFirst, ovDelta, ovAt, ovTarget, ovDone>>

\* FDT_RO_PROBE of both, fdt_find_max_phandle().
Apply(o) ==
    /\ ovStage = "idle" /\ ovBase.magic /\ o.magic /\ \A i \in DOMAIN ovDone : ovDone[i] # o
    /\ ov' = o /\ ovDelta' = MaxPhandle(ovBase.tree) /\ ovStage' = "adjust"
    /\ UNCHANGED <<ovBase, ovFirst, ovAt, ovTarget, ovDone>>

overlay_adjust_local_phandles ==
    /\ ovStage = "adjust"
    /\ LET err == FirstOf([i \in DOMAIN ov.nodes |-> overlay_phandle_add_offset(ov.nodes[i].props, ovDelta)])
       IN  IF err # Ok THEN Erased
           ELSE /\ ov' = [ov EXCEPT !.nodes = overlay_adjust_node_phandles(@, ovDelta)]
                /\ ovStage' = "local"
                /\ UNCHANGED <<ovBase, ovFirst, ovDelta, ovAt, ovTarget, ovDone>>

overlay_update_local_references ==
    /\ ovStage = "local"
    /\ IF FirstOf([i \in DOMAIN ov.local |-> LocalError(ov.nodes, ov.local[i])]) # Ok THEN Erased
       ELSE /\ ov' = [ov EXCEPT !.nodes = overlay_update_local_node_references(@, ov.local, ovDelta)]
            /\ ovStage' = "fixups"
            /\ UNCHANGED <<ovBase, ovFirst, ovDelta, ovAt, ovTarget, ovDone>>

FixupPhandles ==
    /\ ovStage = "fixups"
    /\ IF FirstOf([i \in DOMAIN ov.fixups |-> FixupError(ovBase, ov.nodes, ov.fixups[i])]) # Ok THEN Erased
       ELSE /\ ov' = [ov EXCEPT !.nodes = overlay_fixup_phandles(ovBase, @, ov.fixups)]
            /\ ovStage' = "merge" /\ ovAt' = 1
            /\ UNCHANGED <<ovBase, ovFirst, ovDelta, ovTarget, ovDone>>

\* The loop of overlay_merge(): a fragment that has an __overlay__.
overlay_merge ==
    /\ ovStage = "merge" /\ ovAt <= Len(ov.nodes) /\ ~Inside(ov.nodes[ovAt].path)
    /\ LET path == ov.nodes[ovAt].path
           t == Target(ovBase.tree, ov, path[1])
       IN  IF Len(path) = 1 /\ HasNode(ov.nodes, <<path[1], "__overlay__">>)
           THEN IF t.err # Ok THEN Erased
                ELSE ovTarget' = t.path /\ ovAt' = ovAt + 1 /\ UNCHANGED <<ovBase, ovFirst, ov, ovStage, ovDelta, ovDone>>
           ELSE ovAt' = ovAt + 1 /\ UNCHANGED <<ovBase, ovFirst, ov, ovStage, ovDelta, ovTarget, ovDone>>

\* One node of the recursion; without room some of its properties are set.
OvNode == ov.nodes[ovAt]
OvPlace == ovTarget \o Rest(OvNode.path)
overlay_apply_node ==
    /\ ovStage = "merge" /\ ovAt <= Len(ov.nodes) /\ Inside(OvNode.path)
    /\ \/ /\ ovBase' = [ovBase EXCEPT !.tree = WithProps(@, OvPlace, OvNode.props, DOMAIN OvNode.props)]
          /\ ovAt' = ovAt + 1 /\ UNCHANGED <<ovFirst, ov, ovStage, ovDelta, ovTarget, ovDone>>
       \/ \E S \in SUBSET DOMAIN OvNode.props :
             /\ ovBase' = [ovBase EXCEPT !.tree = WithProps(@, OvPlace, OvNode.props, S), !.magic = FALSE]
             /\ ov' = [ov EXCEPT !.magic = FALSE] /\ ovStage' = "idle"
             /\ UNCHANGED <<ovFirst, ovDelta, ovAt, ovTarget, ovDone>>

\* overlay_symbol_update() and the end of fdt_overlay_apply().
Symbols(given) ==
    /\ ovStage = "merge" /\ ovAt > Len(ov.nodes)
    /\ \/ DOMAIN ov.sym # {} /\ Erased                     \* a wrong symbol, or no room for one
       \/ /\ \A s \in DOMAIN ov.sym : SymbolError(ovBase.tree, ov, ov.sym[s]) = Ok
          /\ ovBase' = [ovBase EXCEPT !.sym = overlay_symbol_update(ovBase, ov)]
          /\ ov' = [ov EXCEPT !.magic = FALSE] /\ ovStage' = "idle" /\ ovDone' = Append(ovDone, given)
          /\ UNCHANGED <<ovFirst, ovDelta, ovAt, ovTarget>>

OvNext ==
    \/ \E o \in Overlays : Apply(o)
    \/ overlay_adjust_local_phandles \/ overlay_update_local_references \/ FixupPhandles
    \/ overlay_merge \/ overlay_apply_node
    \/ \E o \in Overlays : o.id = ov.id /\ Symbols(o)

OvSpec == OvInit /\ [][OvNext]_ovVars

-----------------------------------------------------------------------------
(* What a merge promises.                                                  *)
\* No overlay is under way and none has failed.  (The overlays looked at give
\* no phandle to a node of the base that has one.)
Whole == ovStage = "idle" /\ ovBase.magic

\* However many overlays are merged, no two nodes have the same phandle, and
\* none has the ones that mean "none" (overlay_adjust_local_phandles).
PhandlesUnique ==
    Whole =>
        /\ \A p, q \in DOMAIN ovBase.tree :
              p # q /\ "phandle" \in DOMAIN ovBase.tree[p] /\ "phandle" \in DOMAIN ovBase.tree[q]
              => ovBase.tree[p]["phandle"] # ovBase.tree[q]["phandle"]
        /\ Phandles(ovBase.tree) \subseteq 1..(MaxCell - 1)

\* Where fragment f of overlay o was meant to go, and its node of this path:
\* by label or by path, whatever phandles the nodes had.
Meant(o, f) ==
    LET by == {i \in DOMAIN o.fixups : o.fixups[i].path = <<f>> /\ o.fixups[i].name = "target"}
    IN  IF by # {} THEN ovBase.sym[o.fixups[CHOOSE i \in by : TRUE].label] ELSE o.tpath[f]
MergedPath(o, path) == Meant(o, path[1]) \o Rest(path)

\* After a merge every reference leads where the overlay's author meant it to:
\* one inside the overlay to the node of the overlay, one by label to the node
\* that has the label, also if an earlier overlay brought it
\* (overlay_update_local_references, overlay_fixup_phandles).
ReferencesResolve ==
    Whole =>
        \A k \in DOMAIN ovDone :
            LET o == ovDone[k]
                cell(r) == ovBase.tree[MergedPath(o, r.path)][r.name][r.off]
                before(r) == NodeAt(o.nodes, r.path).props[r.name][r.off]
            IN  /\ \A i \in DOMAIN o.local :
                      \A j \in DOMAIN o.nodes :
                          Inside(o.nodes[j].path) /\ "phandle" \in DOMAIN o.nodes[j].props /\ o.nodes[j].props["phandle"] = <<before(o.local[i])>>
                          => ovBase.tree[MergedPath(o, o.nodes[j].path)]["phandle"] = <<cell(o.local[i])>>
                /\ \A i \in DOMAIN o.fixups :
                      Inside(o.fixups[i].path) =>
                          ovBase.tree[ovBase.sym[o.fixups[i].label]]["phandle"] = <<cell(o.fixups[i])>>

\* What was in the base and what the overlays set is there, nothing else is,
\* and every label names a node of the tree: the one it was given to
\* (overlay_apply_node, overlay_symbol_update).
MergedExactly ==
    Whole =>
        LET brought == UNION {{<<k, j>> : j \in {j \in DOMAIN ovDone[k].nodes : Inside(ovDone[k].nodes[j].path)}} : k \in DOMAIN ovDone}
            place(b) == MergedPath(ovDone[b[1]], ovDone[b[1]].nodes[b[2]].path)
            props(b) == DOMAIN ovDone[b[1]].nodes[b[2]].props
        IN  /\ DOMAIN ovBase.tree = DOMAIN ovFirst.tree \cup {place(b) : b \in brought}
            /\ \A p \in DOMAIN ovBase.tree :
                  LET here == {b \in brought : place(b) = p}
                      old == IF p \in DOMAIN ovFirst.tree THEN ovFirst.tree[p] ELSE <<>>
                  IN  /\ DOMAIN ovBase.tree[p] = DOMAIN old \cup UNION {props(b) : b \in here}
                      /\ \A n \in DOMAIN old : n \notin UNION {props(b) : b \in here} => ovBase.tree[p][n] = old[n]
            /\ \A k \in DOMAIN ovDone : \A s \in DOMAIN ovDone[k].sym :
                  Inside(ovDone[k].sym[s]) => s \in DOMAIN ovBase.sym /\ ovBase.sym[s] = MergedPath(ovDone[k], ovDone[k].sym[s])
            /\ \A s \in DOMAIN ovBase.sym : ovBase.sym[s] \in DOMAIN ovBase.tree
=============================================================================
