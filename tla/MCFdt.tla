-------------------------------- MODULE MCFdt --------------------------------
(***************************************************************************)
(* Small device trees: changed by FdtRw, written by FdtSw, or merged by    *)
(* FdtOverlay.                                                             *)
(***************************************************************************)
EXTENDS FdtSw, FdtOverlay

\* Tokens of a structure block.
B(name) == Word(FDT_BEGIN_NODE) \o NameField(name)
E == Word(FDT_END_NODE)
P(nameoff, val) ==
    Word(FDT_PROP) \o Word(Len(val)) \o Word(nameoff) \o val \o [i \in 1..(TagAlign(Len(val)) - Len(val)) |-> 0]

\* / { p; n { ap; phandle; }; m@1 { c = "y", "x"; phandle; }; aliases { s = "/n"; }; }
Struct ==
    B(<<>>) \o P(1, <<7>>)
        \o B(<<110>>) \o P(0, <<7, 8>>) \o P(3, <<1, 0>>) \o E
        \o B(<<109, 64, 49>>) \o P(6, <<121, 0, 120, 0>>) \o P(3, <<2, 0>>) \o E
        \o B(AliasesName) \o P(8, <<47, 110, 0>>) \o E
    \o E \o Word(FDT_END)
Strings0 == <<97, 112, 0, 112, 104, 0, 99, 0, 115, 0>>      \* "ap", "phandle", "compatible", "s"
Rsv == Word(3) \o Word(4) \o Word(0) \o Word(0)
Zeros(n) == [i \in 1..n |-> 0]

Made(rsv, spare) ==
    LET o == HdrSize + Len(rsv)
    IN  [magic |-> "fdt", version |-> 17, last_comp |-> 16, total |-> o + Len(Struct) + Len(Strings0) + spare,
         off_rsv |-> HdrSize, off_struct |-> o, size_struct |-> Len(Struct),
         off_strings |-> o + Len(Struct), size_strings |-> Len(Strings0),
         mem |-> Zeros(HdrSize) \o rsv \o Struct \o Strings0 \o Zeros(spare)]

\* Strings before the structure.
Swapped ==
    LET o == HdrSize + Len(Rsv)
    IN  [Made(Rsv, 0) EXCEPT !.off_strings = o, !.off_struct = o + Len(Strings0),
                             !.mem = Zeros(HdrSize) \o Rsv \o Strings0 \o Struct]

\* An empty tree: no strings and no room.
Empty ==
    [magic |-> "fdt", version |-> 17, last_comp |-> 16, total |-> HdrSize + RsvSize + 4 * TagSize,
     off_rsv |-> HdrSize, off_struct |-> HdrSize + RsvSize, size_struct |-> 4 * TagSize,
     off_strings |-> HdrSize + RsvSize + 4 * TagSize, size_strings |-> 0,
     mem |-> Zeros(HdrSize + RsvSize) \o B(<<>>) \o E \o Word(FDT_END)]

SomeBlobs == {Empty, Made(Rsv, 12), Swapped, [Made(Zeros(RsvSize), 4) EXCEPT !.version = 16]}

SomePaths == {<<47>>, <<47, 110>>, <<47, 109>>, <<115>>, <<47, 110, 47, 109, 64, 50>>}
SomeProps == {<<112>>, <<99>>, <<113>>}            \* "p", "compatible", "q"
SomeNodes == {<<109>>, <<109, 64, 50>>}             \* "m", "m@2"
SomeValues == {<<>>, <<120>>}

SwPropNames == {<<112>>, <<97, 112>>}              \* "p", "ap"
SwNodeNames == {<<109>>}
SwPropValues == {<<120>>}

\* Bases: with labels, without, and with few phandles left.
Base(u, c, sym) ==
    [magic |-> TRUE, sym |-> sym,
     tree |-> (<<>> :> [model |-> <<1>>]) @@ (<<"soc">> :> <<>>)
              @@ (<<"soc", "u">> :> [phandle |-> <<u>>, status |-> <<0>>]) @@ (<<"soc", "c">> :> [phandle |-> <<c>>])]
Labels == [u |-> <<"soc", "u">>, c |-> <<"soc", "c">>]
SomeBases == {Base(2, 5, Labels), Base(2, 5, <<>>), Base(12, 3, Labels)}

Ref(path, name, off) == [path |-> path, name |-> name, off |-> off]
Fixup(label, path, name, off) == [label |-> label, path |-> path, name |-> name, off |-> off, wellformed |-> TRUE]
N(path, props) == [path |-> path, props |-> props]
Overlay(id, ns, tpath, local, fixups, sym) ==
    [id |-> id, magic |-> TRUE, nodes |-> ns, tpath |-> tpath, local |-> local, fixups |-> fixups, sym |-> sym]
O == "__overlay__"

\* Two fragments, with references to each other and to the base.
OverlayA ==
    Overlay("a", <<N(<<"f">>, [target |-> <<15>>]), N(<<"f", O>>, [status |-> <<1>>]),
                   N(<<"f", O, "new">>, [phandle |-> <<1>>, clk |-> <<15, 4>>]),
                   N(<<"h">>, <<>>), N(<<"h", O>>, <<>>), N(<<"h", O, "dev">>, [phandle |-> <<2>>, refs |-> <<7, 1, 2>>])>>,
            [h |-> <<>>], <<Ref(<<"h", O, "dev">>, "refs", 2), Ref(<<"h", O, "dev">>, "refs", 3)>>,
            <<Fixup("u", <<"f">>, "target", 1), Fixup("c", <<"f", O, "new">>, "clk", 1)>>,
            [new |-> <<"f", O, "new">>, frag |-> <<"f">>])
\* Goes into a node that the first one brings.
OverlayB ==
    Overlay("b", <<N(<<"g">>, [target |-> <<15>>]), N(<<"g", O>>, [x |-> <<3>>]), N(<<"g", O, "sub">>, [phandle |-> <<1>>])>>,
            <<>>, <<>>, <<Fixup("new", <<"g">>, "target", 1)>>, [sub |-> <<"g", O, "sub">>])
\* Goes to a path; a second fragment is not to be merged.
OverlayC ==
    Overlay("c", <<N(<<"i">>, <<>>), N(<<"i", O>>, [model |-> <<2>>]), N(<<"j">>, <<>>), N(<<"j", "note">>, [phandle |-> <<3>>])>>,
            [i |-> <<>>], <<>>, <<>>, <<>>)
\* Wrong ones: no such cell, a fixup that is none, no target, a phandle of two cells, a symbol of no overlay.
Wrong(id, tpath, local, fixups, phandle, sym) ==
    Overlay(id, <<N(<<"k">>, <<>>), N(<<"k", O>>, [phandle |-> phandle])>>, tpath, local, fixups, sym)
WrongOverlays ==
    {Wrong("d", [k |-> <<"soc">>], <<Ref(<<"k", O>>, "phandle", 2)>>, <<>>, <<1>>, <<>>),
     Wrong("e", [k |-> <<"soc">>], <<>>, <<[Fixup("u", <<"k", O>>, "phandle", 1) EXCEPT !.wellformed = FALSE]>>, <<1>>, <<>>),
     Wrong("f", <<>>, <<>>, <<>>, <<1>>, <<>>),
     Wrong("g", [k |-> <<"soc">>], <<>>, <<>>, <<1, 2>>, <<>>),
     Wrong("h", [k |-> <<"soc">>], <<>>, <<>>, <<1>>, [s |-> <<"z", O>>])}
SomeOverlays == {OverlayA, OverlayB, OverlayC} \cup WrongOverlays

VARIABLE part       \* which of the three is looked at

fdtAll == <<part, fdtVars, swVars, ovVars>>
MCInit ==
    /\ FdtInit /\ SwInit /\ OvInit /\ part \in {"rw", "sw", "ov"}
    /\ part # "rw" => blob = Empty
    /\ part # "ov" => ovBase = Base(2, 5, Labels)
RwPart == part = "rw" /\ FdtNext /\ UNCHANGED <<part, swVars, ovVars>>
SwPart == part = "sw" /\ SwNext /\ UNCHANGED <<part, fdtVars, ovVars>>
OvPart == part = "ov" /\ OvNext /\ UNCHANGED <<part, fdtVars, swVars>>
MCSpec == MCInit /\ [][RwPart \/ SwPart \/ OvPart]_fdtAll

\* A device tree blob is sound, and what is looked up, written or merged is
\* exactly what the tree says.
TreesExact ==
    /\ FdtTypeOK /\ HeldNode /\ BlobSound /\ LookupsExact /\ SearchesExact
    /\ GrowApart /\ ReadWhileWritten /\ FinishedAsBuilt
    /\ PhandlesUnique /\ ReferencesResolve /\ MergedExactly

\* A call that edits, moves or writes a tree changes what it says it does.
EditsExact ==
    [][/\ EditsTree /\ RemovesExactly /\ MovesKeepTree
       /\ ModifiesWhole /\ CreatesPath /\ ReservesExactly /\ OrderAndRoom]_<<fdtVars, swVars>>
=============================================================================
