----------------------------- MODULE MCKconfig -----------------------------
(***************************************************************************)
(* Small instances of the configuration tools.  The parts share no state;  *)
(* kpart says which of them a behaviour is about.                          *)
(***************************************************************************)
EXTENDS KSymbol, KBuild, KPre, Lxdialog

VARIABLE kpart
kconfigVars == <<exprVars, menuVars, symVars, buildVars, preVars, lxVars, inputVars, pageVars, kpart>>

----------------------------------------------------------------------------
(* Expressions over a bool a and a tristate t.                             *)
MCLeaves == { <<"sym", "a">>, <<"sym", "t">>, <<"sym", "m">>, <<"sym", "y">>,
              <<"eq", "t", "y">>, <<"eq", "t", "m">>, <<"ne", "t", "n">>,
              <<"ne", "t", "m">>, <<"eq", "a", "n">> }
MCType == [a |-> "bool", t |-> "tristate", y |-> "unknown", m |-> "unknown", n |-> "unknown"]

(* Kconfig files.                                                          *)
MCSyms == {"y", "m", "n", "M", "A", "B", "C", "D", "ch", "X", "Y", "I", "1", "5", "9"}
Sym(s) == <<"sym", s>>
Config(s, t, prompt, dep) ==
  [k |-> "config", sym |-> s, type |-> t, prompt |-> prompt, dep |-> dep,
   defaults |-> <<>>, selects |-> <<>>, implies |-> <<>>, ranges |-> <<>>, modules |-> FALSE]
Choice(dep, defaults) ==
  [k |-> "choice", sym |-> "ch", type |-> "unknown", prompt |-> <<Null>>, dep |-> dep,
   opt |-> FALSE, defaults |-> defaults]
End(of) == [k |-> "end", of |-> of]
MCStatements ==
  { Config("A", "tristate", <<Null>>, Null),
    [Config("A", "tristate", <<>>, Sym("C")) EXCEPT !.selects = <<<<Sym("B"), Sym("m")>>>>],
    Config("B", "bool", <<Sym("m")>>, <<"or", Sym("A"), Sym("C")>>),
    [Config("C", "bool", <<Null>>, <<"and", Sym("A"), <<"ne", "A", "n">>>>)
       EXCEPT !.implies = <<<<Sym("B"), Null>>>>, !.modules = TRUE],
    [Config("B", "unknown", <<Null>>, <<"not", Sym("A")>>)
       EXCEPT !.defaults = <<<<Sym("C"), Sym("A")>>>>],
    [k |-> "if", dep |-> <<"ne", "A", "n">>],
    [k |-> "menu", dep |-> Sym("A"), vis |-> Sym("C")],
    Choice(Sym("C"), <<<<Sym("A"), Null>>>>),
    [k |-> "comment", dep |-> <<"not", Sym("C")>>],
    [k |-> "source", file |-> "sub"],
    End("if"), End("menu"), End("choice") }

(* Two configurations whose values are computed, saved and read.           *)
Modules == [Config("M", "bool", <<Null>>, Null) EXCEPT !.modules = TRUE]
Selecting ==
  <<Modules, Config("A", "tristate", <<Null>>, Null),
    [Config("B", "tristate", <<Null>>, Sym("A"))
       EXCEPT !.selects = <<<<Sym("C"), Null>>>>, !.defaults = <<<<Sym("A"), Null>>>>],
    [Config("C", "tristate", <<>>, Null) EXCEPT !.implies = <<<<Sym("D"), Null>>>>],
    Config("D", "tristate", <<Null>>, Sym("A")),
    [Config("I", "int", <<Sym("A")>>, Null)
       EXCEPT !.defaults = <<<<Sym("5"), Null>>>>, !.ranges = <<<<<<"range", "1", "9">>, Null>>>>]>>
Choosing ==
  <<Modules, Config("A", "tristate", <<Null>>, Null),
    Choice(Null, <<<<Sym("Y"), Sym("A")>>>>),
    Config("X", "bool", <<Null>>, Null), Config("Y", "bool", <<Null>>, Null),
    End("choice"),
    Config("B", "bool", <<Null>>, Sym("X"))>>
\* The range of I applies only while C is set.
SometimesLimited ==
  [i \in DOMAIN Selecting |->
     IF Selecting[i].sym = "I"
     THEN [Selecting[i] EXCEPT !.ranges = <<<<<<"range", "1", "9">>, Sym("C")>>>>] ELSE Selecting[i]]
MCKconfigs == <<Finalized(Reread(_menu_init, Selecting)), Finalized(Reread(_menu_init, Choosing))>>
LimitedKconfigs == <<Finalized(Reread(_menu_init, SometimesLimited))>>
MCNameCode ==
  [s \in MCSyms |-> CASE s = "y" -> Str_y [] s = "m" -> Str_m [] s = "n" -> Str_n
                      [] s = "1" -> 1 [] s = "5" -> 5 [] s = "9" -> 9 [] OTHER -> Str_name]
MCFiles ==
  { <<>>,
    <<<<"M", Str_y>>, <<"A", Str_m>>, <<"B", Str_m>>, <<"X", Str_y>>>>,
    <<<<"M", Str_y>>, <<"A", Str_y>>, <<"I", 12>>, <<"D", Str_n>>, <<"Y", Str_m>>>>,
    <<<<"A", Str_m>>, <<"A", Str_y>>, <<"zz", Str_y>>, <<"Y", Str_y>>, <<"X", Str_y>>, <<"I", Str_y>>>> }

(* One object of a source file and a header.                               *)
MCFilesOf == [o \in {"o"} |-> {"a.c", "c.h"}]
MCTexts == { {}, {<<"T", TRUE>>}, {<<"T", FALSE>>, <<"N", FALSE>>} }
MCDefaults == { [T |-> 0, N |-> 5], [T |-> 1, N |-> None] }

(* Variables X, Y, G and a function F; H and Z are in the environment.     *)
Ch(c) == <<c>>
Ref(trees) == <<"ref", trees>>
Name(c) == <<Ch(c)>>
MCAssignments ==
  { <<<<"X">>, "=", <<Ch("a"), Ref(<<Name("H")>>)>>>>,
    <<<<"X">>, ":=", <<Ref(<<Name("Y")>>), Ch("b")>>>>,
    <<<<"X">>, "+=", <<Ref(<<Name("Y")>>)>>>>,
    <<<<"Y">>, "=", <<Ref(<<Name("X")>>), Ch("c")>>>>,
    <<<<"Y">>, ":=", <<Ref(<<Name("s"), Name("H")>>), Ch("y")>>>>,
    <<<<"F">>, "=", <<Ref(<<Name("1")>>), Ref(<<Name("2")>>), Ref(<<Name("X")>>)>>>>,
    <<<<"F">>, "=", <<Ref(<<Name("F"), Name("1")>>)>>>>,
    <<<<"G">>, ":=", <<Ch("X")>>>> }
MCUses ==
  { <<Ref(<<Name("X")>>), Ch("z")>>,
    <<Ref(<<Name("F"), <<Ref(<<Name("Y")>>)>>, Name("d")>>)>>,
    <<Ref(<< <<Ref(<<Name("G")>>)>> >>)>>,
    <<Ref(<<Name("e"), <<Ref(<<Name("Y")>>)>>, Name("a")>>)>>,
    <<Ref(<<Name("F"), <<>>, <<>> >>), Ch("q")>>,
    <<Ref(<<Name("H")>>), Ch("q"), Ref(<<Name("l")>>)>>,
    <<Ref(<<Name("s"), <<Ref(<<Name("H")>>)>> >>)>>,
    <<Ref(<<Name("i")>>)>> }
MCEnvironment == [n \in {<<"H">>, <<"Z">>} |-> IF n = <<"H">> THEN <<"h">> ELSE <<"k">>]
MCShellOutput ==
  [n \in {<<"H">>, <<"h">>} |-> IF n = <<"H">> THEN <<"\n", "t", "\n", "u", "\n">> ELSE <<"v", "v", "\n">>]

(* The dialogs of menuconfig.                                              *)
MCHotKey == [i \in 0..6 |-> IF i \in {1, 5} THEN "s" ELSE IF i % 2 = 0 THEN "b" ELSE "n"]
MCFirstTexts == { <<>>, <<"a", "b", "a">> }
MCPages ==
  { <<"a", "\n">>, <<"a", "\n", "b", "\n", "\n", "a">>,
    <<"a", "\n", "\n", "b", "a", "b", "a", "b", "\n", "\n", "a", "\n">>,
    <<"\n", "\n", "a", "\n", "b", "\n", "a", "\n", "b", "\n", "a", "\n">> }

----------------------------------------------------------------------------
KconfigInit ==
  /\ kpart \in {"expressions", "menus", "symbols", "build", "variables", "lists", "input", "texts"}
  /\ ExprInit /\ MenuInit /\ SymInit /\ BuildInit /\ PreInit /\ LxInit /\ LxInputInit /\ LxPageInit
  /\ kpart # "symbols" => kcfg = Kconfigs[1] /\ file = <<>>
  /\ kpart # "build" => kdef.val.T = 0 /\ \A f \in BFiles : text[f].words = {}

KconfigNext ==
  /\ kpart' = kpart
  /\ \/ /\ kpart = "expressions" /\ ExprNext
        /\ UNCHANGED <<menuVars, symVars, buildVars, preVars, lxVars, inputVars, pageVars>>
     \/ /\ kpart = "menus" /\ MenuNext
        /\ UNCHANGED <<exprVars, symVars, buildVars, preVars, lxVars, inputVars, pageVars>>
     \/ /\ kpart = "symbols" /\ SymNext
        /\ UNCHANGED <<exprVars, menuVars, buildVars, preVars, lxVars, inputVars, pageVars>>
     \/ /\ kpart = "build" /\ BuildNext
        /\ UNCHANGED <<exprVars, menuVars, symVars, preVars, lxVars, inputVars, pageVars>>
     \/ /\ kpart = "variables" /\ PreNext
        /\ UNCHANGED <<exprVars, menuVars, symVars, buildVars, lxVars, inputVars, pageVars>>
     \/ /\ kpart = "lists" /\ LxNext
        /\ UNCHANGED <<exprVars, menuVars, symVars, buildVars, preVars, inputVars, pageVars>>
     \/ /\ kpart = "input" /\ LxInputNext
        /\ UNCHANGED <<exprVars, menuVars, symVars, buildVars, preVars, lxVars, pageVars>>
     \/ /\ kpart = "texts" /\ LxPageNext
        /\ UNCHANGED <<exprVars, menuVars, symVars, buildVars, preVars, lxVars, inputVars>>

\* The menu tree is the one the Kconfig files write down, variables expanded.
MenusAsWritten ==
    /\ MenuTypeOK /\ TreeKeepsOrder /\ BlocksNest /\ ConditionsAsWritten
    /\ SelectsRecorded /\ SubmenuReachable /\ RecursionRefused
    /\ PreTypeOK /\ ExpandsAsWritten /\ EnvRecorded

\* The dialogs show and return what the user sees and types.
DialogsExact ==
    /\ LxTypeOK /\ RowsExact /\ PicksShown
    /\ LxInputTypeOK /\ InputAsTyped /\ FieldExact
    /\ LxPageTypeOK /\ PageExact /\ PlaceSaved

KconfigSpec == KconfigInit /\ [][KconfigNext]_kconfigVars
=============================================================================
