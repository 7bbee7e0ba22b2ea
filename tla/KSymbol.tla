------------------------------ MODULE KSymbol ------------------------------
(***************************************************************************)
(* The values of the configuration symbols: how they are computed and      *)
(* cached (scripts/kconfig/symbol.c), read from and written to .config     *)
(* files (confdata.c), and set by the front ends (conf.c).  The parsed     *)
(* Kconfig files are those of KMenu, finalized.                            *)
(*                                                                         *)
(* The state of all symbols is one record, st:                             *)
(*   user, valid, write, need   the symbols with SYMBOL_DEF_USER,          *)
(*             SYMBOL_VALID, SYMBOL_WRITE, SYMBOL_NEED_SET_CHOICE_VALUES   *)
(*   utri, uval, uch   def[S_DEF_USER]: tristate, number, chosen value     *)
(*   tri, val, ch      curr: tristate, string value, chosen value          *)
(*   vis, dirt, revt, impt   visible, dir_dep.tri, rev_dep.tri, implied.tri *)
(*   pvis      visible.tri of the prompts, per property                    *)
(*   mods      modules_val;  changed  sym_change_count is not zero         *)
(* The operators thread st the way the functions change the symbols.       *)
(* Strings other than numbers, and hexadecimal notation, are left out: the *)
(* valued symbols are ints.                                                *)
(***************************************************************************)
EXTENDS KMenu

CONSTANTS
  Kconfigs,      \* the parsed configurations that are considered
  NameCode,      \* the string value of a symbol that is not defined
  EditedFiles,   \* .config files somebody wrote: sequences of <<symbol, value>>
  Numbers,       \* the numbers somebody may enter
  MaxEdits       \* changes made by hand in one session

VARIABLES kcfg,  \* the parsed configuration
          st,    \* the symbols
          file,  \* the .config file
          saved, \* conf_write was the last operation
          edits  \* changes so far

symVars == <<kcfg, st, file, saved, edits>>

ASSUME SymBounds == MaxEdits \in Nat

K == kcfg
Constants == {"y", "m", "n"}

\* for_all_symbols: the hash table's order, choices first as they have no
\* name.  The constants are not in the table.
InTable == MenuSyms \ Constants
Listed(S) == FoldSet(LAMBDA s, seq : Append(seq, s), <<>>, S)
TableOrder == Listed(InTable \cap K.choices) \o Listed(InTable \ K.choices)

Logic == {"bool", "tristate"}
IsValue(s) == s \in K.values

sym_get_type(x, s) ==
  IF K.type[s] = "tristate" /\ ((IsValue(s) /\ x.vis[s] = 2) \/ x.mods = 0)
  THEN "bool" ELSE K.type[s]

sym_get_string_value(x, s) ==
  IF K.type[s] \in Logic
  THEN CASE x.tri[s] = 0 -> Str_n
         [] x.tri[s] = 1 -> IF x.tri[K.modules] = 0 THEN Str_n ELSE Str_m
         [] x.tri[s] = 2 -> Str_y
  ELSE x.val[s]

\* Before anything is read: nothing valid but the constants.
SymZero ==
  [user |-> {}, valid |-> Constants, write |-> {}, need |-> {},
   utri |-> [s \in MenuSyms |-> 0], uval |-> [s \in MenuSyms |-> Str_empty],
   uch |-> [s \in MenuSyms |-> ""],
   tri |-> [s \in MenuSyms |-> CASE s = "y" -> 2 [] s = "m" -> 1 [] OTHER -> 0],
   val |-> [s \in MenuSyms |-> IF s \in Constants THEN NameCode[s] ELSE Str_empty],
   ch |-> [s \in MenuSyms |-> ""],
   vis |-> [s \in MenuSyms |-> 0], dirt |-> [s \in MenuSyms |-> 0],
   revt |-> [s \in MenuSyms |-> 0], impt |-> [s \in MenuSyms |-> 0],
   pvis |-> <<>>, mods |-> 0, changed |-> TRUE]

PropsOf(s, type) ==
  SelectSeq([i \in 1..Len(K.props) |-> i],
            LAMBDA i : K.props[i].sym = s /\ K.props[i].type = type)
PromptsOf(s) ==
  SelectSeq([i \in 1..Len(K.props) |-> i], LAMBDA i : K.props[i].sym = s /\ K.props[i].text)
prop_get_symbol(i) == IF K.props[i].expr[1] = "sym" THEN K.props[i].expr[2] ELSE ""
ChoiceSym(s) == ChoiceOf(K, s)

----------------------------------------------------------------------------
(* Computing a value.                                                      *)

RECURSIVE sym_calc_value(_, _), sym_calc_visibility(_, _)

\* expr_calc_value reads all the symbols of an expression, then combines them.
CalcSymbols(x, e) == FoldLeft(sym_calc_value, x, ExprSymbols(e))
ValueIn(x, e) ==
  expr_calc_value(e, K.type, x.tri, [s \in MenuSyms |-> sym_get_string_value(x, s)])
\* The state after an expression was evaluated, paired with its value.
With(x, e) == <<x, ValueIn(x, e)>>
CalcExpr(x, e) == With(CalcSymbols(x, e), e)

\* sym_get_default_prop, sym_get_range_prop: the first property of the type
\* whose condition is not n, as <<state, property or 0, condition>>.
IfVisible(r, i) == IF r[2] = 0 THEN <<r[1], 0, 0>> ELSE <<r[1], i, r[2]>>
FirstVisible(x, is) ==
  FoldLeft(LAMBDA acc, i : IF acc[2] # 0 THEN acc ELSE IfVisible(CalcExpr(acc[1], K.props[i].vis), i),
           <<x, 0, 0>>, is)

IfBool(x, s, t) == IF t = 1 /\ sym_get_type(x, s) = "bool" THEN 2 ELSE t

\* A tristate value of a choice is not offered as m while the choice is y.
SeePrompt(acc, s, i, r) ==
  LET t == IF IsValue(s) /\ K.type[s] = "tristate" /\ r[2] = 1
              /\ r[1].tri[ChoiceSym(s)] = 2 THEN 0 ELSE r[2]
  IN <<[r[1] EXCEPT !.pvis = (i :> t) @@ @], Or(acc[2], t)>>
CalcPrompts(x, s) ==
  FoldLeft(LAMBDA acc, i : SeePrompt(acc, s, i, CalcExpr(acc[1], K.props[i].vis)),
           <<x, 0>>, PromptsOf(s))

SetVisible(r, s) ==
  [r[1] EXCEPT !.vis[s] = IF r[2] = 1 /\ (K.type[s] # "tristate" \/ r[1].mods = 0)
                          THEN 2 ELSE r[2]]
SetDir(r, s) == [r[1] EXCEPT !.dirt[s] = IfBool(r[1], s, r[2])]
SetRev(r, s) == [r[1] EXCEPT !.revt[s] = IfBool(r[1], s, r[2])]
SetImp(r, s) == [r[1] EXCEPT !.impt[s] = IfBool(r[1], s, r[2])]
CalcDir(x, s) == SetDir(CalcExpr(x, K.dir[s]), s)
CalcRev(x, s) == SetRev(IF K.rev[s] = Null THEN <<x, 0>> ELSE CalcExpr(x, K.rev[s]), s)
CalcImp(x, s) ==
  SetImp(IF K.imp[s] = Null \/ x.dirt[s] = 0 THEN <<x, 0>> ELSE CalcExpr(x, K.imp[s]), s)
CalcDeps(x, s) == IF IsValue(s) THEN x ELSE CalcImp(CalcRev(CalcDir(x, s), s), s)
sym_calc_visibility(x, s) == CalcDeps(SetVisible(CalcPrompts(x, s), s), s)

\* The first default of the choice that is visible, else its first visible
\* value, as <<state, value or "">>.
FirstOf(ss, x) ==
  LET seen == SelectSeq(ss, LAMBDA s : x.vis[s] # 0) IN IF seen = <<>> THEN "" ELSE Head(seen)
IfOffered(q, d) == <<q[1], IF q[2] # 0 /\ d # "" /\ q[1].vis[d] # 0 THEN d ELSE "">>
OrFirst(r, c) == IF r[2] # "" THEN r ELSE <<r[1], FirstOf(K.members[c], r[1])>>
sym_choice_default(x, c) ==
  OrFirst(FoldLeft(LAMBDA acc, i : IF acc[2] # "" THEN acc
                                   ELSE IfOffered(CalcExpr(acc[1], K.props[i].vis), prop_get_symbol(i)),
                   <<x, "">>, PropsOf(c, "default")), c)

\* Which value a choice that is y has.  A choice counts as answered only while
\* all its visible values do.
Chosen(c, r) == [r[1] EXCEPT !.ch[c] = r[2], !.tri[c] = IF r[2] = "" THEN 0 ELSE @]
PickChoice(x, c) ==
  IF x.uch[c] # "" /\ x.vis[x.uch[c]] # 0 THEN [x EXCEPT !.ch[c] = x.uch[c]]
  ELSE Chosen(c, sym_choice_default(x, c))
StillAnswered(x, c) ==
  IF \A s \in ToSet(K.members[c]) : x.vis[s] # 0 => s \in x.user
  THEN x ELSE [x EXCEPT !.user = @ \ {c}]
sym_calc_choice(x, c) ==
  PickChoice(StillAnswered(FoldLeft(sym_calc_visibility, x, K.members[c]), c), c)

\* The value of a bool or tristate symbol, before selects: the user's answer
\* within what is visible, or the default and what is implied.
UserTri(x, s) == <<x, And(x.utri[s], x.vis[s])>>
Marked(x, s, t) == IF t # 0 THEN [x EXCEPT !.write = @ \cup {s}] ELSE x
ImpliedTri(x, s, t) == <<Marked(x, s, x.impt[s]), Or(t, x.impt[s])>>
DefaultOf(s, r, q) == LET t == And(q[2], r[3]) IN ImpliedTri(Marked(q[1], s, t), s, t)
DefaultTri(s, r) ==
  IF r[2] = 0 THEN ImpliedTri(r[1], s, 0)
  ELSE DefaultOf(s, r, CalcExpr(r[1], K.props[r[2]].expr))
UnsetTri(x, s) ==
  IF s \in K.choices THEN <<x, 0>> ELSE DefaultTri(s, FirstVisible(x, PropsOf(s, "default")))
PlainTri(x, s) ==
  IF x.vis[s] # 0 /\ s \in x.user THEN UserTri(x, s) ELSE UnsetTri(Marked(x, s, x.revt[s]), s)
Promote(s, r) ==
  <<r[1], IF r[2] = 1 /\ (sym_get_type(r[1], s) = "bool" \/ r[1].impt[s] = 2) THEN 2 ELSE r[2]>>
Selected(s, r) == <<r[1], Or(r[2], r[1].revt[s])>>
LogicValue(x, s) ==
  IF IsValue(s) /\ x.vis[s] = 2
  THEN <<x, IF x.ch[ChoiceSym(s)] = s THEN 2 ELSE 0>>
  ELSE Selected(s, PlainTri(x, s))
SetLogic(s, r) == [r[1] EXCEPT !.tri[s] = r[2]]

\* The value of an int.
CopyValue(x, s, d) == [x EXCEPT !.val[s] = x.val[d]]
FromDefault(x, s, d) == CopyValue(sym_calc_value([x EXCEPT !.write = @ \cup {s}], d), s, d)
IntDefault(s, r) ==
  IF r[2] = 0 \/ prop_get_symbol(r[2]) = "" THEN r[1]
  ELSE FromDefault(r[1], s, prop_get_symbol(r[2]))
IntValue(x, s) ==
  IF x.vis[s] # 0 /\ s \in x.user THEN [x EXCEPT !.val[s] = x.uval[s]]
  ELSE IntDefault(s, FirstVisible(x, PropsOf(s, "default")))

\* strtoll of a value: 0 when it is not a number.
strtoll(v) == IF v \in 0..99 THEN v ELSE 0
\* An int outside the range that applies takes the bound it passed.
Clamp(x, s, lo, hi) ==
  LET v == strtoll(x.val[s])
  IN IF v < lo THEN [x EXCEPT !.val[s] = lo] ELSE IF v > hi THEN [x EXCEPT !.val[s] = hi] ELSE x
CalcBounds(x, p) == sym_calc_value(sym_calc_value(x, p.expr[2]), p.expr[3])
ClampTo(x, s, p) == Clamp(x, s, strtoll(x.val[p.expr[2]]), strtoll(x.val[p.expr[3]]))
InRange(x, s, p) == ClampTo(CalcBounds(x, p), s, p)
RangeOf(s, r) == IF r[2] = 0 THEN r[1] ELSE InRange(r[1], s, K.props[r[2]])
sym_validate_range(x, s) ==
  IF K.type[s] # "int" THEN x ELSE RangeOf(s, FirstVisible(x, PropsOf(s, "range")))

\* set_all_choice_values: the values nobody answered are no.
set_all_choice_values(x, c) ==
  [x EXCEPT !.utri = [s \in MenuSyms |->
                        IF s \in ToSet(K.members[c]) /\ s \notin x.user THEN 0 ELSE @[s]],
            !.user = @ \cup {c}, !.valid = @ \ {c}, !.need = @ \ {c}]

\* The end of sym_calc_value: modules, the values of a choice, what is written.
AfterChoice(x, s) ==
  IF s \notin K.choices \/ s \notin x.write THEN x
  ELSE [x EXCEPT !.write = @ \cup { m \in ToSet(K.members[s]) : x.vis[m] # 0 }]
NeverWritten(x, s) == IF s \in K.nowrite THEN [x EXCEPT !.write = @ \ {s}] ELSE x
IfNeeded(x, s) == IF s \in x.need THEN set_all_choice_values(x, s) ELSE x
Finish(x, s) ==
  IfNeeded(NeverWritten(AfterChoice(IF s = K.modules THEN [x EXCEPT !.mods = x.tri[s]] ELSE x, s), s), s)
ChoiceValue(x, s) ==
  IF s \in K.choices /\ x.tri[s] = 2 THEN sym_calc_choice(x, s) ELSE x

CalcTyped(x, s) ==
  IF sym_get_type(x, s) \in Logic THEN SetLogic(s, Promote(s, LogicValue(x, s))) ELSE IntValue(x, s)
CalcVisible(x, s) ==
  CalcTyped([x EXCEPT !.write = IF x.vis[s] # 0 THEN @ \cup {s} ELSE @,
                      !.tri[s] = 0, !.val[s] = Str_empty, !.ch[s] = ""], s)
CalcBody(x, s) ==
  IF K.type[s] = "unknown" THEN [x EXCEPT !.val[s] = NameCode[s], !.tri[s] = 0]
  ELSE Finish(sym_validate_range(ChoiceValue(
         CalcVisible(sym_calc_visibility([x EXCEPT !.write = @ \ {s}], s), s), s), s), s)
NeedChoice(x, s) ==
  IF IsValue(s) /\ s \in x.need THEN sym_calc_value([x EXCEPT !.need = @ \ {s}], ChoiceSym(s)) ELSE x
StartCalc(x, s) == CalcBody([x EXCEPT !.valid = @ \cup {s}], s)
sym_calc_value(x, s) == IF s \in x.valid THEN x ELSE StartCalc(NeedChoice(x, s), s)

sym_clear_all_valid(x) ==
  sym_calc_value([x EXCEPT !.valid = Constants, !.changed = TRUE], K.modules)
CalcAll(x) == FoldLeft(sym_calc_value, x, TableOrder)

----------------------------------------------------------------------------
(* Setting a value.                                                        *)

sym_tristate_within_range(x, s, t) ==
  LET type == sym_get_type(x, s)
  IN /\ x.vis[s] # 0 /\ type \in Logic
     /\ ~(type = "bool" /\ t = 1)
     /\ x.vis[s] > x.revt[s]
     /\ ~(x.impt[s] = 2 /\ t = 1)
     /\ IF IsValue(s) /\ x.vis[s] = 2 THEN t = 2 ELSE t \in x.revt[s]..x.vis[s]

\* Whether the value is taken, and the symbols then.
MayTake(x, s, t) == x.tri[s] = t \/ sym_tristate_within_range(x, s, t)
Answered(x, s, t) ==
  IF IsValue(s) /\ t = 2
  THEN [x EXCEPT !.user = @ \cup {s, ChoiceSym(s)}
                            \cup { m \in ToSet(K.members[ChoiceSym(s)]) : x.vis[m] # 0 },
                 !.utri[s] = t, !.uch[ChoiceSym(s)] = s]
  ELSE [x EXCEPT !.user = @ \cup {s}, !.utri[s] = t]
SetKeepingValid(x, s, t) == IF ~MayTake(x, s, t) THEN x ELSE Answered(x, s, t)
sym_set_tristate_value(x, s, t) ==
  IF ~MayTake(x, s, t) THEN x
  ELSE IF x.tri[s] = t THEN Answered(x, s, t) ELSE sym_clear_all_valid(Answered(x, s, t))

\* n, m, y in turn until a value is taken, at the latest the present one.
sym_toggle_tristate_value(x, s) ==
  LET turn(i) == (x.tri[s] + i) % 3
      n == CHOOSE i \in 1..3 : MayTake(x, s, turn(i)) /\ \A j \in 1..(i - 1) : ~MayTake(x, s, turn(j))
  IN sym_set_tristate_value(x, s, turn(n))

\* An int is taken when it is within its range; one that equals the number
\* kept from before changes nothing else.
InsideRange(x, p, v) == v >= strtoll(x.val[p.expr[2]]) /\ v <= strtoll(x.val[p.expr[3]])
sym_string_within_range(r, v) == r[2] = 0 \/ InsideRange(r[1], K.props[r[2]], v)
TakeNumber(x, s, v) ==
  LET y == [x EXCEPT !.user = @ \cup {s}, !.uval[s] = v]
  IN IF x.uval[s] = v THEN y ELSE sym_clear_all_valid(y)
WithBounds(r) == IF r[2] = 0 THEN r ELSE <<CalcBounds(r[1], K.props[r[2]]), r[2], r[3]>>
RangeNow(x, s) == WithBounds(FirstVisible(x, PropsOf(s, "range")))
SetNumber(r, s, v) == IF sym_string_within_range(r, v) THEN TakeNumber(r[1], s, v) ELSE r[1]
sym_set_string_value(x, s, v) == SetNumber(RangeNow(x, s), s, v)

sym_is_changeable(x, s) == x.vis[s] > x.revt[s]

----------------------------------------------------------------------------
(* .config files.                                                          *)

\* conf_set_sym_val accepts a value of the symbol's type.
ValidFor(s, v) ==
  CASE K.type[s] = "tristate" -> v \in {Str_n, Str_m, Str_y}
    [] K.type[s] = "bool" -> v \in {Str_n, Str_y}
    [] K.type[s] = "int" -> v \in 0..99
    [] OTHER -> FALSE
TriOf(v) == CASE v = Str_n -> 0 [] v = Str_m -> 1 [] v = Str_y -> 2 [] OTHER -> 0

\* One line; acc is the symbols and the number of warnings.
ReadChoice(x, s, t) ==
  LET c == ChoiceSym(s)
  IN [x EXCEPT !.user = IF t = 1 /\ x.utri[c] = 2 THEN @ \ {c} ELSE @,
               !.uch = IF t = 2 THEN [@ EXCEPT ![c] = s] ELSE @,
               !.utri[c] = Or(@, t)]
ReadValue(x, s, v) ==
  LET y == IF K.type[s] \in Logic THEN [x EXCEPT !.user = @ \cup {s}, !.utri[s] = TriOf(v)]
                                  ELSE [x EXCEPT !.user = @ \cup {s}, !.uval[s] = v]
  IN IF IsValue(s) THEN ReadChoice(y, s, y.utri[s]) ELSE y
Inconsistent(x, s, v) ==
  IsValue(s) /\ ((v = Str_m /\ x.utri[ChoiceSym(s)] = 2) \/ (v = Str_y /\ x.utri[ChoiceSym(s)] # 0))
ReadLine(acc, line) ==
  LET s == line[1]
      v == line[2]
      x == acc[1]
      warned == s \in x.user \/ ~ValidFor(s, v) \/ Inconsistent(x, s, v)
  IN IF s \notin MenuSyms THEN <<[x EXCEPT !.changed = TRUE], acc[2]>>
     ELSE <<IF ValidFor(s, v) THEN ReadValue(x, s, v) ELSE x, acc[2] \/ warned>>

ForgetUser(x) ==
  [x EXCEPT !.user = K.choices, !.valid = Constants,
            !.uval = [s \in MenuSyms |-> Str_empty], !.uch = [s \in MenuSyms |-> ""],
            !.utri = [s \in MenuSyms |-> 0]]
conf_read_simple(x, lines) == FoldLeft(ReadLine, <<ForgetUser(x), FALSE>>, lines)

\* The symbols whose computed value is not what the file said.
Unsaved(x) ==
  { s \in InTable \ (K.choices \cup K.nowrite) :
      IF s \in x.user /\ s \in x.write
      THEN IF K.type[s] \in Logic THEN x.utri[s] # x.tri[s] ELSE x.val[s] # x.uval[s]
      ELSE s \in x.user \/ s \in x.write }

\* Answers of symbols that cannot be seen become new again, unless the file and
\* the Kconfig disagree; numbers out of range are dropped.  acc is the symbols
\* and whether something is unsaved.
OutOfRange(r, s) == ~sym_string_within_range(r, r[1].uval[s])
DropNumber(acc, s, r) ==
  IF OutOfRange(r, s)
  THEN <<[r[1] EXCEPT !.valid = @ \ {s}, !.user = @ \ {s}], TRUE>> ELSE <<r[1], acc[2]>>
Forget(acc, s) ==
  IF acc[1].vis[s] = 0 /\ ~acc[2] THEN [acc[1] EXCEPT !.user = @ \ {s}] ELSE acc[1]
ResetOne(acc, s) ==
  IF s \notin acc[1].user \/ IsValue(s) THEN acc
  ELSE IF K.type[s] = "int" THEN DropNumber(acc, s, RangeNow(Forget(acc, s), s))
  ELSE <<Forget(acc, s), acc[2]>>
ReadEnd(r, warned) == [r[1] EXCEPT !.changed = @ \/ warned \/ r[2]]
ResetAll(x, warned) == ReadEnd(FoldLeft(ResetOne, <<x, Unsaved(x) # {}>>, TableOrder), warned)
ReadRest(r) == ResetAll(CalcAll(sym_calc_value(r[1], K.modules)), r[2])
conf_read(x, lines) == ReadRest(conf_read_simple([x EXCEPT !.changed = FALSE], lines))

\* menu_is_visible: a symbol that is set and has visible entries below is
\* shown, and counts as answered.  As <<state, BOOLEAN>>.
RECURSIVE menu_is_visible(_, _)
AnyChild(x, m) ==
  FoldLeft(LAMBDA acc, c : IF acc[2] THEN acc ELSE menu_is_visible(acc[1], c),
           <<x, FALSE>>, Children(K, m))
ShownByChild(r, s) == IF r[2] THEN <<[r[1] EXCEPT !.user = @ \cup {s}], TRUE>> ELSE r
VisibleSym(x, m, s) ==
  IF x.pvis[K.node[m].prompt] # 0 THEN <<x, TRUE>>
  ELSE IF x.tri[s] = 0 THEN <<x, FALSE>>
  ELSE ShownByChild(AnyChild(x, m), s)
NotNo(r) == <<r[1], r[2] # 0>>
VisibleNode(r, m) ==
  IF r[2] = 0 THEN <<r[1], FALSE>>
  ELSE IF K.node[m].sym # "" THEN VisibleSym(sym_calc_value(r[1], K.node[m].sym), m, K.node[m].sym)
  ELSE NotNo(CalcExpr(r[1], K.props[K.node[m].prompt].vis))
menu_is_visible(x, m) ==
  IF K.node[m].prompt = 0 THEN <<x, FALSE>> ELSE VisibleNode(CalcExpr(x, K.node[m].vis), m)

\* The symbols of the tree in the order of the walk, each once.
TreeSymbols ==
  LET walk == FoldLeft(LAMBDA seen, n : IF K.node[n].sym \in ToSet(seen) THEN seen
                                        ELSE Append(seen, K.node[n].sym),
                       <<>>, Walk(K, K.node[Root].list, Len(K.node)))
  IN SelectSeq(walk, LAMBDA s : s # "" /\ s \notin K.choices)

\* conf_write: as <<state, lines>>.  An n of a bool is written as "is not set".
WriteSymbol(acc, s, x) ==
  IF s \in x.write /\ K.type[s] # "unknown"
  THEN <<x, Append(acc[2], <<s, sym_get_string_value(x, s)>>)>> ELSE <<x, acc[2]>>
WriteLines(x) ==
  FoldLeft(LAMBDA acc, s : WriteSymbol(acc, s, sym_calc_value(acc[1], s)), <<x, <<>>>>, TreeSymbols)
conf_write(x) == WriteLines(IF x.changed THEN x ELSE sym_clear_all_valid(x))

\* sym_get_string_default: what the value would be without an answer.
DefaultValue(x, s, t) ==
  LET a == Or(t, x.revt[s])
      b == IF a = 1 /\ ((~IsValue(s) /\ x.tri[K.modules] = 0) \/ K.type[s] = "bool") THEN 2 ELSE a
  IN Letter(Or(b, x.impt[s]))
ValueOf1(x, d) == <<x, x.val[d]>>
DefaultNumber(x, d) == ValueOf1(sym_calc_value(x, d), d)
DefaultLogic(s, r, q) == <<q[1], DefaultValue(q[1], s, And(q[2], r[3]))>>
StringDefault(s, r) ==
  IF K.type[s] \in Logic
  THEN IF r[2] = 0 THEN <<r[1], DefaultValue(r[1], s, 0)>>
       ELSE DefaultLogic(s, r, CalcExpr(r[1], K.props[r[2]].expr))
  ELSE IF r[2] = 0 \/ prop_get_symbol(r[2]) = "" THEN <<r[1], Str_empty>>
  ELSE DefaultNumber(r[1], prop_get_symbol(r[2]))
sym_get_string_default(x, s) ==
  StringDefault(s, FirstVisible(sym_calc_value(sym_calc_visibility(x, s), K.modules),
                                PropsOf(s, "default")))

\* conf_write_defconfig leaves out what a configuration without answers has.
IsChoiceDefault(r, s) ==
  /\ ChoiceSym(s) \notin K.optional /\ r[2] = s
  /\ K.type[s] = "bool" /\ r[1].tri[s] = 2
UnlessChoiceDefault(acc, s, r) ==
  IF IsChoiceDefault(r, s) THEN <<r[1], acc[2]>>
  ELSE <<r[1], Append(acc[2], <<s, sym_get_string_value(r[1], s)>>)>>
UnlessDefault(acc, s, r) ==
  IF r[2] = sym_get_string_value(r[1], s) THEN <<r[1], acc[2]>>
  ELSE UnlessChoiceDefault(acc, s,
         IF IsValue(s) THEN sym_choice_default(r[1], ChoiceSym(s)) ELSE <<r[1], "">>)
DefconfigSymbol(acc, s, x) ==
  IF s \notin x.write THEN <<x, acc[2]>>
  ELSE IF ~sym_is_changeable(x, s) \/ K.type[s] = "unknown" THEN <<[x EXCEPT !.write = @ \ {s}], acc[2]>>
  ELSE UnlessDefault(acc, s, sym_get_string_default([x EXCEPT !.write = @ \ {s}], s))
conf_write_defconfig(x) ==
  FoldLeft(LAMBDA acc, s : DefconfigSymbol(acc, s, sym_calc_value(acc[1], s)),
           <<sym_clear_all_valid(x), <<>>>>, TreeSymbols)

\* conf_set_all_new_symbols for alldefconfig and defconfig (mode "default"),
\* allyesconfig, allmodconfig, allnoconfig.
NewTri == [yes |-> 2, mod |-> 1, no |-> 0]
Answer(x, mode) ==
  LET new == { s \in InTable : s \notin x.user \cup x.valid /\ sym_get_type(x, s) \in Logic }
  IN IF mode = "default" THEN x
     ELSE [x EXCEPT !.user = @ \cup new,
                    !.utri = [s \in MenuSyms |-> IF s \in new THEN NewTri[mode] ELSE @[s]]]
MarkNeed(x) ==
  [x EXCEPT !.need = (K.choices \ x.user) \cup K.values]
SetChoices(x) ==
  FoldLeft(LAMBDA acc, c :
             IF c \in acc.user THEN acc ELSE set_all_choice_values(sym_calc_value(acc, c), c),
           x, SelectSeq(TableOrder, LAMBDA s : s \in K.choices))
conf_set_all_new_symbols(x, mode) == SetChoices(MarkNeed(sym_clear_all_valid(Answer(x, mode))))

----------------------------------------------------------------------------
(* The front end that asks for new symbols, every question answered by the *)
(* same key: return takes the value that is offered, y and n are repeated  *)
(* as return when they are refused.                                        *)

Reply(x, s, key) ==
  CASE key = "return" -> x.tri[s]
    [] key = "y" -> IF MayTake(x, s, 2) THEN 2 ELSE x.tri[s]
    [] key = "n" -> IF MayTake(x, s, 0) THEN 0 ELSE x.tri[s]
conf_sym(x, s, key) ==
  IF ~sym_is_changeable(x, s) \/ s \in x.user THEN x ELSE sym_set_tristate_value(x, s, Reply(x, s, key))
conf_string(x, s) ==
  IF ~sym_is_changeable(x, s) \/ s \in x.user \/ x.val[s] = Str_empty THEN x
  ELSE sym_set_string_value(x, s, x.val[s])

RECURSIVE conf(_, _, _)
ConfAll(x, ms, key) == FoldLeft(LAMBDA acc, m : conf(acc, m, key), x, ms)
\* The value a choice has is confirmed; its entries are then asked for.
NodeOf(s) == CHOOSE n \in DOMAIN K.node : K.node[n].sym = s
ConfirmChoice(x, s, key) ==
  IF x.ch[s] = "" THEN x
  ELSE ConfAll(sym_set_tristate_value(x, x.ch[s], 2), Children(K, NodeOf(x.ch[s])), key)
AskChoice(x, m, s, key) ==
  IF x.tri[s] = 2 THEN ConfirmChoice(x, s, key)
  ELSE IF x.tri[s] = 1 THEN ConfAll(x, Children(K, m), key)
  ELSE x
conf_choice(x, m, s, key) ==
  AskChoice(IF sym_is_changeable(x, s) THEN sym_calc_value(conf_sym(x, s, key), s) ELSE x, m, s, key)
ConfShown(x, m, s, key) ==
  IF s = "" THEN ConfAll(x, Children(K, m), key)
  ELSE IF s \in K.choices THEN conf_choice(x, m, s, key)
  ELSE ConfAll(IF K.type[s] = "int" THEN conf_string(x, s) ELSE conf_sym(x, s, key), Children(K, m), key)
ConfIfShown(r, m, key) == IF r[2] THEN ConfShown(r[1], m, K.node[m].sym, key) ELSE r[1]
conf(x, m, key) == ConfIfShown(menu_is_visible(x, m), m, key)

\* The menu a new entry is in is asked as a whole.
RECURSIVE MenuAround(_)
MenuAround(m) ==
  IF m = Root \/ (K.node[m].prompt # 0 /\ K.props[K.node[m].prompt].type = "menu")
  THEN m ELSE MenuAround(K.node[m].parent)
IsNew(x, s) ==
  /\ s # "" /\ s \notin x.user
  /\ sym_is_changeable(x, s) \/ (s \in K.choices /\ x.tri[s] = 2)

\* check_conf, as <<state, whether something was asked>>.
RECURSIVE check_conf(_, _, _)
CheckChildren(acc, m, key) ==
  FoldLeft(LAMBDA a, c : check_conf(a, c, key), acc, Children(K, m))
CheckShown(acc, r, m, key) ==
  IF ~r[2] THEN <<r[1], acc[2]>>
  ELSE CheckChildren(IF IsNew(r[1], K.node[m].sym) THEN <<conf(r[1], MenuAround(m), key), TRUE>>
                                                   ELSE <<r[1], acc[2]>>, m, key)
check_conf(acc, m, key) == CheckShown(acc, menu_is_visible(acc[1], m), m, key)

\* oldconfig: until a pass asks nothing.
RECURSIVE OldConfigPass(_, _, _)
OldConfigPass(r, key, n) ==
  IF ~r[2] \/ n = 0 THEN r ELSE OldConfigPass(check_conf(<<r[1], FALSE>>, Root, key), key, n - 1)
oldconfig(x, key) == OldConfigPass(<<x, TRUE>>, key, Cardinality(MenuSyms))

----------------------------------------------------------------------------
SymInit ==
  /\ kcfg \in ToSet(Kconfigs)
  /\ st = SymZero /\ file \in EditedFiles /\ saved = FALSE /\ edits = 0

\* conf_read of the .config file at the start of a session.
ReadConfig ==
  /\ edits = 0 /\ st = SymZero
  /\ st' = conf_read(st, file)
  /\ edits' = 1
  /\ saved' = FALSE
  /\ UNCHANGED <<kcfg, file>>

\* One of the all*config modes instead: nothing is read.
SetAll ==
  /\ edits = 0 /\ st = SymZero
  /\ \E mode \in {"yes", "mod", "no", "default"} :
       st' = conf_set_all_new_symbols(st, mode)
  /\ edits' = 1 /\ saved' = FALSE
  /\ UNCHANGED <<kcfg, file>>

InSession == edits \in 1..MaxEdits

\* A bool, tristate or choice that is shown is set or toggled in a menu.
SetTristate ==
  /\ InSession
  /\ \E n \in DOMAIN K.node \ {Root} :
       LET s == K.node[n].sym
           r == menu_is_visible(st, n)
       IN /\ s # "" /\ K.type[s] \in Logic
          /\ r[2] /\ sym_is_changeable(r[1], s)
          /\ \/ \E t \in 0..2 : st' = sym_set_tristate_value(r[1], s, t)
             \/ st' = sym_toggle_tristate_value(r[1], s)
  /\ edits' = edits + 1 /\ saved' = FALSE
  /\ UNCHANGED <<kcfg, file>>

\* An int that is shown is entered.
SetNumberTo ==
  /\ InSession
  /\ \E n \in DOMAIN K.node \ {Root}, v \in Numbers :
       LET s == K.node[n].sym
           r == menu_is_visible(st, n)
       IN /\ s # "" /\ K.type[s] = "int"
          /\ r[2] /\ sym_is_changeable(r[1], s)
          /\ st' = sym_set_string_value(r[1], s, v)
  /\ edits' = edits + 1 /\ saved' = FALSE
  /\ UNCHANGED <<kcfg, file>>

\* oldconfig asks for everything that is new.
OldConfig ==
  /\ InSession
  /\ \E key \in {"return", "y", "n"} : st' = oldconfig(st, key)[1]
  /\ edits' = edits + 1 /\ saved' = FALSE
  /\ UNCHANGED <<kcfg, file>>

\* conf_write; the next session starts from the file.
WriteConfig ==
  /\ edits > 0 /\ ~saved
  /\ LET r == conf_write(st) IN file' = r[2] /\ st' = [r[1] EXCEPT !.changed = FALSE]
  /\ saved' = TRUE
  /\ UNCHANGED <<kcfg, edits>>

SymNext == ReadConfig \/ SetAll \/ SetTristate \/ SetNumberTo \/ OldConfig \/ WriteConfig
SymSpec == SymInit /\ [][SymNext]_symVars

----------------------------------------------------------------------------
(* Properties.                                                             *)

\* Type correctness of the symbols' state.
SymTypeOK ==
  /\ st.user \subseteq MenuSyms /\ st.valid \subseteq MenuSyms /\ st.write \subseteq MenuSyms
  /\ \A f \in {st.tri, st.utri, st.vis, st.dirt, st.revt, st.impt} : f \in [MenuSyms -> 0..2]
  /\ st.mods \in 0..2 /\ edits \in 0..(MaxEdits + 1)

Values(x) == [s \in InTable |-> sym_get_string_value(x, s)]
Recomputed(x) == CalcAll(sym_clear_all_valid(x))

\* A value that is marked valid is up to date: computing everything anew from
\* the answers gives the same value, in whatever order earlier questions had
\* the values computed and cached.
CachedIsCurrent ==
  LET now == Values(st)
      anew == Values(Recomputed(st))
  IN \A s \in st.valid \cap InTable : now[s] = anew[s]

\* No symbol is set beyond its dependencies unless it is selected, none is below
\* what selects it, and of a choice that is y exactly one value is y.
Sound(x) ==
  /\ \A s \in InTable : K.type[s] \in Logic /\ ~IsValue(s) =>
       /\ x.tri[s] >= x.revt[s]
       /\ s \notin K.choices => x.tri[s] <= Or(x.dirt[s], x.revt[s])
  /\ \A c \in K.choices : x.tri[c] = 2 =>
       Cardinality({ s \in ToSet(K.members[c]) : x.tri[s] = 2 }) = 1
  /\ \A s \in InTable : K.type[s] = "int" =>
       LET r == RangeNow(x, s)
       IN r[2] # 0 => InsideRange(r[1], K.props[r[2]], strtoll(x.val[s]))
ValuesSound == st # SymZero => Sound(Recomputed(st))

\* What conf_write wrote is a complete account: reading it back gives every
\* symbol the value it had, and reports nothing as changed.
Reloaded(x, lines) == conf_read(SymZero, lines)
SameValues(x, y) == Values(x) = Values(y)
SavedIsComplete ==
  saved => LET y == Reloaded(st, file)
           IN SameValues(CalcAll(st), CalcAll(y)) /\ ~y.changed

\* So is the minimal file of savedefconfig, which leaves out every value a
\* configuration without answers has: defconfig makes the same configuration of
\* it.
FromDefconfig(lines) == CalcAll(conf_set_all_new_symbols(conf_read(SymZero, lines), "default"))
DefconfigIsComplete ==
  saved => SameValues(CalcAll(st), FromDefconfig(conf_write_defconfig(st)[2]))

\* oldconfig ends, and leaves nothing new to be asked.
NothingLeftToAsk ==
  st # SymZero => \A key \in {"return", "y", "n"} : ~oldconfig(st, key)[2]

\* Symbol values follow from the menu, and what is saved brings them back.
SymbolsSound ==
    /\ SymTypeOK /\ CachedIsCurrent /\ ValuesSound /\ SavedIsComplete
    /\ DefconfigIsComplete /\ NothingLeftToAsk
=============================================================================
