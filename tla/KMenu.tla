------------------------------- MODULE KMenu -------------------------------
(***************************************************************************)
(* Reading Kconfig files: the parser's statements build the menu tree and  *)
(* the symbols' properties (scripts/kconfig/parser.y, menu.c), then        *)
(* conf_parse finalizes the tree (menu_finalize: dependencies are handed   *)
(* down and simplified, selects are recorded with the selected symbol,     *)
(* submenus are created, if blocks are flattened) and refuses recursive    *)
(* dependencies (sym_check_deps of symbol.c).                              *)
(*                                                                         *)
(* The whole parse state is one record, k:                                 *)
(*   node     the menu nodes; node 1 is rootmenu, 0 the NULL pointer       *)
(*   props    all properties in the order they were added                  *)
(*   entry, menu, last   current_entry, current_menu, last_entry_ptr       *)
(*   type, rev, imp, dir per symbol: type, rev_dep, implied, dir_dep       *)
(*   optional, choices, values, members   the choice flags and lists       *)
(*   modules  modules_sym;  files  the stack of open files                 *)
(*   errs     yynerrs is not zero                                          *)
(* Prompts, help texts and source positions other than the file are left   *)
(* out, and so are the warnings of sym_check_prop and menu_warn.           *)
(***************************************************************************)
EXTENDS KExpr, SequencesExt

CONSTANTS
  MenuSyms,       \* the symbols that may be named, constants included
  Statements,     \* the statements a file may hold
  MaxStatements   \* statements of the files that are enumerated

VARIABLES km,     \* the parse state
          source, \* the statements read so far
          phase   \* "parse", "parsed" or "refused"

menuVars == <<km, source, phase>>

ASSUME MenuBounds == MaxStatements \in Nat /\ {"y", "m", "n"} \subseteq MenuSyms

NoNode == 0
Root == 1
NewNode(parent, s, file) ==
  [parent |-> parent, next |-> NoNode, list |-> NoNode, sym |-> s,
   prompt |-> 0, dep |-> Null, vis |-> Null, file |-> file]

\* _menu_init on the empty symbol table.
_menu_init ==
  [node |-> <<NewNode(NoNode, "", "main")>>, props |-> <<>>,
   entry |-> Root, menu |-> Root, last |-> <<Root, "list">>,
   type |-> [s \in MenuSyms |-> "unknown"],
   rev |-> [s \in MenuSyms |-> Null], imp |-> [s \in MenuSyms |-> Null],
   dir |-> [s \in MenuSyms |-> Null],
   optional |-> {}, choices |-> {}, values |-> {}, nowrite |-> {},
   members |-> [s \in MenuSyms |-> <<>>],
   modules |-> "", files |-> <<"main">>, errs |-> FALSE]

----------------------------------------------------------------------------
(* The statements.                                                         *)

RECURSIVE UpperVisibility(_, _, _)
\* A prompt is visible only if the menus around it are.
UpperVisibility(k, m, e) ==
  IF m = NoNode THEN e
  ELSE UpperVisibility(k, k.node[m].parent, expr_alloc_and(e, k.node[m].vis))

menu_add_prop(k, type, text, e, dep) ==
  LET vis == IF text /\ type = "prompt"
             THEN UpperVisibility(k, k.node[k.entry].parent, dep) ELSE dep
      k1 == [k EXCEPT !.props = Append(@,
               [sym |-> k.node[k.entry].sym, type |-> type, text |-> text,
                expr |-> e, vis |-> vis, menu |-> k.entry])]
  IN IF text THEN [k1 EXCEPT !.node[k.entry].prompt = Len(k1.props)] ELSE k1

menu_add_entry(k, s) ==
  LET n == Len(k.node) + 1
      k1 == [k EXCEPT !.node = Append(IF k.last[2] = "list"
                                      THEN [@ EXCEPT ![k.last[1]].list = n]
                                      ELSE [@ EXCEPT ![k.last[1]].next = n],
                                      NewNode(k.menu, s, Head(k.files))),
                      !.last = <<n, "next">>, !.entry = n]
  IN IF s = "" THEN k1 ELSE menu_add_prop(k1, "symbol", FALSE, expr_alloc_symbol(s), Null)

menu_add_menu(k) == [k EXCEPT !.last = <<k.entry, "list">>, !.menu = k.entry]
menu_end_menu(k) == [k EXCEPT !.last = <<k.menu, "next">>, !.menu = k.node[k.menu].parent]
menu_add_dep(k, dep) == [k EXCEPT !.node[k.entry].dep = expr_alloc_and(@, dep)]
menu_add_visibility(k, e) == [k EXCEPT !.node[k.entry].vis = expr_alloc_and(@, e)]
menu_set_type(k, n, t) ==
  IF t # "unknown" /\ k.type[k.node[n].sym] = "unknown"
  THEN [k EXCEPT !.type[k.node[n].sym] = t] ELSE k

AddExprs(k, type, ps) ==
  FoldLeft(LAMBDA acc, p : menu_add_prop(acc, type, FALSE, p[1], p[2]), k, ps)

\* config and menuconfig with their options; an option is an expression and
\* its condition.
ConfigStmt(k, c) ==
  LET k1 == menu_add_entry([k EXCEPT !.optional = @ \cup {c.sym}], c.sym)
      k2 == IF c.prompt = <<>> THEN k1
            ELSE menu_add_prop(k1, "prompt", TRUE, Null, c.prompt[1])
      k3 == menu_add_dep(menu_set_type(k2, k2.entry, c.type), c.dep)
      k4 == AddExprs(AddExprs(AddExprs(AddExprs(k3,
              "default", c.defaults), "select", c.selects), "imply", c.implies),
              "range", c.ranges)
  IN IF c.modules
     THEN [k4 EXCEPT !.modules = c.sym, !.errs = @ \/ k.modules # ""] ELSE k4

MenuStmt(k, c) ==
  menu_add_menu(menu_add_dep(menu_add_visibility(
    menu_add_prop(menu_add_entry(k, ""), "menu", TRUE, Null, Null), c.vis), c.dep))

IfStmt(k, c) == menu_add_menu(menu_add_dep(menu_add_entry(k, ""), c.dep))

ChoiceStmt(k, c) ==
  LET k1 == menu_add_entry([k EXCEPT !.choices = @ \cup {c.sym}, !.nowrite = @ \cup {c.sym},
                                     !.optional = IF c.opt THEN @ \cup {c.sym} ELSE @], c.sym)
      k2 == menu_add_prop(k1, "choice", FALSE, Null, Null)
      k3 == IF c.prompt = <<>> THEN k2
            ELSE menu_add_prop(k2, "prompt", TRUE, Null, c.prompt[1])
  IN menu_add_menu(AddExprs(menu_add_dep(menu_set_type(k3, k3.entry, c.type), c.dep),
                            "default", c.defaults))

CommentStmt(k, c) ==
  menu_add_dep(menu_add_prop(menu_add_entry(k, ""), "comment", TRUE, Null, Null), c.dep)

\* What kind of block a node opened.
BlockOf(k, m) ==
  IF m = Root THEN "none"
  ELSE IF k.node[m].sym # "" THEN "choice"
  ELSE IF k.node[m].prompt # 0 THEN "menu" ELSE "if"

\* endmenu, endif, endchoice.  A block that ends in another file than the one
\* it began in, or with the wrong word, stays open and is an error.
EndStmt(k, c) ==
  IF c.of = BlockOf(k, k.menu) /\ k.node[k.menu].file = Head(k.files)
  THEN menu_end_menu(k) ELSE [k EXCEPT !.errs = TRUE]

\* source: the file is read in place; a file that is being read is refused.
SourceStmt(k, c) ==
  IF c.file \in ToSet(k.files) THEN [k EXCEPT !.errs = TRUE, !.files = <<>>]
  ELSE [k EXCEPT !.files = <<c.file>> \o @]

Read(k, c) ==
  CASE c.k = "config" -> ConfigStmt(k, c)
    [] c.k = "menu" -> MenuStmt(k, c)
    [] c.k = "if" -> IfStmt(k, c)
    [] c.k = "choice" -> ChoiceStmt(k, c)
    [] c.k = "comment" -> CommentStmt(k, c)
    [] c.k = "end" -> EndStmt(k, c)
    [] c.k = "source" -> SourceStmt(k, c)
    [] c.k = "eof" -> [k EXCEPT !.files = Tail(@)]

----------------------------------------------------------------------------
(* menu_finalize.                                                          *)

RECURSIVE rewrite_m(_, _)
rewrite_m(k, e) ==
  IF e[1] = "not" THEN <<"not", rewrite_m(k, e[2])>>
  ELSE IF e[1] \in Junctions THEN <<e[1], rewrite_m(k, e[2]), rewrite_m(k, e[3])>>
  ELSE IF e = <<"sym", "m">> THEN expr_alloc_and(e, expr_alloc_symbol(k.modules))
  ELSE e

\* A condition below dep, rewritten and simplified.
Inherit(k, dep, e) ==
  expr_eliminate_dups(k.type, expr_alloc_and(dep, expr_transform(k.type, rewrite_m(k, e))))

\* Property i of node m gets the node's dependencies; a select or imply is
\* recorded with its target.
SelectCondition(k, m, vis) == expr_alloc_and(expr_alloc_symbol(k.node[m].sym), vis)
PropagateTo(k, m, i, vis) ==
  LET p == k.props[i]
      cond == SelectCondition(k, m, vis)
      k1 == [k EXCEPT !.props[i].vis = vis]
  IN CASE p.type = "select" -> [k1 EXCEPT !.rev[p.expr[2]] = expr_alloc_or(@, cond)]
       [] p.type = "imply" -> [k1 EXCEPT !.imp[p.expr[2]] = expr_alloc_or(@, cond)]
       [] OTHER -> k1
BoolCondition(k, m, e) ==
  IF k.node[m].sym # "" /\ k.type[k.node[m].sym] # "tristate" THEN expr_trans_bool(k.type, e) ELSE e
PropagateAll(k, m) ==
  FoldLeft(LAMBDA acc, i : PropagateTo(acc, m, i,
               BoolCondition(acc, m, Inherit(acc, acc.node[m].dep, acc.props[i].vis))),
           k, SelectSeq([i \in 1..Len(k.props) |-> i], LAMBDA i : k.props[i].menu = m))

RECURSIVE Siblings(_, _)
Siblings(k, m) == IF m = NoNode THEN <<>> ELSE <<m>> \o Siblings(k, k.node[m].next)
Children(k, p) == Siblings(k, k.node[p].list)

\* A choice without a type takes its first typed value's, the values without
\* a type take the choice's.
ChoiceTypes(k, p) ==
  LET kids == SelectSeq(Children(k, p), LAMBDA m : k.node[m].sym # "")
      typed == SelectSeq(kids, LAMBDA m : k.type[k.node[m].sym] # "unknown")
      k1 == IF typed = <<>> THEN k ELSE menu_set_type(k, p, k.type[k.node[Head(typed)].sym])
  IN FoldLeft(LAMBDA acc, m : menu_set_type(acc, m, acc.type[acc.node[p].sym]), k1, kids)

IsChoice(k, p) == k.node[p].sym # "" /\ k.node[p].sym \in k.choices

ParentDep(k, p) ==
  IF IsChoice(k, p) THEN expr_alloc_symbol(k.node[p].sym)
  ELSE IF k.node[p].prompt # 0 THEN k.props[k.node[p].prompt].vis
  ELSE k.node[p].dep

HandDown(k, p, dep) ==
  FoldLeft(LAMBDA acc, m :
             PropagateAll([acc EXCEPT !.node[m].dep = Inherit(acc, dep, @)], m),
           k, Children(k, p))

Explicit(k, e) ==
  expr_eliminate_dups(k.type, expr_transform(k.type, expr_trans_compare(e, "ne", "n")))
PromptDep(k, m) == IF k.node[m].prompt # 0 THEN k.props[k.node[m].prompt].vis ELSE k.node[m].dep

\* Whether the node m that follows a symbol is put into its submenu.
BelongsBelow(k, m, s, basedep) ==
  /\ expr_contains_symbol(PromptDep(k, m), s)
  /\ \/ expr_depends_symbol(PromptDep(k, m), s)
     \/ expr_is_yes(expr_eliminate_eq(Explicit(k, PromptDep(k, m)), basedep)[3])

RECURSIVE menu_finalize(_, _), FinalizeEach(_, _), Submenu(_, _, _, _, _)
\* The children in order; the list may shrink behind a child while it is
\* finalized.
FinalizeEach(k, m) ==
  IF m = NoNode THEN k
  ELSE LET k1 == menu_finalize(k, m) IN FinalizeEach(k1, k1.node[m].next)

\* The nodes behind symbol p that depend on it, up to the first that does not.
Submenu(k, p, m, last, basedep) ==
  IF m # NoNode /\ BelongsBelow(k, m, k.node[p].sym, basedep)
  THEN LET k1 == [menu_finalize(k, m) EXCEPT !.node[m].parent = p]
       IN Submenu(k1, p, k1.node[m].next, m, basedep)
  ELSE IF last = NoNode THEN k
  ELSE [k EXCEPT !.node[p].list = k.node[p].next, !.node[p].next = k.node[last].next,
                 !.node[last].next = NoNode]

BaseDep(k, p) == Explicit(k, IF k.node[p].prompt # 0 THEN k.props[k.node[p].prompt].vis ELSE Null)
AutoSubmenu(k, p) ==
  LET k1 == Submenu(k, p, k.node[p].next, NoNode, BaseDep(k, p))
  IN [k1 EXCEPT !.dir[k.node[p].sym] = expr_alloc_or(@, k1.node[p].dep)]

\* A symbol below a choice becomes one of its values; a value that is not a
\* tristate needs the tristate choice to be y.
OnlyIfYes(k, m, c) ==
  LET y == expr_alloc_comp("eq", c, "y")
  IN IF k.type[c] = "tristate" /\ k.type[k.node[m].sym] # "tristate"
     THEN [k EXCEPT !.node[m].dep = expr_alloc_and(y, @),
                    !.props = [i \in DOMAIN @ |->
                                 IF @[i].menu = m THEN [@[i] EXCEPT !.vis = expr_alloc_and(y, @)]
                                                  ELSE @[i]]]
     ELSE k
MakeValue(k, p, m) ==
  LET c == k.node[p].sym
      s == k.node[m].sym
      k1 == OnlyIfYes([k EXCEPT !.values = @ \cup {s}], m, c)
      k2 == menu_add_prop([k1 EXCEPT !.entry = m], "choice", FALSE, expr_alloc_symbol(c), Null)
  IN IF IsChoice(k, p) /\ s # "" /\ s \notin k.values
     THEN [k2 EXCEPT !.members[c] = Append(@, s)] ELSE k

\* An if block, or the submenu of a symbol without prompt, is dissolved into
\* its parent's list.
DissolveLosing(k, p, m) ==
  IF k.node[m].list # NoNode /\ k.node[m].prompt = 0
  THEN [k EXCEPT !.node[m].next = k.node[m].list, !.node[m].list = NoNode] ELSE k
Dissolve(k, p, m) ==
  LET kids == Children(k, m)
      tail == kids[Len(kids)]
      reparented == [n \in DOMAIN k.node |->
                       IF n \in ToSet(kids) THEN [k.node[n] EXCEPT !.parent = p] ELSE k.node[n]]
  IN IF k.node[m].list # NoNode /\ k.node[m].prompt = 0
     THEN [k EXCEPT !.node = [reparented EXCEPT ![tail].next = k.node[m].next,
                                                ![m].next = k.node[m].list,
                                                ![m].list = NoNode]]
     ELSE k
RECURSIVE FlattenFrom(_, _, _)
FlattenFrom(k, p, m) ==
  IF m = NoNode THEN k
  ELSE LET k1 == Dissolve(MakeValue(k, p, m), p, m)
       IN FlattenFrom(k1, p, k1.node[m].next)

\* A choice that is not optional cannot be n while it is visible.
Mandatory(k, p) ==
  LET s == k.node[p].sym
  IN IF s # "" /\ s \notin k.optional /\ k.node[p].prompt # 0
     THEN [k EXCEPT !.rev[s] = expr_alloc_or(@,
             expr_alloc_and(k.props[k.node[p].prompt].vis, expr_alloc_symbol("m")))]
     ELSE k

FinalizeBody(k, p) ==
  IF k.node[p].list # NoNode
  THEN LET k1 == IF IsChoice(k, p) THEN ChoiceTypes(k, p) ELSE k
           k2 == HandDown(k1, p, ParentDep(k1, p))
       IN FinalizeEach(k2, k2.node[p].list)
  ELSE IF k.node[p].sym # "" THEN AutoSubmenu(k, p)
  ELSE k
Flattened(k, p) == Mandatory(FlattenFrom(k, p, k.node[p].list), p)
menu_finalize(k, p) == Flattened(FinalizeBody(k, p), p)

----------------------------------------------------------------------------
(* sym_check_deps: depth first over the symbols' expressions.  c.on is     *)
(* SYMBOL_CHECK, c.done SYMBOL_CHECKED, c.found whether a symbol that is   *)
(* being checked was met again.                                            *)

ChoiceOf(k, s) ==
  IF s \in k.values THEN CHOOSE c \in k.choices : s \in ToSet(k.members[c]) ELSE ""

RECURSIVE sym_check_deps(_, _, _), CheckList(_, _, _)
CheckList(k, c, ss) ==
  FoldLeft(LAMBDA acc, s : IF acc.found THEN acc ELSE sym_check_deps(k, acc, s), c, ss)

\* The symbols that sym_check_sym_deps looks at.
CheckedSymbols(k, s) ==
  ExprSymbols(k.dir[s]) \o ExprSymbols(k.rev[s]) \o ExprSymbols(k.imp[s])
  \o FlattenSeq([i \in 1..Len(k.props) |->
       LET p == k.props[i]
       IN IF p.sym # s \/ p.type \in {"choice", "select", "imply"} THEN <<>>
          ELSE ExprSymbols(p.vis)
               \o IF p.type # "default" \/ s \in k.choices THEN <<>> ELSE ExprSymbols(p.expr)])
sym_check_sym_deps(k, c, s) == CheckList(k, c, CheckedSymbols(k, s))

Unmark(c, ss) == [c EXCEPT !.on = @ \ ss]
CheckMembers(k, c, g) ==
  FoldLeft(LAMBDA acc, s : IF acc.found THEN acc ELSE sym_check_sym_deps(k, acc, s),
           c, k.members[g])
sym_check_choice_deps(k, c, g) ==
  LET all == {g} \cup ToSet(k.members[g])
      c1 == sym_check_sym_deps(k, [c EXCEPT !.on = @ \cup all, !.done = @ \cup all], g)
  IN Unmark(CheckMembers(k, Unmark(c1, {g}), g), all)

sym_check_deps(k, c, s) ==
  IF s \in c.on THEN [c EXCEPT !.found = TRUE]
  ELSE IF s \in c.done THEN c
  ELSE IF s \in k.values THEN sym_check_deps(k, c, ChoiceOf(k, s))
  ELSE IF s \in k.choices THEN sym_check_choice_deps(k, c, s)
  ELSE Unmark(sym_check_sym_deps(k, [c EXCEPT !.on = @ \cup {s}, !.done = @ \cup {s}], s), {s})

\* The symbols that are defined somewhere: the ones the parse knows.
Defined(k) == { k.node[n].sym : n \in DOMAIN k.node } \ {""}
CheckAll(k) ==
  FoldLeft(LAMBDA acc, s :
             LET c == sym_check_deps(k, [acc EXCEPT !.found = FALSE], s)
             IN [c EXCEPT !.bad = @ \/ c.found],
           [on |-> {}, done |-> {}, found |-> FALSE, bad |-> FALSE],
           SetToSeq(Defined(k)))

\* conf_parse, once all files are read: the main menu has a prompt, modules
\* default to the constant n.
WithModules(k) == IF k.modules = "" THEN [k EXCEPT !.modules = "n"] ELSE k
Finalized(k) ==
  menu_finalize(menu_add_prop([WithModules(k) EXCEPT !.entry = Root], "menu", TRUE, Null, Null), Root)

----------------------------------------------------------------------------
MenuInit == km = _menu_init /\ source = <<>> /\ phase = "parse"

\* One statement of the current file.
ReadStatement ==
  /\ phase = "parse" /\ km.files # <<>> /\ ~km.errs
  /\ \E c \in Statements :
       /\ Len(source) < MaxStatements
       /\ c.k = "choice" => c.sym \notin km.choices
       /\ c.k = "config" => c.sym \notin km.choices
       \* a choice holds configs, ifs and comments only
       /\ BlockOf(km, km.menu) = "choice" => c.k \notin {"menu", "choice"}
       /\ km' = Read(km, c)
       /\ source' = Append(source, c)
  /\ UNCHANGED phase

\* The end of a file that was included.
EndFile ==
  /\ phase = "parse" /\ Len(km.files) > 1
  /\ km' = Read(km, [k |-> "eof"])
  /\ source' = Append(source, [k |-> "eof"])
  /\ UNCHANGED phase

\* The end of the main file: blocks that are still open are errors, then
\* conf_parse finishes.
Parse ==
  /\ phase = "parse" /\ (Len(km.files) = 1 \/ km.errs)
  /\ IF km.errs \/ km.menu # Root
     THEN phase' = "refused" /\ UNCHANGED km
     ELSE km' = Finalized(km) /\ phase' = (IF CheckAll(km').bad THEN "refused" ELSE "parsed")
  /\ UNCHANGED source

MenuNext == ReadStatement \/ EndFile \/ Parse
MenuSpec == MenuInit /\ [][MenuNext]_menuVars

----------------------------------------------------------------------------
(* Properties.                                                             *)

\* Type correctness of the tree: every pointer is a node or NULL, and what the
\* parser is adding to is never NULL.
MenuTypeOK ==
  /\ {km.menu, km.entry, km.last[1]} \subseteq DOMAIN km.node
  /\   \A n \in DOMAIN km.node :
       {km.node[n].parent, km.node[n].next, km.node[n].list} \subseteq 0..Len(km.node)

\* The walk every writer and printer of the tree makes: down, along, up.
RECURSIVE Up(_, _), Walk(_, _, _)
Up(k, n) == IF n = NoNode \/ k.node[n].next # NoNode THEN n ELSE Up(k, k.node[n].parent)
After(k, n) ==
  IF k.node[n].list # NoNode THEN k.node[n].list
  ELSE LET u == Up(k, n) IN IF u = NoNode THEN NoNode ELSE k.node[u].next
Walk(k, n, steps) == IF n = NoNode \/ steps = 0 THEN <<>> ELSE <<n>> \o Walk(k, After(k, n), steps - 1)

\* Submenus that are created, ifs that are dissolved and values that are moved
\* leave the entries in the order of the files: the walk that conf_write makes
\* over the finalized tree meets every entry once, in that order, and ends.
TreeKeepsOrder ==
  phase = "parsed" =>
    Walk(km, km.node[Root].list, Len(km.node) + 1) = [i \in 1..(Len(km.node) - 1) |-> i + 1]

\* A file is accepted only if its blocks nest: each is closed by its own word,
\* in the file that opened it.
RECURSIVE Nesting(_, _, _)
Nesting(cs, open, files) ==
  IF cs = <<>> THEN open = <<>>
  ELSE LET c == Head(cs)
       IN CASE c.k \in {"menu", "if", "choice"} ->
                 Nesting(Tail(cs), <<<<c.k, Head(files)>>>> \o open, files)
            [] c.k = "end" ->
                 open # <<>> /\ Head(open) = <<c.of, Head(files)>> /\ Nesting(Tail(cs), Tail(open), files)
            [] c.k = "source" -> Nesting(Tail(cs), open, <<c.file>> \o files)
            [] c.k = "eof" -> Nesting(Tail(cs), open, Tail(files))
            [] OTHER -> Nesting(Tail(cs), open, files)
BlocksNest == phase = "parsed" => Nesting(source, <<>>, <<"main">>)

\* Assignments of the symbols, as in KExpr but for the finalized types.
Constant(s) == IF s = "y" THEN 2 ELSE IF s = "m" THEN 1 ELSE 0
MenuAssignments(k) ==
  LET typed == { s \in MenuSyms : k.type[s] # "unknown" }
  IN { v \in { [s \in MenuSyms |-> IF s \in typed THEN w[s] ELSE Constant(s)] :
                  w \in { w \in [typed -> 0..2] : \A s \in typed : k.type[s] = "bool" => w[s] # 1 } } :
         v[k.modules] = 0 => \A s \in typed : v[s] # 1 }
MenuValue(k, v, e) == expr_calc_value(e, k.type, v, [s \in MenuSyms |-> Letter(v[s])])

\* What the file says about node n: its own dependencies and those of the
\* blocks around it, down to the next choice, whose value bounds its entries;
\* m counts only with modules.
RECURSIVE WrittenDep(_, _, _, _)
Written(k, v, e) == MenuValue(k, v, rewrite_m(k, e))
WrittenDep(k, raw, v, n) ==
  IF n \in {NoNode, Root} THEN 2
  ELSE And(Written(k, v, raw.node[n].dep),
           LET p == raw.node[n].parent
           IN IF IsChoice(raw, p)
              THEN And(v[raw.node[p].sym],
                       IF k.type[raw.node[p].sym] = "tristate" /\ raw.node[n].sym # ""
                          /\ k.type[raw.node[n].sym] # "tristate" /\ v[raw.node[p].sym] # 2
                       THEN 0 ELSE 2)
              ELSE WrittenDep(k, raw, v, p))
AsSeen(k, n, t) ==
  IF k.node[n].sym # "" /\ k.type[k.node[n].sym] # "tristate" /\ t = 1 THEN 2 ELSE t

\* The parse state before conf_parse finished, read again from the source.
RECURSIVE Reread(_, _)
Reread(k, cs) == IF cs = <<>> THEN k ELSE Reread(Read(k, Head(cs)), Tail(cs))
Raw == WithModules(Reread(_menu_init, source))
\* Every property ends up under exactly the condition the file gives it: its own
\* and the entry's dependencies and those of the menus, ifs and choices around
\* it, whatever the simplification made of them and whichever submenu the entry
\* was moved into.
ConditionsHold(k, raw) ==
  \A v \in MenuAssignments(k) : \A i \in 1..Len(raw.props) :
    LET p == raw.props[i]
    IN AsSeen(k, p.menu, MenuValue(k, v, k.props[i].vis))
         = AsSeen(k, p.menu, And(Written(k, v, p.vis), WrittenDep(k, raw, v, p.menu)))
ConditionsAsWritten == phase = "parsed" => ConditionsHold(km, Raw)

\* The reverse dependencies collected from all the selects of a symbol are y
\* exactly when one of the selecting symbols is set and its condition holds; a
\* choice that must be answered is itself kept from n while it is visible.
Selectors(k, s, type) == { i \in 1..Len(k.props) :
                             k.props[i].type = type /\ k.props[i].expr = <<"sym", s>> }
SelectedBy(k, v, s, type) ==
  { And(v[k.props[i].sym], MenuValue(k, v, k.props[i].vis)) : i \in Selectors(k, s, type) }
MustAnswer(k, v, s) ==
  { And(MenuValue(k, v, k.props[k.node[n].prompt].vis), 1) :
      n \in { n \in DOMAIN k.node : k.node[n].sym = s /\ s \notin k.optional /\ k.node[n].prompt # 0 } }
Greatest(S) == IF 2 \in S THEN 2 ELSE IF 1 \in S THEN 1 ELSE 0
OrNull(k, v, e) == IF e = Null THEN 0 ELSE MenuValue(k, v, e)
SelectsRecorded ==
  phase = "parsed" =>
    \A v \in MenuAssignments(km) : \A s \in Defined(km) :
      /\ OrNull(km, v, km.rev[s]) = Greatest(SelectedBy(km, v, s, "select") \cup MustAnswer(km, v, s))
      /\ OrNull(km, v, km.imp[s]) = Greatest(SelectedBy(km, v, s, "imply"))

\* An entry that was moved into the submenu of a symbol cannot be visible while
\* neither the symbol is set nor its prompt can be reached.
SubmenuReachable ==
  phase = "parsed" =>
    \A n \in DOMAIN km.node :
      LET p == km.node[n].parent
      IN p \notin {NoNode, Root} /\ km.node[p].sym # "" /\ ~IsChoice(km, p) =>
           \A v \in MenuAssignments(km) :
             MenuValue(km, v, PromptDep(km, n)) # 0 =>
               \/ v[km.node[p].sym] # 0
               \/ MenuValue(km, v, PromptDep(km, p)) # 0

\* Which symbols s is computed from, a choice and its values being one: what a
\* value needs of its own choice does not count.
Group(k, s) == IF s \in k.values THEN ChoiceOf(k, s) ELSE s
Edges(k) ==
  { <<Group(k, s), Group(k, t)>> :
      <<s, t>> \in { x \in Defined(k) \X Defined(k) :
                       /\ x[2] \in ToSet(CheckedSymbols(k, x[1]))
                       /\ ~(x[1] \in k.values /\ x[2] = ChoiceOf(k, x[1])) } }
RECURSIVE Reaches(_, _, _)
Reaches(E, S, n) == IF n = 0 THEN S ELSE Reaches(E, S \cup { e[2] : e \in { e \in E : e[1] \in S } }, n - 1)
Cyclic(E, N) == \E e \in E : e[1] \in Reaches(E, {e[2]}, N)

\* conf_parse refuses a set of files exactly when a symbol's value would depend
\* on itself, through however many dependencies, selects, defaults and choices.
RecursionRefused ==
  /\ phase = "parsed" => ~Cyclic(Edges(km), Cardinality(Defined(km)))
  /\ phase = "refused" /\ ~km.errs /\ km.menu = Root =>
       Cyclic(Edges(km), Cardinality(Defined(km)))
=============================================================================
