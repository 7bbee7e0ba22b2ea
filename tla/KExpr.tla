------------------------------- MODULE KExpr -------------------------------
(***************************************************************************)
(* The dependency expressions of the configuration tool                    *)
(* (scripts/kconfig/expr.c): how the parser builds them, how they are      *)
(* simplified before they are used, compared, evaluated and printed.       *)
(*                                                                         *)
(* An expression is a tuple whose first element is the node's type:        *)
(*   <<"null">>               the NULL pointer, which means y              *)
(*   <<"sym", s>>             E_SYMBOL                                     *)
(*   <<"not", e>>             E_NOT                                        *)
(*   <<"and", l, r>>, <<"or", l, r>>                                       *)
(*   <<c, s1, s2>>            a comparison, c one of Comparisons           *)
(*   <<"range", s1, s2>>      E_RANGE                                      *)
(* Copies (expr_copy) and releases (expr_free) are those of values.  The   *)
(* simplifications change trees in place while two pointers walk them,     *)
(* sometimes both inside the same tree: a pointer is a path into a tree,   *)
(* and two pointers are equal when the paths are.                          *)
(*                                                                         *)
(* Tristates are 0, 1, 2 for n, m, y.  A string value is an integer that   *)
(* keeps the order of strcmp on the strings that occur: -1 is the empty    *)
(* string, a digit is itself, Str_m < Str_n < Str_y are the letters and    *)
(* names of symbols that are not defined come last.                        *)
(***************************************************************************)
EXTENDS Integers, Sequences, FiniteSets

CONSTANTS
  ExprLeaves,     \* the leaves the parser may meet: symbols and comparisons
  ExprType,       \* the type of every symbol that occurs in them
  MaxLeaves,      \* leaves of the expressions that are enumerated
  MaxNots         \* negations of the expressions that are enumerated

VARIABLES
  exprs,          \* the parser's stack of expressions
  leaves,         \* leaves read so far
  nots            \* negations read so far

exprVars == <<exprs, leaves, nots>>

ASSUME ExprBounds == MaxLeaves \in Nat \ {0} /\ MaxNots \in Nat

Str_empty == -1
Str_m == 101
Str_n == 102
Str_y == 103
Str_name == 200

Null == <<"null">>
Comparisons == {"eq", "ne", "lt", "le", "gt", "ge"}
Junctions == {"and", "or"}

expr_alloc_symbol(s) == <<"sym", s>>
expr_alloc_one(t, e) == <<t, e>>
expr_alloc_two(t, l, r) == <<t, l, r>>
expr_alloc_comp(c, s1, s2) == <<c, s1, s2>>
expr_alloc_and(l, r) == IF l = Null THEN r ELSE IF r = Null THEN l ELSE <<"and", l, r>>
expr_alloc_or(l, r) == IF l = Null THEN r ELSE IF r = Null THEN l ELSE <<"or", l, r>>

Yes == expr_alloc_symbol("y")
No == expr_alloc_symbol("n")
expr_is_yes(e) == e \in {Null, Yes}

\* The subtree at path p of t (positions 2 and 3 are left and right), and t
\* with that subtree replaced.
RECURSIVE At(_, _)
At(t, p) == IF p = <<>> THEN t ELSE At(t[Head(p)], Tail(p))

RECURSIVE Put(_, _, _)
Put(t, p, x) == IF p = <<>> THEN x ELSE [t EXCEPT ![Head(p)] = Put(@, Tail(p), x)]

----------------------------------------------------------------------------
(* Simplification.                                                         *)

RECURSIVE expr_eliminate_yn(_)
\* A junction of l and r whose operands are already reduced.
JoinYn(t, l, r) ==
  LET absorbing == IF t = "and" THEN No ELSE Yes
      neutral == IF t = "and" THEN Yes ELSE No
  IN IF l = absorbing THEN absorbing
     ELSE IF l = neutral THEN r
     ELSE IF r = absorbing THEN absorbing
     ELSE IF r = neutral THEN l
     ELSE <<t, l, r>>
expr_eliminate_yn(e) ==
  IF e[1] \in Junctions
  THEN JoinYn(e[1], expr_eliminate_yn(e[2]), expr_eliminate_yn(e[3]))
  ELSE e

RECURSIVE eliminate_eq(_, _, _, _), expr_eq(_, _)
\* __expr_eliminate_eq: st.t holds both trees, p1 and p2 point into it.
eliminate_eq(type, st, p1, p2) ==
  LET a == At(st.t, p1)
      b == At(st.t, p2)
      unit == IF type = "or" THEN No ELSE Yes
  IN IF a[1] = type
     THEN eliminate_eq(type, eliminate_eq(type, st, p1 \o <<2>>, p2), p1 \o <<3>>, p2)
     ELSE IF b[1] = type
     THEN eliminate_eq(type, eliminate_eq(type, st, p1, p2 \o <<2>>), p1, p2 \o <<3>>)
     ELSE IF (a = b /\ a \in {Yes, No}) \/ ~expr_eq(a, b) THEN st
     ELSE [t |-> Put(Put(st.t, p1, unit), p2, unit), n |-> st.n + 1]

\* Both expressions without the operands they share, as a pair.
SecondEq(p) ==
  IF p[2][1] # p[3][1] /\ p[3][1] \in Junctions
  THEN eliminate_eq(p[3][1], [t |-> p, n |-> 0], <<2>>, <<3>>).t
  ELSE p
ReducePair(p) == <<"pair", expr_eliminate_yn(p[2]), expr_eliminate_yn(p[3])>>
expr_eliminate_eq(a, b) ==
  IF a = Null \/ b = Null THEN <<"pair", a, b>>
  ELSE ReducePair(SecondEq(
         IF a[1] \in Junctions
         THEN eliminate_eq(a[1], [t |-> <<"pair", a, b>>, n |-> 0], <<2>>, <<3>>).t
         ELSE <<"pair", a, b>>))

SameSymbol(p) == p[2][1] = "sym" /\ p[3] = p[2]
expr_eq(a, b) ==
  IF a = Null \/ b = Null THEN expr_is_yes(a) /\ expr_is_yes(b)
  ELSE IF a[1] # b[1] THEN FALSE
  ELSE IF a[1] = "not" THEN expr_eq(a[2], b[2])
  ELSE IF a[1] \in Junctions THEN SameSymbol(expr_eliminate_eq(a, b))
  ELSE a = b

\* bool FOO!=n is FOO (also for a tristate FOO: used where m counts as y).
RECURSIVE expr_trans_bool(_, _)
IsSetTest(ty, e) == e[1] = "ne" /\ ty[e[2]] = "tristate" /\ e[3] = "n"
expr_trans_bool(ty, e) ==
  IF e[1] \in Junctions
  THEN <<e[1], expr_trans_bool(ty, e[2]), expr_trans_bool(ty, e[3])>>
  ELSE IF e[1] = "not" THEN <<"not", expr_trans_bool(ty, e[2])>>
  ELSE IF IsSetTest(ty, e)
  THEN expr_alloc_symbol(e[2])
  ELSE e

\* What both joins ask of their operands before they look at the values: two
\* simple tests of one bool or tristate symbol.  The symbol, or "".
JoinedSymbol(ty, a, b) ==
  LET plain == {"eq", "ne", "sym"}
      s1 == IF a[1] = "not" THEN IF a[2][1] \in plain THEN a[2][2] ELSE ""
            ELSE IF a[1] \in plain THEN a[2] ELSE ""
      s2 == IF b[1] = "not" THEN IF b[2][1] = "sym" THEN b[2][2] ELSE ""
            ELSE IF b[1] \in plain THEN b[2] ELSE ""
  IN IF s1 # "" /\ s1 = s2 /\ ty[s1] \in {"bool", "tristate"} THEN s1 ELSE ""

Other(x, y) == CHOOSE z \in {"y", "m", "n"} : z \notin {x, y}

\* e1 || e2 as one expression, or Null when it is not simpler.
JoinOr(ty, s, a, b) ==
  IF s = "" THEN Null
  ELSE IF ty[s] = "tristate" /\ a[1] = "eq" /\ b[1] = "eq" /\ a[3] # b[3]
          /\ {a[3], b[3]} \subseteq {"y", "m", "n"}
  THEN expr_alloc_comp("ne", s, Other(a[3], b[3]))
  ELSE IF ty[s] = "bool" /\ {a, b} = {<<"sym", s>>, <<"not", <<"sym", s>>>>}
  THEN Yes
  ELSE Null
expr_join_or(ty, a, b) ==
  IF expr_eq(a, b) THEN a ELSE JoinOr(ty, JoinedSymbol(ty, a, b), a, b)

\* e1 && e2 as one expression, or Null when it is not simpler.
Consts == {"y", "m", "n"}
JoinAnd(ty, s, a, b) ==
  LET one(x, y) == {a, b} = {x, y}
      sym == <<"sym", s>>
  IN IF s = "" THEN Null
     ELSE IF one(sym, <<"eq", s, "y">>) THEN <<"eq", s, "y">>
     ELSE IF one(sym, <<"ne", s, "n">>) THEN sym
     ELSE IF one(sym, <<"ne", s, "m">>) THEN <<"eq", s, "y">>
     ELSE IF ty[s] # "tristate" THEN Null
     ELSE IF {a[1], b[1]} = {"eq", "ne"} /\ {a[3], b[3]} \subseteq Consts
     THEN IF a[3] = b[3] THEN No ELSE IF a[1] = "eq" THEN a ELSE b
     ELSE IF a[1] = "ne" /\ b[1] = "ne" /\ a[3] # b[3] /\ {a[3], b[3]} \subseteq Consts
     THEN <<"eq", s, Other(a[3], b[3])>>
     ELSE Null
expr_join_and(ty, a, b) ==
  IF expr_eq(a, b) THEN a ELSE JoinAnd(ty, JoinedSymbol(ty, a, b), a, b)

RECURSIVE expr_eliminate_dups1(_, _, _, _, _)
\* Joins the operands at p1 and p2 of the junction: the first becomes the
\* neutral element, the second what both amount to.
JoinAt(type, st, p1, p2, joined) ==
  IF joined = Null THEN st
  ELSE [t |-> Put(Put(st.t, p1, IF type = "or" THEN No ELSE Yes), p2, joined),
        n |-> st.n + 1]
JoinLeaves(ty, type, st, p1, p2) ==
  JoinAt(type, st, p1, p2,
         IF type = "or" THEN expr_join_or(ty, At(st.t, p1), At(st.t, p2))
                        ELSE expr_join_and(ty, At(st.t, p1), At(st.t, p2)))
expr_eliminate_dups1(ty, type, st, p1, p2) ==
  LET a == At(st.t, p1)
      b == At(st.t, p2)
  IN IF a[1] = type
     THEN expr_eliminate_dups1(ty, type,
            expr_eliminate_dups1(ty, type, st, p1 \o <<2>>, p2), p1 \o <<3>>, p2)
     ELSE IF b[1] = type
     THEN expr_eliminate_dups1(ty, type,
            expr_eliminate_dups1(ty, type, st, p1, p2 \o <<2>>), p1, p2 \o <<3>>)
     ELSE IF p1 = p2 THEN st
     ELSE JoinLeaves(ty, type,
            IF a[1] \in Junctions THEN expr_eliminate_dups1(ty, a[1], st, p1, p1) ELSE st,
            p1, p2)

RECURSIVE expr_eliminate_dups(_, _), DupsPass(_, _)
DupsPass(ty, st) ==
  IF st.n = 0 THEN st.t ELSE expr_eliminate_dups(ty, expr_eliminate_yn(st.t))
expr_eliminate_dups(ty, e) ==
  IF e[1] \notin Junctions THEN e
  ELSE DupsPass(ty, expr_eliminate_dups1(ty, e[1], [t |-> e, n |-> 0], <<>>, <<>>))

Negated == [eq |-> "ne", ne |-> "eq", lt |-> "ge", le |-> "gt", gt |-> "le", ge |-> "lt"]

SameJunction(t) == t
DeMorgan(t) == IF t = "or" THEN "and" ELSE "or"

RECURSIVE expr_transform(_, _), TransformNot(_, _)
\* A test of a boolean symbol needs no comparison.
TransformCompare(ty, e) ==
  LET sym == expr_alloc_symbol(e[2])
      same == e[1] = "eq"
  IN IF e[1] \notin {"eq", "ne"} \/ ty[e[2]] # "bool" THEN e
     ELSE IF e[3] = "n" THEN IF same THEN <<"not", sym>> ELSE sym
     ELSE IF e[3] = "m" THEN IF same THEN No ELSE Yes
     ELSE IF e[3] = "y" THEN IF same THEN sym ELSE <<"not", sym>>
     ELSE e
\* Negation of a transformed expression, moved towards the leaves.
TransformNot(ty, c) ==
  IF c[1] = "not" THEN expr_transform(ty, c[2])
  ELSE IF c[1] \in Comparisons THEN <<Negated[c[1]], c[2], c[3]>>
  ELSE IF c[1] \in Junctions
  THEN expr_transform(ty, <<DeMorgan(c[1]), <<"not", c[2]>>, <<"not", c[3]>>>>)
  ELSE IF c = Yes THEN No
  ELSE IF c = No THEN Yes
  ELSE IF c = <<"sym", "m">> THEN c
  ELSE <<"not", c>>
expr_transform(ty, e) ==
  IF e[1] \in Junctions
  THEN <<e[1], expr_transform(ty, e[2]), expr_transform(ty, e[3])>>
  ELSE IF e[1] = "not" THEN TransformNot(ty, expr_transform(ty, e[2]))
  ELSE IF e[1] \in Comparisons THEN TransformCompare(ty, e)
  ELSE e

\* Symbol tests made explicit: e compared with the constant s.
RECURSIVE expr_trans_compare(_, _, _)
JunctionKept(t, s) == t
ComparedJunction(t, s) == IF s = "y" THEN t ELSE IF t = "and" THEN "or" ELSE "and"
MaybeNot(type, e) == IF type = "ne" THEN <<"not", e>> ELSE e
expr_trans_compare(e, type, s) ==
  IF e = Null THEN MaybeNot(type, expr_alloc_symbol(s))
  ELSE IF e[1] \in Junctions
  THEN MaybeNot(type,
         IF s = "m" THEN e
         ELSE <<ComparedJunction(e[1], s),
                expr_trans_compare(e[2], "eq", s), expr_trans_compare(e[3], "eq", s)>>)
  ELSE IF e[1] = "not"
  THEN expr_trans_compare(e[2], IF type = "eq" THEN "ne" ELSE "eq", s)
  ELSE IF e[1] = "sym" THEN expr_alloc_comp(type, e[2], s)
  ELSE IF s = "m" THEN IF type = "eq" THEN No ELSE Yes
  ELSE IF (type = "eq") = (s = "y") THEN e
  ELSE <<"not", e>>

RECURSIVE expr_contains_symbol(_, _), expr_depends_symbol(_, _)
expr_contains_symbol(e, s) ==
  CASE e[1] \in Junctions -> expr_contains_symbol(e[2], s) \/ expr_contains_symbol(e[3], s)
    [] e[1] = "not" -> expr_contains_symbol(e[2], s)
    [] e[1] = "sym" -> e[2] = s
    [] e[1] \in Comparisons -> s \in {e[2], e[3]}
    [] OTHER -> FALSE
expr_depends_symbol(e, s) ==
  CASE e[1] = "and" -> expr_depends_symbol(e[2], s) \/ expr_depends_symbol(e[3], s)
    [] e[1] = "sym" -> e[2] = s
    [] e[1] = "eq" -> e[2] = s /\ e[3] \in {"y", "m"}
    [] e[1] = "ne" -> e[2] = s /\ e[3] = "n"
    [] OTHER -> FALSE

----------------------------------------------------------------------------
(* Evaluation.  ty, tri and str give every symbol's type, tristate value   *)
(* and string value.                                                       *)

Or(a, b) == IF a > b THEN a ELSE b
And(a, b) == IF a < b THEN a ELSE b

\* expr_parse_string: the number a value stands for, where it is one.
IsNumber(t, v) == t \in {"bool", "tristate"} \/ v \in 0..99
NumberOf(t, v) ==
  IF t \notin {"bool", "tristate"} THEN v
  ELSE CASE v = Str_n -> 0 [] v = Str_m -> 1 [] v = Str_y -> 2 [] OTHER -> -1

\* The sign of the comparison of two symbols' values.
CompareValues(t1, v1, t2, v2) ==
  IF ~(t1 = "string" /\ t2 = "string") /\ IsNumber(t1, v1) /\ IsNumber(t2, v2)
  THEN NumberOf(t1, v1) - NumberOf(t2, v2)
  ELSE v1 - v2

Truth(c, res) ==
  LET holds == CASE c = "eq" -> res = 0 [] c = "ne" -> res # 0
                 [] c = "lt" -> res < 0 [] c = "le" -> res <= 0
                 [] c = "gt" -> res > 0 [] c = "ge" -> res >= 0
  IN IF holds THEN 2 ELSE 0

RECURSIVE expr_calc_value(_, _, _, _)
expr_calc_value(e, ty, tri, str) ==
  CASE e = Null -> 2
    [] e[1] = "sym" -> tri[e[2]]
    [] e[1] = "and" -> And(expr_calc_value(e[2], ty, tri, str), expr_calc_value(e[3], ty, tri, str))
    [] e[1] = "or" -> Or(expr_calc_value(e[2], ty, tri, str), expr_calc_value(e[3], ty, tri, str))
    [] e[1] = "not" -> 2 - expr_calc_value(e[2], ty, tri, str)
    [] e[1] \in Comparisons ->
         Truth(e[1], CompareValues(ty[e[2]], str[e[2]], ty[e[3]], str[e[3]]))
    [] OTHER -> 0

\* The symbols an expression reads, in the order it reads them.
RECURSIVE ExprSymbols(_)
ExprSymbols(e) ==
  CASE e[1] \in Junctions -> ExprSymbols(e[2]) \o ExprSymbols(e[3])
    [] e[1] = "not" -> ExprSymbols(e[2])
    [] e[1] = "sym" -> <<e[2]>>
    [] e[1] \in Comparisons -> <<e[2], e[3]>>
    [] OTHER -> <<>>

----------------------------------------------------------------------------
(* Printing, and the grammar that reads what was printed.                  *)

\* expr_compare_type(prev, t) > 0: prev binds tighter than t, so that t is
\* put into parentheses.
Weaker == [eq |-> {"not", "and", "or"}, ne |-> {"not", "and", "or"},
           lt |-> {"eq", "ne", "not", "and", "or"}, le |-> {"eq", "ne", "not", "and", "or"},
           gt |-> {"eq", "ne", "not", "and", "or"}, ge |-> {"eq", "ne", "not", "and", "or"},
           not |-> {"and", "or"}, and |-> {"or"}, or |-> {}, none |-> {}]
expr_compare_type(prev, t) == t \in Weaker[prev]

RECURSIVE expr_print(_, _)
Parenthesised(inside, tokens) == IF inside THEN <<"(">> \o tokens \o <<")">> ELSE tokens
expr_print(e, prev) ==
  Parenthesised(expr_compare_type(prev, e[1]),
    CASE e = Null -> <<"y">>
      [] e[1] = "sym" -> <<e[2]>>
      [] e[1] = "not" -> <<"!">> \o expr_print(e[2], "not")
      [] e[1] \in Comparisons -> <<e[2], e[1], e[3]>>
      [] e[1] \in Junctions -> expr_print(e[2], e[1]) \o <<e[1]>> \o expr_print(e[3], e[1])
      [] OTHER -> <<"[", e[2], e[3], "]">>)

\* The grammar's expr: || and && group to the left, && binds tighter, ! and
\* the comparisons tighter still.  The result is the expression and the
\* tokens that are left.
RECURSIVE ParseOr(_), ParseAnd(_), ParseUnary(_), MoreOr(_), MoreAnd(_)
ParseUnary(ts) ==
  CASE Head(ts) = "!" -> LET r == ParseUnary(Tail(ts)) IN <<<<"not", r[1]>>, r[2]>>
    [] Head(ts) = "(" -> LET r == ParseOr(Tail(ts)) IN <<r[1], Tail(r[2])>>
    [] Len(ts) > 2 /\ ts[2] \in Comparisons ->
         <<expr_alloc_comp(ts[2], ts[1], ts[3]), SubSeq(ts, 4, Len(ts))>>
    [] OTHER -> <<expr_alloc_symbol(Head(ts)), Tail(ts)>>
MoreAnd(r) ==
  IF r[2] # <<>> /\ Head(r[2]) = "and"
  THEN LET q == ParseUnary(Tail(r[2])) IN MoreAnd(<<expr_alloc_two("and", r[1], q[1]), q[2]>>)
  ELSE r
ParseAnd(ts) == MoreAnd(ParseUnary(ts))
MoreOr(r) ==
  IF r[2] # <<>> /\ Head(r[2]) = "or"
  THEN LET q == ParseAnd(Tail(r[2])) IN MoreOr(<<expr_alloc_two("or", r[1], q[1]), q[2]>>)
  ELSE r
ParseOr(ts) == MoreOr(ParseAnd(ts))

----------------------------------------------------------------------------
(* The parser's reductions build the expressions.                          *)

TopOf(s) == s[Len(s)]
Below(s, k) == SubSeq(s, 1, Len(s) - k)

ReadLeaf ==
  /\ leaves < MaxLeaves
  /\ \E l \in ExprLeaves : exprs' = Append(exprs, l)
  /\ leaves' = leaves + 1
  /\ UNCHANGED nots

ReduceNot ==
  /\ exprs # <<>> /\ nots < MaxNots
  /\ exprs' = Append(Below(exprs, 1), expr_alloc_one("not", TopOf(exprs)))
  /\ nots' = nots + 1
  /\ UNCHANGED leaves

ReduceJunction ==
  /\ Len(exprs) > 1
  /\ \E t \in Junctions :
       exprs' = Append(Below(exprs, 2), expr_alloc_two(t, exprs[Len(exprs) - 1], TopOf(exprs)))
  /\ UNCHANGED <<leaves, nots>>

ExprInit == exprs = <<>> /\ leaves = 0 /\ nots = 0
ExprNext == ReadLeaf \/ ReduceNot \/ ReduceJunction
ExprSpec == ExprInit /\ [][ExprNext]_exprVars

----------------------------------------------------------------------------
(* Properties.                                                             *)

ExprSyms == DOMAIN ExprType
\* Every assignment of the symbols: two values for a bool, three for a
\* tristate; the constants stand for themselves.
Assignments ==
  { v \in [ExprSyms -> 0..2] :
      /\ v["y"] = 2 /\ v["m"] = 1 /\ v["n"] = 0
      /\ \A s \in ExprSyms : ExprType[s] = "bool" => v[s] # 1 }
Letter(t) == CASE t = 0 -> Str_n [] t = 1 -> Str_m [] t = 2 -> Str_y
ValueUnder(v, e) ==
  expr_calc_value(e, ExprType, v, [s \in ExprSyms |-> Letter(v[s])])

\* The negations of a transformed expression stand before symbols only.
RECURSIVE NotsAtLeaves(_)
NotsAtLeaves(e) ==
  CASE e[1] \in Junctions -> NotsAtLeaves(e[2]) /\ NotsAtLeaves(e[3])
    [] e[1] = "not" -> e[2][1] = "sym"
    [] OTHER -> TRUE

Parsed == Len(exprs) = 1
Simplified(e) == expr_eliminate_dups(ExprType, expr_transform(ExprType, e))

\* Type correctness of the parser's stack.
ExprTypeOK ==
  /\ leaves \in 0..MaxLeaves /\ nots \in 0..MaxNots /\ Len(exprs) \in 0..MaxLeaves

\* A dependency means the same after the simplifications menu_finalize puts it
\* through: expr_transform, which moves negations to the leaves and drops
\* comparisons of bools, and expr_eliminate_dups, which joins operands in place
\* while it walks the tree with two pointers, leave its value under every
\* assignment.
SameMeaning(e, x, s) ==
  /\ NotsAtLeaves(x)
  /\ \A v \in Assignments :
       /\ ValueUnder(v, x) = ValueUnder(v, e)
       /\ ValueUnder(v, s) = ValueUnder(v, e)
SimplifyKeepsValue ==
  Parsed => SameMeaning(exprs[1], expr_transform(ExprType, exprs[1]), Simplified(exprs[1]))

\* expr_trans_bool also rewrites tests of tristates, for which FOO!=n and FOO
\* differ when FOO is m; a bool symbol, for which m counts as y, still sees the
\* same dependency.
SameForBool(s, b) ==
  \A v \in Assignments : (ValueUnder(v, b) = 0) <=> (ValueUnder(v, s) = 0)
BoolSeesSame ==
  Parsed => SameForBool(Simplified(exprs[1]), expr_trans_bool(ExprType, Simplified(exprs[1])))

\* expr_trans_compare(e, E_UNEQUAL, n) is y exactly where e is not n, as long
\* as no symbol is m (a negation is compared as if it were two-valued).
TruthMadeExplicit ==
  Parsed => \A v \in Assignments :
      (\A s \in ExprSyms \ {"m"} : v[s] # 1) /\ ~expr_contains_symbol(exprs[1], "m") =>
        ValueUnder(v, expr_trans_compare(exprs[1], "ne", "n"))
          = (IF ValueUnder(v, exprs[1]) = 0 THEN 0 ELSE 2)

\* What menu_finalize concludes from the helpers holds: a dependency that
\* expr_depends_symbol reports is false while the symbol is n, expressions that
\* expr_eq calls equal have the same value, and when expr_eliminate_eq leaves
\* nothing of the second expression the first one implies it.
Implied(a, b) == \A v \in Assignments : ValueUnder(v, a) <= ValueUnder(v, b)
ConclusionsSound ==
  /\ Parsed => \A s \in ExprSyms \ Consts :
       expr_depends_symbol(exprs[1], s) =>
         \A v \in Assignments : v[s] = 0 => ValueUnder(v, exprs[1]) = 0
  /\ Len(exprs) = 2 =>
       /\ expr_eq(exprs[1], exprs[2]) => Implied(exprs[1], exprs[2]) /\ Implied(exprs[2], exprs[1])
       /\ expr_is_yes(expr_eliminate_eq(exprs[1], exprs[2])[3]) => Implied(exprs[1], exprs[2])

\* An expression that is printed reads back as one with the same value: the
\* parentheses expr_print sets are the ones the grammar's precedences need.
ReadsBack(e, r) == r[2] = <<>> /\ \A v \in Assignments : ValueUnder(v, r[1]) = ValueUnder(v, e)
PrintParses == Parsed => ReadsBack(exprs[1], ParseOr(expr_print(exprs[1], "none")))

\* Rewriting an expression keeps its value.
ExpressionsKept ==
    /\ ExprTypeOK /\ SimplifyKeepsValue /\ BoolSeesSame /\ TruthMadeExplicit
    /\ ConclusionsSound /\ PrintParses
=============================================================================
