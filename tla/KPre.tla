-------------------------------- MODULE KPre --------------------------------
(***************************************************************************)
(* Variables and functions in Kconfig files (scripts/kconfig/preprocess.c):*)
(* X := text is expanded where it stands, X = text where X is used,        *)
(* X += text as X was.  $(f,a,b) calls a variable or a built-in function   *)
(* with arguments; a name that is neither is looked up in the environment, *)
(* and the variables looked up there are remembered for auto.conf.cmd      *)
(* (env_write_dep), which makes syncconfig run again when they change.     *)
(*                                                                         *)
(* Text is a sequence of characters, and the scanning of parentheses and   *)
(* commas is that of the code.  Names of built-in functions are single     *)
(* characters here.  An expansion threads a record:                        *)
(*   vars  the variables;  env  env_list;  count  exp_count per variable   *)
(*   ok    FALSE once pperror has ended the program                        *)
(*   freed the variable whose value variable_add has freed, or not yet set *)
(*   wild  such a value was read                                           *)
(***************************************************************************)
EXTENDS Integers, Sequences, SequencesExt

CONSTANTS
  PreAssignments, \* the assignments a Kconfig file may hold: <<name, op, tree>>
  Uses,         \* the texts that are expanded elsewhere, as trees
  Environment,  \* the environment: a function of names
  ShellOutput,  \* what the shell prints for a command, a function of texts
  ShellBuf,     \* sizeof(buf) of do_shell
  MaxDepth,     \* the limit on exp_count
  MaxAssigned   \* assignments read

VARIABLES pre,      \* the record, between two statements
          assigned  \* assignments so far
preVars == <<pre, assigned>>

ASSUME PreBounds == MaxAssigned \in Nat /\ MaxDepth \in Nat \ {0} /\ ShellBuf \in Nat \ {0}

Functions_ == [error_if |-> 2, info |-> 1, lineno |-> 0, shell |-> 1]
FunctionOf(name) ==
  CASE name = <<"e">> -> "error_if" [] name = <<"i">> -> "info"
    [] name = <<"l">> -> "lineno" [] name = <<"s">> -> "shell" [] OTHER -> ""

Fails(x) == <<[x EXCEPT !.ok = FALSE], <<>>>>

----------------------------------------------------------------------------
(* Scanning.                                                               *)

\* The nesting of parentheses before position i.
Nest(s, i) ==
  Cardinality({ j \in 1..(i - 1) : s[j] = "(" }) - Cardinality({ j \in 1..(i - 1) : s[j] = ")" })

\* The parenthesis that closes what starts at p, 0 if there is none.
Closing(s, p) ==
  LET at == { q \in p..Len(s) : s[q] = ")" /\ Nest(s, q) = Nest(s, p) }
  IN IF at = {} THEN 0 ELSE Min(at)

\* The clause cut at its outer commas.
RECURSIVE Pieces(_, _, _)
Pieces(s, prev, p) ==
  IF p > Len(s) THEN <<SubSeq(s, prev, Len(s))>>
  ELSE IF s[p] = "," /\ Nest(s, p) = 0 THEN <<SubSeq(s, prev, p - 1)>> \o Pieces(s, p + 1, p + 1)
  ELSE Pieces(s, prev, p + 1)

Digit == [d \in {"1", "2"} |-> IF d = "1" THEN 1 ELSE 2]
ArgumentNumber(s) == IF Len(s) = 1 /\ s[1] \in DOMAIN Digit THEN Digit[s[1]] ELSE 0

----------------------------------------------------------------------------
(* Expansion: every operator gives <<record, text>>.                       *)

RECURSIVE expand_string_with_args(_, _, _)

\* do_shell: at most sizeof(buf) - 1 characters, without the newlines at the
\* end, other newlines as spaces.
RECURSIVE TrimNewlines(_)
TrimNewlines(s) == IF s # <<>> /\ s[Len(s)] = "\n" THEN TrimNewlines(SubSeq(s, 1, Len(s) - 1)) ELSE s
do_shell(out) ==
  LET read == IF Len(out) >= ShellBuf THEN SubSeq(out, 1, ShellBuf - 1) ELSE out
      s == TrimNewlines(read)
  IN [i \in 1..Len(s) |-> IF s[i] = "\n" THEN " " ELSE s[i]]

function_expand(x, f, args) ==
  IF Len(args) # Functions_[f] THEN Fails(x)
  ELSE CASE f = "error_if" -> IF args[1] = <<"y">> THEN Fails(x) ELSE <<x, <<>>>>
         [] f = "info" -> <<x, <<>>>>
         [] f = "lineno" -> <<x, <<"#">>>>
         [] f = "shell" -> <<x, do_shell(IF args[1] \in DOMAIN ShellOutput
                                         THEN ShellOutput[args[1]] ELSE <<>>)>>

\* A variable is remembered the first time it is looked up.
env_expand(x, name) ==
  IF name \notin DOMAIN Environment THEN <<x, <<>>>>
  ELSE <<[x EXCEPT !.env = IF name \in ToSet(@) THEN @ ELSE Append(@, name)], Environment[name]>>

Recursed(name, r) == <<[r[1] EXCEPT !.count[name] = @ - 1], r[2]>>
variable_expand(x, name, args) ==
  IF name = x.freed THEN <<[x EXCEPT !.wild = TRUE], <<"?">>>>
  ELSE IF (args = <<>> /\ x.count[name] > 0) \/ x.count[name] > MaxDepth THEN Fails(x)
  ELSE IF x.vars[name].recursive
       THEN Recursed(name, expand_string_with_args([x EXCEPT !.count[name] = @ + 1],
                                                   x.vars[name].value, args))
       ELSE <<x, x.vars[name].value>>

Named(x, name, args) ==
  IF ~x.ok THEN <<x, <<>>>>
  ELSE IF name \in DOMAIN x.vars THEN variable_expand(x, name, args)
  ELSE IF FunctionOf(name) # "" THEN function_expand(x, FunctionOf(name), args)
  ELSE IF args = <<>> THEN env_expand(x, name)
  ELSE <<x, <<>>>>

\* The name and the arguments are expanded from left to right, then looked up.
ExpandOne(acc, s, args) ==
  LET r == expand_string_with_args(acc[1], s, args) IN <<r[1], Append(acc[2], r[2])>>
Call(r) == Named(r[1], Head(r[2]), Tail(r[2]))
eval_clause(x, s, args) ==
  LET n == ArgumentNumber(s)
  IN IF n > 0 /\ n <= Len(args) THEN <<x, args[n]>>
     ELSE Call(FoldLeft(LAMBDA acc, p : ExpandOne(acc, p, args), <<x, <<>>>>, Pieces(s, 1, 1)))

\* From position p on: <<record, text, position after it>>.
At3(r, q) == <<r[1], r[2], q>>
expand_dollar_with_args(x, s, p, args) ==
  IF p > Len(s) \/ s[p] # "(" THEN <<x, <<"$">>, p>>
  ELSE IF Closing(s, p + 1) = 0 THEN At3(Fails(x), p)
  ELSE At3(eval_clause(x, SubSeq(s, p + 1, Closing(s, p + 1) - 1), args), Closing(s, p + 1) + 1)

\* is_end_of_token: what is not a letter, a digit, _ or -.
Separators == {" ", "(", ")", ",", "\n"}
RECURSIVE expand_from(_, _, _, _, _, _)
Continue(r, s, out, args, stops) == expand_from(r[1], s, r[3], out \o r[2], args, stops)
expand_from(x, s, p, out, args, stops) ==
  IF ~x.ok \/ p > Len(s) THEN <<x, out, p>>
  ELSE IF s[p] = "$" THEN Continue(expand_dollar_with_args(x, s, p + 1, args), s, out, args, stops)
  ELSE IF s[p] \in stops THEN <<x, out, p>>
  ELSE expand_from(x, s, p + 1, Append(out, s[p]), args, stops)
expand_string_with_args(x, s, args) ==
  LET r == expand_from(x, s, 1, <<>>, args, {}) IN <<r[1], r[2]>>
expand_string(x, s) == expand_string_with_args(x, s, <<>>)

\* expand_token: the token that starts here, and the rest of the line, which
\* goes back to the lexer.
expand_one_token(x, s) ==
  LET r == expand_from(x, s, 1, <<>>, <<>>, Separators) IN <<r[1], r[2], SubSeq(s, r[3], Len(s))>>

----------------------------------------------------------------------------
(* PreAssignments.                                                            *)

Define(x, name, recursive, value) ==
  [x EXCEPT !.vars = [n \in DOMAIN @ \cup {name} |->
                        IF n = name THEN [recursive |-> recursive, value |-> value] ELSE @[n]],
            !.count = [n \in DOMAIN @ \cup {name} |-> 0]]
WithValue(name, recursive, before, r) ==
  IF r[1].ok THEN [Define(r[1], name, recursive, before \o r[2]) EXCEPT !.freed = <<>>] ELSE r[1]

\* variable_add.  += keeps the flavour of a variable that is defined, and makes
\* a recursive one of another.  The old value is freed before the new one is
\* expanded, and a new variable is in the list before it has a value: a text that
\* uses the variable it is assigned to with := reads what happens to be there.
variable_add(x, name, op, value) ==
  LET known == name \in DOMAIN x.vars
      append == known /\ op = "+="
      recursive == IF append THEN x.vars[name].recursive ELSE op # ":="
      before == IF append THEN Append(x.vars[name].value, " ") ELSE <<>>
      y == IF append THEN x ELSE [Define(x, name, recursive, <<>>) EXCEPT !.freed = name]
  IN WithValue(name, recursive, before, IF recursive THEN <<x, value>> ELSE expand_string(y, value))

----------------------------------------------------------------------------
(* Texts by structure.  A tree is a sequence of characters and references  *)
(* <<"ref", <<tree of the name, trees of the arguments>>>>.                *)

RECURSIVE Render(_), RenderAll(_)
RenderAll(trees) ==
  IF Len(trees) = 1 THEN Render(trees[1]) ELSE Render(trees[1]) \o <<",">> \o RenderAll(Tail(trees))
Render(tree) ==
  IF tree = <<>> THEN <<>>
  ELSE (IF Len(Head(tree)) = 1 THEN Head(tree)
        ELSE <<"$", "(">> \o RenderAll(Head(tree)[2]) \o <<")">>) \o Render(Tail(tree))

PreZero == [vars |-> <<>>, env |-> <<>>, count |-> <<>>, ok |-> TRUE,
            freed |-> <<>>, wild |-> FALSE]
PreInit == pre = PreZero /\ assigned = <<>>

\* An assignment; the parser passes its text on as it stands.
Assign ==
  /\ pre.ok /\ Len(assigned) < MaxAssigned
  /\ \E a \in PreAssignments :
       /\ pre' = variable_add(pre, a[1], a[2], Render(a[3]))
       /\ assigned' = Append(assigned, a)

\* A token with a reference elsewhere in the file.
Use ==
  /\ pre.ok
  /\ \E u \in Uses : pre' = expand_one_token(pre, Render(u))[1]
  /\ pre' # pre
  /\ UNCHANGED assigned

PreNext == Assign \/ Use
PreSpec == PreInit /\ [][PreNext]_preVars

----------------------------------------------------------------------------
(* Properties.                                                             *)

\* Type correctness: between statements no expansion is under way.
PreTypeOK ==
  /\ pre.ok => \A n \in DOMAIN pre.count : pre.count[n] = 0
  /\ DOMAIN pre.vars = DOMAIN pre.count /\ pre.wild \in BOOLEAN
  /\ \A i, j \in DOMAIN pre.env : pre.env[i] = pre.env[j] => i = j

\* What the assignments mean, by structure: the text of a recursive variable is
\* its trees, that of a simple one was fixed when it was assigned.  Bad stands
\* for a text that has no meaning.
Bad == <<"bad">>
\* := and += of a variable defined by :=, with an earlier definition.
Lines(name, op, n) == { i \in 1..n : assigned[i][1] = name /\ assigned[i][2] = op }
DefinedAt(name, n) ==
  LET hard == Lines(name, ":=", n) \cup Lines(name, "=", n)
  IN IF hard # {} THEN Max(hard)
     ELSE IF Lines(name, "+=", n) # {} THEN Min(Lines(name, "+=", n)) ELSE 0

RECURSIVE Meaning(_, _, _, _), ValueOf(_, _, _, _)
Cat(a, b) == IF a = Bad \/ b = Bad THEN Bad ELSE a \o b
\* The meaning of a name with arguments after n assignments; busy are the
\* variables that are being expanded.
ValueOf(name, args, n, busy) ==
  LET d == DefinedAt(name, n)
      more == { i \in Lines(name, "+=", n) : i > d }
      simple == assigned[d][2] = ":="
      RECURSIVE parts(_, _)
      parts(i, text) ==
        IF i > n THEN text
        ELSE IF i \in more \cup {d}
        THEN parts(i + 1, Cat(IF i = d THEN text ELSE Cat(text, <<" ">>),
                              IF simple THEN Meaning(assigned[i][3], <<>>, i - 1, {})
                              ELSE Meaning(assigned[i][3], args, n, busy \cup {name})))
        ELSE parts(i + 1, text)
  IN IF d # 0 THEN IF name \in busy THEN Bad ELSE parts(1, <<>>)
     ELSE IF FunctionOf(name) # "" THEN
       IF Len(args) # Functions_[FunctionOf(name)] THEN Bad
       ELSE CASE name = <<"e">> -> IF args[1] = <<"y">> THEN Bad ELSE <<>>
              [] name = <<"i">> -> <<>>
              [] name = <<"l">> -> <<"#">>
              [] name = <<"s">> ->
                   do_shell(IF args[1] \in DOMAIN ShellOutput THEN ShellOutput[args[1]] ELSE <<>>)
     ELSE IF args = <<>> /\ name \in DOMAIN Environment THEN Environment[name] ELSE <<>>
Meaning(tree, args, n, busy) ==
  IF tree = <<>> THEN <<>>
  ELSE Cat(IF Len(Head(tree)) = 1 THEN Head(tree)
           ELSE LET trees == Head(tree)[2]
                    k == ArgumentNumber(Render(trees[1]))
                    ms == [i \in 1..Len(trees) |-> Meaning(trees[i], args, n, busy)]
                IN IF Len(trees) = 1 /\ k > 0 /\ k <= Len(args) THEN args[k]
                   ELSE IF Bad \in ToSet(ms) THEN Bad ELSE ValueOf(ms[1], Tail(ms), n, busy),
           Meaning(Tail(tree), args, n, busy))

\* The expansion of a text, found by scanning parentheses and commas, is what
\* its structure means; in particular a := variable keeps what it was assigned
\* and an = variable follows later assignments.  The program stops exactly where
\* a variable would contain itself or a function is called wrongly.
ExpandsAsWritten ==
  pre # PreZero /\ pre.ok /\ ~pre.wild => \A u \in Uses :
    LET r == expand_string(pre, Render(u))
        m == Meaning(u, <<>>, Len(assigned), {})
    IN IF m = Bad THEN ~r[1].ok ELSE r[1].ok /\ r[2] = m

\* The names looked up in the environment while an assignment or a use was
\* expanded are those auto.conf.cmd will list, none missing: without a variable
\* that is not listed, all texts expand as they did.
EnvRecorded ==
  pre # PreZero /\ pre.ok => \A u \in Uses :
    LET r == expand_string(pre, Render(u))
    IN r[1].ok => \A name \in DOMAIN Environment \ ToSet(r[1].env) :
         \A w \in ToSet(r[2]) : w \notin ToSet(Environment[name])
=============================================================================
