------------------------------- MODULE MCLibs -------------------------------
(***************************************************************************)
(* The libraries: digests, the public-key coprocessor, the allocator, and  *)
(* the lists, strings, options, output and configuration files of libc and *)
(* lib.  They share no state; a behaviour is one of them.                  *)
(***************************************************************************)
EXTENDS Engines, Malloc, LinkedList, Libc

VARIABLE lib        \* which library runs

textVars == <<listVars, getoptVars, strVars, stdioVars, iniVars>>
vars == <<lib, hashVars, pkaVars, malVars, textVars>>

NoCall == [fn |-> "none", items |-> <<>>, size |-> 0]

Init ==
    /\ lib \in {"hash", "pka", "malloc", "list", "getopt", "string", "stdio", "ini"}
    /\ HashInit /\ PkaInit /\ MalInit /\ ListInit
    /\ IF lib = "pka" THEN TRUE
       ELSE conf = (CHOOSE c \in Configs : TRUE) /\ image = (CHOOSE i \in FwImages : TRUE)
    /\ gconf \in IF lib = "getopt" THEN GetoptConfigs ELSE {CHOOSE c \in GetoptConfigs : TRUE}
    /\ gorig \in IF lib = "getopt" THEN CommandLines ELSE {<<>>}
    /\ GetoptStart
    /\ smem \in IF lib = "string" THEN Memories ELSE {<<>>}
    /\ scall = <<>>
    /\ pcall \in IF lib = "stdio" THEN [Printers -> PrintCalls] ELSE {[p \in Printers |-> NoCall]}
    /\ pready \in IF lib = "stdio" THEN BOOLEAN ELSE {TRUE}
    /\ StdioStart
    /\ idoc \in IF lib = "ini" THEN Documents ELSE {<<>>}
    /\ ini_parse_string

HashDoes(A) == lib = "hash" /\ A /\ UNCHANGED <<lib, pkaVars, malVars, textVars>>
PkaDoes(A) == lib = "pka" /\ A /\ UNCHANGED <<lib, hashVars, malVars, textVars>>
MalDoes(A) == lib = "malloc" /\ A /\ UNCHANGED <<lib, hashVars, pkaVars, textVars>>
ListDoes(A) == /\ lib = "list" /\ A
               /\ UNCHANGED <<lib, hashVars, pkaVars, malVars, getoptVars, strVars, stdioVars, iniVars>>
GetoptDoes(A) == /\ lib = "getopt" /\ A
                 /\ UNCHANGED <<lib, hashVars, pkaVars, malVars, listVars, strVars, stdioVars, iniVars>>
StrDoes(A) == /\ lib = "string" /\ A
              /\ UNCHANGED <<lib, hashVars, pkaVars, malVars, listVars, getoptVars, stdioVars, iniVars>>
StdioDoes(A) == /\ lib = "stdio" /\ A
                /\ UNCHANGED <<lib, hashVars, pkaVars, malVars, listVars, getoptVars, strVars, iniVars>>
IniDoes(A) == /\ lib = "ini" /\ A
              /\ UNCHANGED <<lib, hashVars, pkaVars, malVars, listVars, getoptVars, strVars, stdioVars>>

Next == \/ HashDoes(HashNext) \/ PkaDoes(PkaNext) \/ MalDoes(MalNext) \/ ListDoes(ListNext)
        \/ GetoptDoes(GetoptNext) \/ StrDoes(StrNext) \/ StdioDoes(StdioNext) \/ IniDoes(IniNext)

Spec == Init /\ [][Next]_vars /\ WF_vars(PkaDoes(PkaDriver)) /\ WF_vars(PkaDoes(EngineEnds))

\* Every verification ends (PkaCallsEnd).
VerifyEnds == PkaCallsEnd

\* The hash and public-key engines compute over exactly what they were given.
EnginesExact ==
    /\ HashTypeOK /\ Sha256OfMessage /\ Sm3OfMessage
    /\ PkaTypeOK /\ FirmwareInside /\ OperandsExact /\ VerifiedMeansMatch
    /\ GoodRsaVerifies /\ SemaphoreFree

\* The functions of the C library and the parsers return what they promise:
\* getopt, string and number functions, printf, ini_parse.
LibcExact ==
    /\ GetoptTypeOK /\ OptionsExact /\ CallsAdvance
    /\ SearchExact /\ CopyExact /\ NumberExact
    /\ StdioTypeOK /\ InOnePiece /\ SnprintfExact /\ TextWhole /\ NumbersExact
    /\ IniTypeOK /\ DocumentExact

\* malloc gives up only without a chunk to give, and a verification ends.
LibCallsEnd == GivesUpOnlyIfFull /\ VerifyEnds

-----------------------------------------------------------------------------
(* Firmware and keys.                                                      *)
Sec(t, o, n, a) == [type |-> t, off |-> o, size |-> n, align |-> a, ent |-> IF t = "symtab" THEN 4 ELSE 0, link |-> 4, tag |-> TRUE]
Whole == [header |-> TRUE, len |-> 60, shoff |-> 4, ended |-> TRUE, rommatch |-> TRUE, funcs |-> Functions,
          secs |-> <<Sec("progbits", 20, 16, 4), Sec("nobits", 0, 8, 4), Sec("symtab", 36, 16, 4), Sec("strtab", 52, 8, 1)>>]
SomeImages == {
    Whole,
    [Whole EXCEPT !.secs[2] = Sec("progbits", 36, 16, 4)],
    [Whole EXCEPT !.secs[2] = Sec("progbits", 36, 16, 4), !.rommatch = FALSE],
    [Whole EXCEPT !.secs[1] = Sec("progbits", 4, 32, 4), !.secs[2] = Sec("progbits", 40, 12, 4), !.secs[3].size = 28, !.len = 64],
    [Whole EXCEPT !.secs[1] = Sec("progbits", 48, 16, 4)],
    [Whole EXCEPT !.secs[1] = Sec("progbits", 20, 15, 4)],
    [Whole EXCEPT !.secs[1] = Sec("progbits", 4, 48, 4)],
    [Whole EXCEPT !.secs[2] = Sec("progbits", 36, 16, 4), !.secs[4].size = 24, !.len = 76],
    [Whole EXCEPT !.len = 16], [Whole EXCEPT !.secs[4].type = "none"],
    [Whole EXCEPT !.funcs = Functions \ {"calc_mp"}]}
SomeConfigs == {[ecc |-> 16, rsa |-> 32, ram |-> 16, rom |-> 8], [ecc |-> 8, rsa |-> 32, ram |-> 8, rom |-> 16]}
K(a, n, g) == [alg |-> a, size |-> n, good |-> g]
SomeKeys == {K("rsa", 32, TRUE), K("rsa", 31, TRUE), K("rsa", 8, TRUE), K("rsa", 32, FALSE), K("sm2", 16, TRUE)}

-----------------------------------------------------------------------------
(* Command lines, calls of printf and the lines of conf.ini.               *)
SomeShorts == [a |-> "no", b |-> "required", c |-> "optional"]
SomeLongs == <<[name |-> <<"a", "x">>, has_arg |-> "no", val |-> "X"], [name |-> <<"a", "y">>, has_arg |-> "required", val |-> "Y"],
               [name |-> <<"a">>, has_arg |-> "optional", val |-> "A"]>>
SomeParsers == {[ordering |-> o, colon |-> o = "require", only |-> o # "require", short |-> SomeShorts, long |-> SomeLongs] :
                  o \in {"permute", "in_order", "require"}}
SomeWords == {<<"v">>, <<"w">>, <<"-", "a", "c">>, <<"-", "b">>, <<"-", "-">>, <<"-", "a", "z">>, <<"-", "-", "a", "y">>,
              <<"+", "a", "y", "=", "v">>, <<"-", "-", "a", "=", "x">>}

Lit(c) == [conv |-> "lit", arg |-> c, width |-> 0, flags |-> {}, long |-> FALSE]
Num(c, v, w, f) == [conv |-> c, arg |-> v, width |-> w, flags |-> f, long |-> FALSE]
Txt(s, w) == [conv |-> "s", arg |-> s, width |-> w, flags |-> {}, long |-> FALSE]
PrintCall(f, its, n) == [fn |-> f, items |-> its, size |-> n]
SomeCalls ==
  {PrintCall("printf", <<Lit("a"), Num("d", -7, 4, {"zero"}), Lit("\n")>>, 0),
   PrintCall("printf", <<Lit("a"), Lit("b"), Lit("c"), Lit("\n"), Lit("e"), Lit("f"), Lit("g"), Lit("h"), Lit("i")>>, 0),
   PrintCall("printf", <<Txt(<<"x", "y">>, 9), Lit("q")>>, 0),
   PrintCall("puts", <<Txt(<<"x", "y">>, 0)>>, 0), PrintCall("putchar", <<Lit("\n")>>, 0)}
  \cup {PrintCall("snprintf", <<Num("u", -7, 3, {"right"}), Num("x", -1, 4, {}), [Num("d", 12, 0, {}) EXCEPT !.long = TRUE],
                               Num("x", 3, 0, {"alternate"}), Num("q", 3, 0, {}), Lit("z")>>, n) : n \in {0, 1, 5, 20}}

Part(i, c, a) == [indented |-> i, cont |-> c, alone |-> a]
PairOf(n, v) == [kind |-> "pair", name |-> n, value |-> v]
NothingThere == [kind |-> "nothing"]
WrongThere == [kind |-> "wrong"]
Line(t, p) == [text |-> t, parts |-> p]
SomeIniLines == {
  Line(<<"[", "s", "]", "\n">>, <<Part(FALSE, <<>>, [kind |-> "section", name |-> <<"s">>])>>),
  Line(<<"[", "t", "u", "v", "]", " ", "x", "\n">>, <<Part(FALSE, <<>>, [kind |-> "section", name |-> <<"t", "u", "v">>])>>),
  Line(<<"[", "s", " ", ";", "]", "\n">>, <<Part(FALSE, <<>>, WrongThere)>>),
  Line(<<"a", " ", "=", " ", "b", " ", ";", "c", "\n">>, <<Part(FALSE, <<>>, PairOf(<<"a">>, <<"b">>))>>),
  Line(<<"a", ":", ";", "=", "b", "\r">>, <<Part(FALSE, <<>>, PairOf(<<"a">>, <<";", "=", "b">>))>>),
  Line(<<"l", "o", "n", "g", "=", "\n">>, <<Part(FALSE, <<>>, PairOf(<<"l", "o", "n", "g">>, <<>>))>>),
  Line(<<" ", "q", "=", "b", ";", "\t", "\n">>, <<Part(TRUE, <<<<"q", "=", "b", ";">>>>, PairOf(<<"q">>, <<"b", ";">>))>>),
  Line(<<" ", ";", "q", "\n">>, <<Part(TRUE, <<>>, NothingThere)>>),
  Line(<<" ", "c", " ", ";", "\n">>, <<Part(TRUE, <<<<"c">>>>, WrongThere)>>),
  Line(<<" ", "\r", "\n">>, <<Part(TRUE, <<>>, NothingThere), Part(TRUE, <<>>, NothingThere)>>),
  Line(<<"a", "=", "0", "1", "2", "3", "4", "5", "6", " ", "d", "=", "e", "\n">>,
       <<Part(FALSE, <<>>, PairOf(<<"a">>, <<"0", "1", "2", "3", "4", "5", "6">>)),
         Part(TRUE, <<<<"d", "=", "e">>>>, PairOf(<<"d">>, <<"e">>))>>) }
SomeRefused == {<<"q">>, <<"d">>}
=============================================================================
