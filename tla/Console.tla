------------------------------- MODULE Console -------------------------------
(***************************************************************************)
(* The command line: the consoles of lib/cli/console.c, the loop in        *)
(* lib/cli/cli.c that waits for a key and then pumps every console, and    *)
(* the serial ports below them.                                            *)
(*                                                                         *)
(* A character is one of a few classes the code tells apart.  A console is *)
(* a state machine that is pumped: a call reads at most PumpLimit          *)
(* characters and returns when the port has none, so a line, a word or an  *)
(* escape sequence may be cut anywhere.                                    *)
(***************************************************************************)
EXTENDS Naturals, Sequences, FiniteSets, SequencesExt

CONSTANTS
    Consoles,       \* the serial ports, in registration order: a sequence
    Chars,          \* the classes of characters that are typed
    Commands,       \* cli_command table: a set of one-word names
    ExitName,       \* the one whose callback is command_exit
    LineSize,       \* arg_line_size
    MaxArgc,        \* max_argc
    CsSize,         \* CS_BUFFER_SIZE
    PumpLimit,      \* characters a pump reads
    RxMax           \* bound: characters a port holds that are not yet read

Eof == "EOF"

ASSUME ConsoleAssumption ==
    /\ LineSize \in Nat \ {0} /\ MaxArgc \in Nat \ {0} /\ CsSize \in Nat \ {0}
    /\ PumpLimit \in Nat \ {0} /\ RxMax \in Nat \ {0}
    /\ Eof \notin Chars /\ Commands \subseteq Seq(Chars)

Ports == {Consoles[i] : i \in 1 .. Len(Consoles)}

VARIABLES
    rx,             \* what each port holds for input
    con,            \* struct console of each port
    phase,          \* cli_loop: "wait", "run", "left" by exit, "timeout"
    meant,          \* history: what was typed, as the user means it
    ran             \* history: the last line run, and the one that was meant

conVars == <<rx, con, phase, meant, ran>>

Blank == {" "}
Printable == {"j", "A", "[", "1", " "}          \* above 0x1F
EndsEscape == {"A"}                             \* 0x40 - 0x5F, '[' apart
EndsSequence == {"j", "A", "["}                 \* 0x40 - 0x7E

NoLine == [argv |-> <<>>, words |-> <<>>]

\* A console as console_alloc_console leaves it; cs is cs_write_index.
NewConsole == [state |-> "start", line |-> <<>>, cs |-> 0, snoop |-> Eof]

-----------------------------------------------------------------------------
(* A pump works on a frame: the console, the port's input, the calls it    *)
(* has made, and whether the loop has been left.                           *)

\* term_getc_raw: the snooped character first, then the port.
NextChar(f) ==
    IF f.c.snoop # Eof THEN f.c.snoop ELSE IF f.rx = <<>> THEN Eof ELSE Head(f.rx)

Taken(f) ==
    IF f.c.snoop # Eof THEN [f EXCEPT !.c.snoop = Eof]
    ELSE IF f.rx = <<>> THEN f ELSE [f EXCEPT !.rx = Tail(@)]

\* Mutant: ESC is not put back for the escape state.
InputCharNoSnoop(f, ch) ==
    CASE ch = "CR" -> [f EXCEPT !.c.state = "parse", !.stop = TRUE]
      [] ch = "BS" -> [f EXCEPT !.c.line = IF @ = <<>> THEN @ ELSE Front(@)]
      [] ch = "ESC" -> [f EXCEPT !.c.cs = 0, !.c.state = "escape"]
      [] ch \in Printable /\ Len(f.c.line) < LineSize -> [f EXCEPT !.c.line = Append(@, ch)]
      [] OTHER -> f

\* state_read_input, one character.  The loop is not left after ESC: the
\* character that is put back is read again until the limit.
InputChar(f, ch) ==
    CASE ch = "CR" -> [f EXCEPT !.c.state = "parse", !.stop = TRUE]
      [] ch = "BS" -> [f EXCEPT !.c.line = IF @ = <<>> THEN @ ELSE Front(@)]
      [] ch = "ESC" -> [f EXCEPT !.c.snoop = ch, !.c.cs = 0, !.c.state = "escape"]
      [] ch \in Printable /\ Len(f.c.line) < LineSize -> [f EXCEPT !.c.line = Append(@, ch)]
      [] OTHER -> f

\* state_read_escape_sequence, one character.  A sequence that does not fit
\* is dropped, and the character that did not fit is read as input.
EscapeChar(f, ch) ==
    LET index == f.c.cs
        Done(g, s) == [g EXCEPT !.c.state = s, !.stop = TRUE]
        kept == [f EXCEPT !.c.cs = @ + 1]
    IN  CASE ch = "CAN" -> Done([f EXCEPT !.c.cs = 0], "input")
          [] index >= CsSize /\ ch # "CAN" -> Done([f EXCEPT !.c.cs = 0, !.c.snoop = ch], "input")
          [] index = 1 /\ index < CsSize /\ ch \in EndsEscape -> Done(kept, "parse_escape")
          [] index > 1 /\ index < CsSize /\ ch \in EndsSequence -> Done(kept, "parse_escape")
          [] OTHER -> kept

\* The two reading loops.
ReadLoop(f0, Char(_, _)) ==
    LET loop[i \in 0 .. PumpLimit] ==
           IF i = 0 THEN f0
           ELSE LET f == loop[i - 1] IN
                IF f.stop THEN f
                ELSE IF NextChar(f) = Eof THEN [f EXCEPT !.stop = TRUE]
                ELSE Char(Taken(f), NextChar(f))
    IN  loop[PumpLimit]

\* find_first_non_whitesapce and find_fist_whitespace: where the words of a
\* line begin, and its words.
WordStarts(line) ==
    {i \in 1 .. Len(line) : line[i] \notin Blank /\ (i = 1 \/ line[i - 1] \in Blank)}

WordAt(line, i) ==
    LET ends == {j \in i .. Len(line) : \A k \in i .. j : line[k] \notin Blank}
    IN  SubSeq(line, i, CHOOSE j \in ends : \A k \in ends : k <= j)

Words(line) ==
    LET starts == SetToSortSeq(WordStarts(line), <)
    IN  [n \in 1 .. Len(starts) |-> WordAt(line, starts[n])]

\* The argument vector: the first max_argc words.
Argv(line) ==
    LET w == Words(line) IN SubSeq(w, 1, IF Len(w) < MaxArgc THEN Len(w) ELSE MaxArgc)

\* locate_command.
Located(argv) == argv[1] \in Commands

-----------------------------------------------------------------------------
(* What a console promises, said of the characters alone: how they are     *)
(* edited into lines, whatever the reads they arrive in.                   *)

\* line is being edited, esc characters of an escape sequence have been
\* typed, and the lines in due have been entered and not run.
NothingTyped == [line |-> <<>>, esc |-> 0, due |-> <<>>]

LineChar(s, ch) ==
    CASE ch = "CR" -> [s EXCEPT !.due = Append(@, Words(s.line)), !.line = <<>>]
      [] ch = "BS" -> [s EXCEPT !.line = IF @ = <<>> THEN @ ELSE Front(@)]
      [] ch = "ESC" -> [s EXCEPT !.esc = 1]
      [] ch \in Printable /\ Len(s.line) < LineSize -> [s EXCEPT !.line = Append(@, ch)]
      [] OTHER -> s

TypedChar(s, ch) ==
    CASE s.esc = 0 -> LineChar(s, ch)
      [] s.esc > 0 /\ ch = "CAN" -> [s EXCEPT !.esc = 0]
      [] s.esc = CsSize /\ ch # "CAN" -> LineChar([s EXCEPT !.esc = 0], ch)
      [] s.esc = 1 /\ s.esc < CsSize /\ ch # "CAN" -> [s EXCEPT !.esc = IF ch \in EndsEscape THEN 0 ELSE 2]
      [] s.esc > 1 /\ s.esc < CsSize /\ ch # "CAN" -> [s EXCEPT !.esc = IF ch \in EndsSequence THEN 0 ELSE @ + 1]

-----------------------------------------------------------------------------
Frame(p) == [c |-> con[p], rx |-> rx[p], stop |-> FALSE]

Pumped(p, f) ==
    /\ rx' = [rx EXCEPT ![p] = f.rx]
    /\ con' = [con EXCEPT ![p] = f.c]
    /\ UNCHANGED meant

\* state_start_new_command: an empty line, the prompt.
state_start_new_command(p) ==
    /\ con[p].state = "start"
    /\ con' = [con EXCEPT ![p].line = <<>>, ![p].state = "input"]
    /\ ran' = [ran EXCEPT ![p] = NoLine]
    /\ UNCHANGED <<rx, phase, meant>>

state_read_input(p) ==
    /\ con[p].state = "input"
    /\ rx[p] # <<>> \/ con[p].snoop # Eof
    /\ Pumped(p, ReadLoop(Frame(p), InputChar))
    /\ UNCHANGED <<phase, ran>>

state_read_escape_sequence(p) ==
    /\ con[p].state = "escape"
    /\ rx[p] # <<>> \/ con[p].snoop # Eof
    /\ Pumped(p, ReadLoop(Frame(p), EscapeChar))
    /\ UNCHANGED <<phase, ran>>

\* state_parse_escape_sequence_ansi: a stub.
state_parse_escape_sequence_ansi(p) ==
    /\ con[p].state = "parse_escape"
    /\ con' = [con EXCEPT ![p].state = "input"]
    /\ UNCHANGED <<rx, phase, meant, ran>>

\* state_parse_input: split, look up, call.  The exit command clears run;
\* the loop in cli_loop looks at it after all consoles have been pumped.
state_parse_input(p) ==
    /\ con[p].state = "parse"
    /\ con' = [con EXCEPT ![p].state = "start"]
    /\ LET argv == Argv(con[p].line) IN
          phase' = IF argv # <<>> /\ Located(argv) /\ argv[1] = ExitName THEN "left" ELSE phase
    /\ ran' = [ran EXCEPT ![p] = [argv |-> Argv(con[p].line), words |-> Head(meant[p].due)]]
    /\ meant' = [meant EXCEPT ![p].due = Tail(@)]
    /\ UNCHANGED rx

\* console_pump_console.
console_pump_console(p) ==
    /\ phase = "run"
    /\ \/ state_start_new_command(p)
       \/ state_read_input(p)
       \/ state_read_escape_sequence(p)
       \/ state_parse_escape_sequence_ansi(p)
       \/ state_parse_input(p)

\* cli_loop's wait: a character is read from each port in turn, up to the
\* first 'j'.
WaitForKey ==
    LET keyed == {i \in 1 .. Len(Consoles) : rx[Consoles[i]] # <<>> /\ Head(rx[Consoles[i]]) = "j"}
        last == IF keyed = {} THEN Len(Consoles) ELSE CHOOSE i \in keyed : \A k \in keyed : i <= k
        read == {Consoles[i] : i \in 1 .. last}
        Rest(s) == IF s = <<>> THEN s ELSE Tail(s)
    IN  /\ phase = "wait"
        /\ \E p \in read : rx[p] # <<>>
        /\ rx' = [p \in Ports |-> IF p \in read THEN Rest(rx[p]) ELSE rx[p]]
        /\ meant' = [p \in Ports |-> FoldLeft(TypedChar, NothingTyped, rx'[p])]
        /\ phase' = IF keyed = {} THEN phase ELSE "run"
        /\ UNCHANGED <<con, ran>>

\* The wait ends without a key.
WaitTimeout ==
    /\ phase = "wait"
    /\ phase' = "timeout"
    /\ UNCHANGED <<rx, con, meant, ran>>

\* The user types.
Type(p, ch) ==
    /\ Len(rx[p]) < RxMax
    /\ phase \in {"wait", "run"}
    /\ rx' = [rx EXCEPT ![p] = Append(@, ch)]
    /\ meant' = [meant EXCEPT ![p] = TypedChar(@, ch)]
    /\ UNCHANGED <<con, phase, ran>>

\* cli_init: a console for each port; cli_loop is called with or without a
\* wait.
ConInit ==
    /\ rx = [p \in Ports |-> <<>>]
    /\ con = [p \in Ports |-> NewConsole]
    /\ phase \in {"wait", "run"}
    /\ meant = [p \in Ports |-> NothingTyped]
    /\ ran = [p \in Ports |-> NoLine]

ConNext ==
    \/ WaitForKey \/ WaitTimeout
    \/ \E p \in Ports : console_pump_console(p) \/ \E ch \in Chars : Type(p, ch)

ConSpec == ConInit /\ [][ConNext]_conVars

\* cli_loop pumps every console again and again.
ConFairSpec == ConSpec /\ \A p \in Ports : WF_conVars(console_pump_console(p))

-----------------------------------------------------------------------------
\* All of it has been read, and no line waits to be parsed.
Settled(p) == con[p].state \in {"input", "escape"} /\ con[p].snoop = Eof /\ rx[p] = <<>>

\* No write goes beyond arg_line, which has one byte more than arg_line_size for
\* the terminator, nor beyond cs_buffer.
BuffersHold(p) ==
    /\ rx[p] \in Seq(Chars) /\ Len(rx[p]) <= RxMax
    /\ con[p].line \in Seq(Chars) /\ Len(con[p].line) <= LineSize
    /\ con[p].cs \in 0 .. CsSize
    /\ con[p].snoop \in Chars \cup {Eof}

\* The commands a console runs are a function of what was typed at it, not of
\* where the reads cut it: each line that is run has the words that were meant,
\* as many as argv holds, and when everything has been read nothing is due and
\* the console holds the line that is being edited.  The buffers hold it all.
CommandsAsTyped ==
    \A p \in Ports :
       /\ BuffersHold(p)
       /\ IsPrefix(ran[p].argv, ran[p].words)
       /\ Len(ran[p].argv) = IF Len(ran[p].words) < MaxArgc THEN Len(ran[p].words) ELSE MaxArgc
       /\ Settled(p) => meant[p] = [line |-> con[p].line, due |-> <<>>,
                                    esc |-> IF con[p].state = "escape" THEN con[p].cs ELSE 0]

\* A line that has been entered is run, however much is typed after it, unless
\* the loop is left: state_parse_input is followed by state_start_new_command.
EnteredLineRuns ==
    \A p \in Ports : (phase = "run" /\ meant[p].due # <<>>) ~> (phase = "left" \/ con[p].state = "start")
==============================================================================
