------------------------------- MODULE KBuild -------------------------------
(***************************************************************************)
(* The configuration files on disk and the objects built from them.  The   *)
(* front ends save .config (conf_write) and, during a build, syncconfig    *)
(* brings auto.conf, autoconf.h and one empty file per symbol up to date   *)
(* (conf_write_autoconf, confdata.c).  fixdep replaces the dependency of   *)
(* every object on autoconf.h by the files of the symbols its sources name *)
(* (scripts/basic/fixdep.c), so make rebuilds what a change can affect.    *)
(* The tools may be killed between any two steps.                          *)
(*                                                                         *)
(* make is external: it runs syncconfig when auto.conf is older than       *)
(* .config or a Kconfig file, rebuilds an object that is older than one of *)
(* its prerequisites, and removes the target of an interrupted recipe.     *)
(* Values of symbols: None, 0 to 2 for n, m, y, and numbers from 3 on.     *)
(* The headings, tristate.conf and auto.conf.cmd, written along with the   *)
(* files modelled here, are left out.                                      *)
(***************************************************************************)
EXTENDS Integers

CONSTANTS
  BSyms,        \* the symbols
  BNumeric,     \* those that are ints
  BValues,      \* values a symbol is given
  BFiles,       \* source files and headers
  Objects,      \* what is built
  FilesOf,      \* the files the compiler reads for an object
  Texts,        \* what a file may say: sets of words <<symbol, _MODULE?>>
  Defaults,     \* what the Kconfig files may say: the default of every symbol
  MaxChanges,   \* edits
  MaxKills      \* interruptions

VARIABLES
  config, old,  \* .config, .config.old: value of the symbols, time
  auto, header, \* auto.conf with its time, autoconf.h
  touched,      \* time of include/config/<symbol>.h, 0 if there is none
  kdef,         \* the Kconfig files, with their time
  text,         \* the source files, with their times
  obj, cmd,     \* the objects and their .cmd files
  job,          \* the tool that is running
  answers,      \* the configuration last saved
  clock, changes, kills

buildVars == <<config, old, auto, header, touched, kdef, text, obj, cmd, job, answers,
               clock, changes, kills>>

ASSUME BuildBounds ==
  /\ MaxChanges \in Nat /\ MaxKills \in Nat
  /\ BNumeric \subseteq BSyms /\ FilesOf \in [Objects -> SUBSET BFiles]

None == -1
Absent == [val |-> [s \in BSyms |-> None], time |-> 0]
NoObject == [seen |-> {}, text |-> {}, time |-> 0]
NoCmd == [files |-> {}, syms |-> {}]
Idle == [at |-> "idle", val |-> Absent.val, todo |-> {}, sync |-> FALSE, of |-> {}]
Later == clock + 1

----------------------------------------------------------------------------
(* Values.                                                                 *)

\* What the symbols are, given the answers: a symbol the Kconfig files do not
\* define has no value, one without an answer its default.
Effective(cfg, def) ==
  [s \in BSyms |-> IF def[s] = None \/ cfg[s] = None THEN def[s] ELSE cfg[s]]

\* auto.conf leaves out n; so does autoconf.h, and what it defines for m is the
\* word with _MODULE.
AutoConf(v) == [s \in BSyms |-> IF v[s] = 0 /\ s \notin BNumeric THEN None ELSE v[s]]
header_print_symbol(v, w) ==
  IF w[1] \in BNumeric THEN v[w[1]]
  ELSE IF v[w[1]] = (IF w[2] THEN 1 ELSE 2) THEN 1 ELSE None

\* conf_touch_deps: the file of a symbol is touched unless its value is the one
\* in auto.conf.
MustTouchPresent(s, new) == new[s] # None /\ new[s] # auto.val[s]
MustTouch(s, new) ==
  IF new[s] # None
  THEN IF auto.val[s] # None THEN new[s] # auto.val[s]
       ELSE s \in BNumeric \/ new[s] # 0
  ELSE auto.val[s] # None

----------------------------------------------------------------------------
(* fixdep.                                                                 *)

\* parse_config_file: the symbols named by the words, _MODULE cut off.
parse_config_file(words) == { w[1] : w \in words }
Words(o) == UNION { text[f].words : f \in FilesOf[o] }
parse_dep_file(o) == [files |-> FilesOf[o], syms |-> parse_config_file(Words(o))]

\* What the compiler makes of an object's files and of autoconf.h.
Compiled(o, v) ==
  [seen |-> { <<w, header_print_symbol(v, w)>> : w \in Words(o) },
   text |-> { <<f, text[f].words>> : f \in FilesOf[o] }]

----------------------------------------------------------------------------
BuildInit ==
  /\ config = Absent /\ old = Absent /\ auto = Absent /\ header = Absent.val
  /\ touched = [s \in BSyms |-> 0]
  /\ \E d \in Defaults : kdef = [val |-> d, time |-> 1]
  /\ \E t \in [BFiles -> Texts] : text = [f \in BFiles |-> [words |-> t[f], time |-> 1]]
  /\ obj = [o \in Objects |-> NoObject] /\ cmd = [o \in Objects |-> NoCmd]
  /\ job = Idle /\ answers = {}
  /\ clock = 1 /\ changes = 0 /\ kills = 0

Resting == job.at \in {"idle", "done"}
built == <<config, old, auto, header, touched, obj, cmd, answers>>

\* Somebody changes a source file or the Kconfig files.
EditFile ==
  /\ Resting /\ changes < MaxChanges
  /\ \E f \in BFiles, t \in Texts :
       t # text[f].words /\ text' = [text EXCEPT ![f] = [words |-> t, time |-> Later]]
  /\ clock' = Later /\ changes' = changes + 1 /\ job' = Idle
  /\ UNCHANGED <<built, kdef, kills>>
EditKconfig ==
  /\ Resting /\ changes < MaxChanges
  /\ \E d \in Defaults : d # kdef.val /\ kdef' = [val |-> d, time |-> Later]
  /\ clock' = Later /\ changes' = changes + 1 /\ job' = Idle
  /\ UNCHANGED <<built, text, kills>>

\* A front end reads .config, changes an answer and saves.
Reconfigure ==
  /\ Resting /\ changes < MaxChanges
  /\ \E s \in BSyms, v \in BValues :
       /\ (s \in BNumeric) = (v > 2)
       /\ LET new == [Effective(config.val, kdef.val) EXCEPT ![s] = IF kdef.val[s] = None THEN None ELSE v]
          IN job' = [Idle EXCEPT !.at = "save", !.val = new]
  /\ changes' = changes + 1
  /\ UNCHANGED <<built, text, kdef, clock, kills>>

\* make: syncconfig first if auto.conf is out of date.  Without a .config it
\* stops.
OutOfDate == auto.time < config.time \/ auto.time < kdef.time
Make ==
  /\ job.at = "idle" /\ config.time # 0
  /\ job' = IF OutOfDate
            THEN [Idle EXCEPT !.at = "save", !.val = Effective(config.val, kdef.val), !.sync = TRUE]
            ELSE [Idle EXCEPT !.at = "build"]
  /\ UNCHANGED <<built, text, kdef, clock, changes, kills>>

\* conf_write: a .config that says the same is left alone; otherwise it becomes
\* .config.old, and then the new file gets its name.
AfterSave(j) ==
  IF j.sync \/ auto.time = 0 THEN [j EXCEPT !.at = "touch", !.todo = BSyms] ELSE Idle
is_same(v) == config.time # 0 /\ config.val = v
SaveSame ==
  /\ job.at = "save" /\ is_same(job.val)
  /\ job' = AfterSave(job)
  /\ UNCHANGED <<built, text, kdef, clock, changes, kills>>
SaveOld ==
  /\ job.at = "save" /\ ~is_same(job.val)
  /\ old' = IF config.time = 0 THEN old ELSE config
  /\ config' = Absent
  /\ job' = [job EXCEPT !.at = "swap"]
  /\ UNCHANGED <<auto, header, touched, obj, cmd, answers, text, kdef, clock, changes, kills>>
SaveNew ==
  /\ job.at = "swap"
  /\ config' = [val |-> job.val, time |-> Later] /\ clock' = Later
  /\ answers' = {job.val}
  /\ job' = AfterSave(job)
  /\ UNCHANGED <<old, auto, header, touched, obj, cmd, text, kdef, changes, kills>>

\* conf_write_autoconf.  A symbol's file is made anew, with its directory.
conf_touch_dep(s) == touched' = [touched EXCEPT ![s] = Later] /\ clock' = Later
TouchDep ==
  /\ job.at = "touch" /\ job.todo # {}
  /\ \E s \in job.todo :
       /\ job' = [job EXCEPT !.todo = @ \ {s}]
       /\ IF MustTouch(s, job.val)
          THEN conf_touch_dep(s)
          ELSE UNCHANGED <<touched, clock>>
  /\ UNCHANGED <<config, old, auto, header, obj, cmd, answers, text, kdef, changes, kills>>
WriteHeader ==
  /\ job.at = "touch" /\ job.todo = {}
  /\ header' = job.val
  /\ job' = [job EXCEPT !.at = "auto"]
  /\ UNCHANGED <<config, old, auto, touched, obj, cmd, answers, text, kdef, clock, changes, kills>>
WriteAuto ==
  /\ job.at = "auto"
  /\ auto' = [val |-> AutoConf(job.val), time |-> Later] /\ clock' = Later
  /\ job' = IF job.sync THEN [Idle EXCEPT !.at = "build"] ELSE Idle
  /\ UNCHANGED <<config, old, header, touched, obj, cmd, answers, text, kdef, changes, kills>>

\* if_changed_dep: an object is built again when there is none, when its .cmd
\* file is missing, or when a prerequisite is newer.
NeedsBuild(o) ==
  \/ obj[o].time = 0 \/ cmd[o] = NoCmd
  \/ \E f \in cmd[o].files : text[f].time > obj[o].time
  \/ \E s \in cmd[o].syms : touched[s] > obj[o].time

\* cmd_and_fixdep: compile, then write the .cmd file.
Compile ==
  /\ job.at = "build"
  /\ \E o \in Objects :
       /\ NeedsBuild(o)
       /\ obj' = [obj EXCEPT ![o] = [seen |-> Compiled(o, header).seen,
                                     text |-> Compiled(o, header).text, time |-> Later]]
       /\ job' = [job EXCEPT !.at = "fixdep", !.of = {o}]
  /\ clock' = Later
  /\ UNCHANGED <<config, old, auto, header, touched, cmd, answers, text, kdef, changes, kills>>
FixDep ==
  /\ job.at = "fixdep"
  /\ cmd' = [o \in Objects |-> IF o \in job.of THEN parse_dep_file(o) ELSE cmd[o]]
  /\ job' = [job EXCEPT !.at = "build", !.of = {}]
  /\ UNCHANGED <<config, old, auto, header, touched, obj, answers, text, kdef, clock, changes, kills>>
Built ==
  /\ job.at = "build" /\ \A o \in Objects : ~NeedsBuild(o)
  /\ job' = [Idle EXCEPT !.at = "done"]
  /\ UNCHANGED <<built, text, kdef, clock, changes, kills>>

\* The tool is killed; what it had not yet renamed is lost, and make removes the
\* object whose recipe was running.
Kill ==
  /\ ~Resting /\ kills < MaxKills
  /\ kills' = kills + 1
  /\ obj' = [o \in Objects |-> IF o \in job.of THEN NoObject ELSE obj[o]]
  /\ job' = Idle
  /\ UNCHANGED <<config, old, auto, header, touched, cmd, answers, text, kdef, clock, changes>>

BuildNext ==
  \/ EditFile \/ EditKconfig \/ Reconfigure \/ Make
  \/ SaveSame \/ SaveOld \/ SaveNew
  \/ TouchDep \/ WriteHeader \/ WriteAuto
  \/ Compile \/ FixDep \/ Built \/ Kill
BuildSpec == BuildInit /\ [][BuildNext]_buildVars

----------------------------------------------------------------------------
(* Properties.                                                             *)

\* auto.conf is renamed last and marks the completion of the steps before: when
\* it is not older than .config and the Kconfig files, it and autoconf.h hold
\* the values these give, however often earlier runs were killed.
AutoMarksCompletion ==
  config.time # 0 /\ ~OutOfDate =>
    LET v == Effective(config.val, kdef.val) IN header = v /\ auto.val = AutoConf(v)

\* Dependencies on symbols lose nothing: an object that would come out otherwise
\* from the present files and configuration is one that make builds again.
StaleIsSeen ==
  config.time # 0 /\ ~OutOfDate =>
    \A o \in Objects :
      \/ NeedsBuild(o) \/ o \in job.of
      \/ LET c == Compiled(o, Effective(config.val, kdef.val))
         IN obj[o].seen = c.seen /\ obj[o].text = c.text

\* The configuration last saved is never lost: it is .config, or .config.old
\* while a new one is being saved or after that was interrupted.
AnswersKept ==
  \A v \in answers : (config.time # 0 /\ config.val = v) \/ (old.time # 0 /\ old.val = v)

\* What is built agrees with the configuration it was built from.
BuildSound == AutoMarksCompletion /\ StaleIsSeen /\ AnswersKept
=============================================================================
