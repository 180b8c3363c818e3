-------------------------------- MODULE Args --------------------------------
(***************************************************************************)
(* The command line: src/src/args.c, and what main and the commands of the *)
(* two programs (src/src/vm/main.c, src/src/compiler/asm/main.c) then read *)
(* from it.                                                                *)
(*                                                                         *)
(* parseCommandLineArguments_ chooses a command, walks over the arguments, *)
(* hands the value of each flag to its validator, and fills in defaults.   *)
(* An argument is a record: `--', a flag by its letter or by its name, or  *)
(* a plain text.  A text is a sequence of words; a name is a sequence of   *)
(* characters, since flags are found by a prefix of theirs.                *)
(***************************************************************************)
EXTENDS Integers, Sequences, SequencesExt

CONSTANTS Mains,      \* the programs, see below
          Globals,    \* the flags of every command: version, help
          Argvs       \* command lines, sequences of arguments

(* A program has
     commands: name -> [flags, pos], sequences of flags and of positionals,
     def:      P->def, a name in DOMAIN commands,
     bits:     the names that its cmdParseBitFlags knows,
     reads:    name -> the flags and positionals the command uses unasked. *)

Numerals == {"8", "huge"}   \* huge does not fit in 64 bits
Units == {"g", "m", "k", "b"}

NULL == <<"NULL">>          \* no text; no letter or validator is ""
NoValue == <<"NoValue">>    \* cmdNoValue

VARIABLES main,             \* the program
          argv, i, argc,    \* the arguments, the next one (from 1) and how many are left
          phase,            \* "choose", "parse", "bits", "builtins", "defaults", "main", "exit"
          cmd, choseDef,    \* the command chosen, and whether by default
          npos,             \* positional arguments seen
          vals, gvals, pos, \* values of the flags of cmd, of Globals and of the positionals
          j,                \* the flag or positional whose default is filled in
          str, dest,        \* str of cmdParseBitFlags, and the flag and the phase it is for
          result            \* what the program prints or runs: "error", "version", "usage", cmd

vars == <<main, argv, i, argc, phase, cmd, choseDef, npos, vals, gvals, pos, j, str, dest, result>>

Flags(c) == main.commands[c].flags
Positionals(c) == main.commands[c].pos
None(s) == [k \in DOMAIN s |-> NoValue]

(* The flags of a parser, and those of a command together with them, differ in
   their names and letters: the program aborts at its start if not. *)
Distinct(fs) ==
  \A k, l \in DOMAIN fs :
    k # l => fs[k].name # fs[l].name /\ (fs[k].sf = "" \/ fs[k].sf # fs[l].sf)

vmInitializeCommand(c) == Distinct(Globals \o c.flags)

ASSUME NoDuplicates ==
  /\ Distinct(Globals)
  /\ \A m \in Mains : \A c \in DOMAIN m.commands : vmInitializeCommand(m.commands[c])

IsSequence(s) == s \in Seq(ToSet(s))

(* The tables of a program are arrays, a default is a text, and P->def points
   into the table of commands. *)
ASSUME ProgramsAssumption ==
  /\ IsSequence(Globals) /\ \A a \in Argvs : IsSequence(a)
  /\ \A m \in Mains : m.def \in DOMAIN m.commands
  /\ \A m \in Mains : \A c \in DOMAIN m.commands :
       /\ IsSequence(m.commands[c].flags) /\ IsSequence(m.commands[c].pos)
       /\ \A k \in DOMAIN m.commands[c].flags :
            IsSequence(m.commands[c].flags[k].name) /\ m.commands[c].flags[k].def # NoValue

(* What a command uses unasked is declared with a default or as required; the
   help command is never run. *)
ASSUME ReadsDeclared ==
  \A m \in Mains : \A c \in DOMAIN m.commands \ {"help"} :
    /\ \A k \in m.reads[c].flags :
         /\ k \in DOMAIN m.commands[c].flags
         /\ m.commands[c].flags[k].validator = "" \/ m.commands[c].flags[k].def # <<>>
    /\ \A k \in m.reads[c].pos :
         k \in DOMAIN m.commands[c].pos /\ m.commands[c].pos[k].def = NULL

(* No global flag, and no flag declared before it, starts like the name of a
   flag without its last letter. *)
ASSUME NamesApart ==
  \A m \in Mains : \A c \in DOMAIN m.commands :
    LET fs == m.commands[c].flags IN
    \A k \in DOMAIN fs :
      LET cut == SubSeq(fs[k].name, 1, Len(fs[k].name) - 1) IN
      /\ \A l \in DOMAIN Globals : IsSequence(Globals[l].name) /\ ~ IsPrefix(cut, Globals[l].name)
      /\ \A l \in DOMAIN fs : l < k => ~ IsPrefix(cut, fs[l].name)

Init ==
  /\ main \in Mains /\ argv \in Argvs /\ i = 1 /\ argc = Len(argv)
  /\ phase = "choose" /\ cmd = main.def /\ choseDef = TRUE /\ npos = 0
  /\ vals = <<>> /\ gvals = None(Globals) /\ pos = <<>>
  /\ j = 1 /\ str = <<>> /\ dest = [k |-> 0, back |-> "parse"] /\ result = "none"

Fail == phase' = "exit" /\ result' = "error"

(* The command a text names; the empty one names the default, and NULL none. *)
cmdFindCommandByName(text) ==
  IF text = <<>> THEN {main.def}
  ELSE IF Len(text) = 1 THEN DOMAIN main.commands \cap {text[1]} ELSE {}

(* The first argument, unless it starts with `-', may be a command. *)
ChooseCommand ==
  LET found == IF argc > 0 /\ argv[1].form = "plain" THEN cmdFindCommandByName(argv[1].text) ELSE {}
      taken == IF found = {} THEN 0 ELSE 1
  IN
  /\ phase = "choose" /\ phase' = "parse"
  /\ cmd' = IF found = {} THEN main.def ELSE CHOOSE c \in found : TRUE
  /\ choseDef' = (found = {})
  /\ i' = 1 + taken /\ argc' = argc - taken
  /\ vals' = None(Flags(cmd')) /\ pos' = None(Positionals(cmd'))
  /\ UNCHANGED <<main, argv, npos, gvals, j, str, dest, result>>

First(S) == IF S = {} THEN 0 ELSE CHOOSE k \in S : \A l \in S : k <= l

(* Fault: one character of the name decides. *)
cmdFindByNameShort(fs, name, n) ==
  First({k \in DOMAIN fs : IsPrefix(SubSeq(name, 1, 1), fs[k].name)})

(* cmdFindByName: the first flag whose name starts with the first n characters
   of what was given; 0 if there is none. *)
cmdFindByName(fs, name, n) ==
  First({k \in DOMAIN fs : IsPrefix(SubSeq(name, 1, n), fs[k].name)})

cmdFindByShortFormat(fs, sf) == First({k \in DOMAIN fs : fs[k].sf = sf})

(* The flag an argument names, the global ones first.  In front of `=' the
   length of the name is taken one too short. *)
NamedIn(fs, a) ==
  IF a.form = "short" THEN cmdFindByShortFormat(fs, a.sf)
  ELSE cmdFindByName(fs, a.name, IF a.text = NULL THEN Len(a.name) ELSE Len(a.name) - 1)

Found(a) ==
  LET g == NamedIn(Globals, a) IN
  IF g # 0 THEN [table |-> "gvals", k |-> g]
  ELSE [table |-> "vals", k |-> NamedIn(Flags(cmd), a)]

FlagOf(d) == IF d.table = "gvals" THEN Globals[d.k] ELSE Flags(cmd)[d.k]

(* The whole argument as a value: an argument that is not plain starts with a
   dash, which no validator but cmdParseString accepts. *)
TextOf(a) == IF a.form = "plain" THEN a.text ELSE <<"-", "-">>

-----------------------------------------------------------------------------
(* cmdParseByteSize: a numeral, which may be missing, and at most a unit. *)
cmdParseByteSize(v) ==
  LET rest == IF v # <<>> /\ v[1] \in Numerals THEN Tail(v) ELSE v IN
  /\ v # <<>> => v[1] # "huge"
  /\ rest = <<>> \/ (Len(rest) = 1 /\ rest[1] \in Units)

Accepted(f, v) ==
  \/ f.validator = "cmdParseString"
  \/ f.validator = "cmdParseByteSize" /\ cmdParseByteSize(v)

Set(d, v) ==
  /\ vals'  = IF d.table = "vals" THEN [vals EXCEPT ![d.k] = v] ELSE vals
  /\ gvals' = IF d.table = "gvals" THEN [gvals EXCEPT ![d.k] = v] ELSE gvals
  /\ pos'   = IF d.table = "pos" THEN [pos EXCEPT ![d.k] = v] ELSE pos

(* A validator is called with v for d. *)
Validate(d, f, v) ==
  \/ /\ f.validator = "cmdParseBitFlags"
     /\ phase' = "bits" /\ str' = v /\ dest' = [k |-> d.k, back |-> phase]
     /\ UNCHANGED <<vals, gvals, pos, result>>
  \/ /\ f.validator # "cmdParseBitFlags"
     /\ IF Accepted(f, v) THEN Set(d, v) /\ UNCHANGED <<phase, result>>
        ELSE Fail /\ UNCHANGED <<vals, gvals, pos>>
     /\ UNCHANGED <<str, dest>>

Reject == Fail /\ UNCHANGED <<i, argc, npos, vals, gvals, pos, str, dest>>

Skip(s) ==
  LET k == First({l \in DOMAIN s : s[l] \notin {"|", " "}}) IN
  IF k = 0 THEN <<>> ELSE SubSeq(s, k, Len(s))

Letters(w) == IF w \in main.bits THEN 4 ELSE 1

(* Fault: the name in front of a bar is read again. *)
cmdParseBitFlagsAgain ==
  LET r == Skip(str) IN
  /\ phase = "bits"
  /\ \/ (\E k \in DOMAIN r : r[k] = "|") /\ str' = r /\ UNCHANGED <<phase, vals>>
     \/ /\ ~ \E k \in DOMAIN r : r[k] = "|"
        /\ phase' = dest.back /\ vals' = [vals EXCEPT ![dest.k] = <<"bits">>] /\ UNCHANGED str
  /\ UNCHANGED <<main, argv, i, argc, cmd, choseDef, npos, gvals, pos, j, dest, result>>

(* One turn of the loop of cmdParseBitFlags: the name in front of the next bar,
   without blanks.  It compares the end of the name with its start to find out
   that it is empty, so a name of one letter is never left behind. *)
cmdParseBitFlags ==
  LET r == Skip(str)
      bar == First({k \in DOMAIN r : r[k] = "|"})
      end == IF bar = 0 THEN Len(r) ELSE CHOOSE k \in 1 .. bar - 1 :
                 r[k] # " " /\ \A l \in k + 1 .. bar - 1 : r[l] = " "
      known == end = 1 /\ r[1] \in main.bits
      stays == bar # 0 /\ end = 1 /\ Letters(r[1]) = 1
  IN
  /\ phase = "bits"
  /\ \/ stays /\ str' = r /\ UNCHANGED <<phase, vals, result>>
     \/ ~ stays /\ known /\ bar # 0
        /\ str' = SubSeq(r, bar, Len(r)) /\ UNCHANGED <<phase, vals, result>>
     \/ ~ stays /\ known /\ bar = 0
        /\ phase' = dest.back /\ vals' = [vals EXCEPT ![dest.k] = <<"bits">>]
        /\ UNCHANGED <<str, result>>
     \/ ~ stays /\ ~ known /\ Fail /\ UNCHANGED <<str, vals>>
  /\ UNCHANGED <<main, argv, i, argc, cmd, choseDef, npos, gvals, pos, j, dest>>

-----------------------------------------------------------------------------
Parsing(forms) ==
  phase = "parse" /\ argc > 0 /\ argv[i].form \in forms /\ UNCHANGED <<main, argv, cmd, choseDef, j>>

Consume(n) == i' = i + n /\ argc' = argc - n

(* cmdParseCommandArguments: `--' ends the arguments of the program. *)
ParseMarker ==
  /\ Parsing({"marker"})
  /\ Consume(1) /\ phase' = "builtins"
  /\ UNCHANGED <<npos, vals, gvals, pos, str, dest, result>>

(* A plain argument is the next positional one.  All of them are texts. *)
ParsePositional ==
  /\ Parsing({"plain"})
  /\ \/ npos >= Len(Positionals(cmd)) /\ Reject
     \/ /\ npos < Len(Positionals(cmd))
        /\ Set([table |-> "pos", k |-> npos + 1], argv[i].text)
        /\ npos' = npos + 1 /\ Consume(1)
        /\ UNCHANGED <<phase, str, dest, result>>

(* Fault: a flag takes the next argument as its value and stays on it. *)
ParseFlagStays ==
  LET a == argv[i] d == Found(a) f == FlagOf(d) IN
  /\ Parsing({"short", "long"}) /\ d.k # 0 /\ f.validator # ""
  /\ IF a.text = NULL /\ argc = 1 THEN Reject
     ELSE /\ Validate(d, f, IF a.text # NULL THEN a.text ELSE TextOf(argv[i + 1]))
          /\ i' = i + (IF a.text # NULL THEN 1 ELSE 2) /\ argc' = argc - 1
          /\ UNCHANGED npos

(* A flag.  Its value is what follows the letter or the `=', or the next
   argument whatever that is; behind the last one argv holds NULL. *)
ParseFlag ==
  LET a == argv[i] d == Found(a) f == FlagOf(d) IN
  /\ Parsing({"short", "long"})
  /\ \/ d.k = 0 /\ Reject
     \/ /\ d.k # 0 /\ f.validator = "" /\ a.text = NULL
        /\ Set(d, <<"1">>) /\ Consume(1)
        /\ UNCHANGED <<phase, npos, str, dest, result>>
     \/ d.k # 0 /\ f.validator = "" /\ a.text # NULL /\ Reject
     \/ d.k # 0 /\ f.validator # "" /\ a.text = NULL /\ argc = 1 /\ Reject
     \/ /\ d.k # 0 /\ f.validator # "" /\ (a.text # NULL \/ argc > 1)
        /\ Validate(d, f, IF a.text # NULL THEN a.text ELSE TextOf(argv[i + 1]))
        /\ Consume(IF a.text # NULL THEN 1 ELSE 2)
        /\ UNCHANGED npos

ParseEnd ==
  /\ phase = "parse" /\ argc = 0
  /\ phase' = "builtins"
  /\ UNCHANGED <<main, argv, i, argc, cmd, choseDef, npos, vals, gvals, pos, j, str, dest, result>>

(* What a command, main and cmdHandleBuiltins read; NoValue stands for NULL. *)
Read(values, k) == IF k \in DOMAIN values THEN values[k] ELSE NoValue

cmdGetFlag(k) == Read(vals, k)

cmdGetGlobalFlag(k) == Read(gvals, k)

cmdGetPositional(k) == Read(pos, k)

(* cmdShowUsage: what is printed for a name is the usage of its command or, when
   it is not one, the list of them all. *)
cmdShowUsage(name) ==
  LET found == cmdFindCommandByName(name) IN
  <<"usage", IF found = {} THEN "all" ELSE CHOOSE c \in found : TRUE>>

(* cmdHandleBuiltins: --version and --help end the program. *)
cmdHandleBuiltins ==
  /\ phase = "builtins"
  /\ \/ cmdGetGlobalFlag(1) # NoValue /\ phase' = "exit" /\ result' = "version"
     \/ /\ cmdGetGlobalFlag(1) = NoValue /\ cmdGetGlobalFlag(2) # NoValue
        /\ phase' = "exit" /\ result' = cmdShowUsage(IF choseDef THEN NULL ELSE <<cmd>>)
     \/ /\ cmdGetGlobalFlag(1) = NoValue /\ cmdGetGlobalFlag(2) = NoValue
        /\ phase' = "defaults" /\ UNCHANGED result
  /\ UNCHANGED <<main, argv, i, argc, cmd, choseDef, npos, vals, gvals, pos, j, str, dest>>

(* Fault: defaults are only used for flags that take no value. *)
FillDefaultOptional ==
  /\ phase = "defaults" /\ j <= Len(Flags(cmd)) /\ j' = j + 1
  /\ UNCHANGED <<vals, gvals, pos, phase, str, dest, result>>
  /\ UNCHANGED <<main, argv, i, argc, cmd, choseDef, npos>>

(* The flags without a value, in their order.  One that takes none is off; an
   empty default leaves it without a value. *)
FillDefault ==
  LET f == Flags(cmd)[j] IN
  /\ phase = "defaults" /\ j <= Len(Flags(cmd)) /\ j' = j + 1
  /\ \/ /\ vals[j] # NoValue \/ (f.validator # "" /\ f.def = <<>>)
        /\ UNCHANGED <<vals, gvals, pos, phase, str, dest, result>>
     \/ /\ vals[j] = NoValue /\ f.validator = ""
        /\ Set([table |-> "vals", k |-> j], <<"0">>)
        /\ UNCHANGED <<phase, str, dest, result>>
     \/ /\ vals[j] = NoValue /\ f.validator # "" /\ f.def # <<>>
        /\ IF f.def = NULL
           THEN Fail /\ UNCHANGED <<vals, gvals, pos, str, dest>>
           ELSE Validate([table |-> "vals", k |-> j], f, f.def)
  /\ UNCHANGED <<main, argv, i, argc, cmd, choseDef, npos>>

(* The positionals.  None of the programs has a default for one but "". *)
CheckPositional ==
  LET n == j - Len(Flags(cmd)) p == Positionals(cmd)[n] IN
  /\ phase = "defaults" /\ n > 0 /\ n <= Len(Positionals(cmd)) /\ j' = j + 1
  /\ IF pos[n] = NoValue /\ p.def = NULL THEN Fail ELSE UNCHANGED <<phase, result>>
  /\ UNCHANGED <<main, argv, i, argc, cmd, choseDef, npos, vals, gvals, pos, str, dest>>

(* main: the command runs with the arguments that are left, or the help that
   was asked for is printed. *)
Selected ==
  /\ phase = "defaults" /\ j > Len(Flags(cmd)) + Len(Positionals(cmd))
  /\ \/ cmd # "help" /\ phase' = "main" /\ result' = cmd
     \/ /\ cmd = "help" /\ phase' = "exit"
        /\ result' = cmdShowUsage(IF cmdGetPositional(1) = NoValue THEN NULL ELSE cmdGetPositional(1))
  /\ UNCHANGED <<main, argv, i, argc, cmd, choseDef, npos, vals, gvals, pos, j, str, dest>>

Next ==
  \/ ChooseCommand \/ ParseMarker \/ ParsePositional \/ ParseFlag \/ ParseEnd
  \/ cmdParseBitFlags \/ cmdHandleBuiltins \/ FillDefault \/ CheckPositional \/ Selected

Spec == Init /\ [][Next]_vars /\ WF_vars(Next)

-----------------------------------------------------------------------------
(* Whatever the command line, a command that runs finds a value in every flag
   and positional its main reads without asking cmdGetFlag whether it has one:
   the stack and memory sizes of cmdRun, the input of every command. *)
ValuesPresent ==
  phase = "main" =>
    /\ \A k \in main.reads[cmd].flags : cmdGetFlag(k) # NoValue
    /\ \A k \in main.reads[cmd].pos : cmdGetPositional(k) # NoValue

(* argc and argv move together to the last argument and not beyond, and what
   a program is given as its own arguments is what stands behind a `--'. *)
RestBehindMarker ==
  /\ argc >= 0 /\ i + argc = Len(argv) + 1
  /\ phase = "main" /\ argc > 0 => argv[i - 1].form = "marker"

(* A flag given by its whole name is the one that gets the value, though the
   search compares prefixes, cut by one in front of `=', and takes the first. *)
NamedFlagIsMeant ==
  [][\A k \in DOMAIN Flags(cmd) :
       phase = "parse" /\ argc > 0 /\ argv[i].form = "long" /\ argv[i].name = Flags(cmd)[k].name
         => gvals' = gvals /\ \A l \in DOMAIN Flags(cmd) \ {k} : vals'[l] = vals[l]]_vars

(* Parsing comes to an end, unless a list of bit flags has a name of one
   letter in front of a bar: cmdParseBitFlags never gets past it. *)
StuckAtLetter ==
  phase = "bits" /\ Len(str) > 1 /\ Letters(str[1]) = 1 /\ \E k \in DOMAIN str : str[k] = "|"

ParsingEnds == <>(phase \in {"main", "exit"} \/ StuckAtLetter)
=============================================================================
