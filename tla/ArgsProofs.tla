---------------------------- MODULE ArgsProofs ----------------------------
(***************************************************************************)
(* Proofs about the parsing of command lines, Args.  The walk over the     *)
(* arguments keeps i and argc in step, and only a marker stops it before   *)
(* the last argument.  The defaults are filled in order, so that below j   *)
(* every flag with a default, and every positional that must be given, has *)
(* a value; a list of bit flags interrupts both walks and returns to them. *)
(***************************************************************************)
EXTENDS Args, SequenceTheorems, TLAPS

(* The types, with the arrays of values as long as those of the flags. *)
TypeOK ==
  /\ main \in Mains /\ argv \in Argvs /\ cmd \in DOMAIN main.commands
  /\ i \in Nat /\ argc \in Nat /\ j \in Nat \ {0}
  /\ phase \in {"choose", "parse", "bits", "builtins", "defaults", "main", "exit"}
  /\ phase = "bits" => dest.back \in {"parse", "defaults"}
  /\ phase # "choose" =>
       DOMAIN vals = DOMAIN Flags(cmd) /\ DOMAIN pos = DOMAIN Positionals(cmd)

(* The arguments that are left are the last argc of argv. *)
Counted == i + argc = Len(argv) + 1 /\ (phase = "choose" => i = 1)

(* Whether the arguments of the program are behind us. *)
Walked == phase \in {"builtins", "defaults", "main"} \/ (phase = "bits" /\ dest.back = "defaults")

Behind == Walked /\ argc > 0 => argv[i - 1].form = "marker"

(* A flag that gets a default, if it was given no value. *)
Defaulted(f) == f.validator = "" \/ f.def # <<>>

(* Everything below place l of the defaults has its value. *)
FilledFlags(l) ==
  \A k \in DOMAIN Flags(cmd) : k < l /\ Defaulted(Flags(cmd)[k]) => vals[k] # NoValue

FilledPositionals(l) ==
  \A k \in DOMAIN Positionals(cmd) :
    k + Len(Flags(cmd)) < l /\ Positionals(cmd)[k].def = NULL => pos[k] # NoValue

Filling ==
  /\ phase \in {"choose", "parse", "builtins"} => j = 1
  /\ phase = "bits" /\ dest.back = "parse" => j = 1
  /\ phase \in {"defaults", "main"} => FilledFlags(j) /\ FilledPositionals(j)
  /\ phase = "bits" /\ dest.back = "defaults" =>
       /\ dest.k \in DOMAIN Flags(cmd) /\ j = dest.k + 1
       /\ FilledFlags(dest.k) /\ FilledPositionals(j)
  /\ phase = "main" => cmd # "help" /\ j > Len(Flags(cmd)) + Len(Positionals(cmd))

IInv == TypeOK /\ Counted /\ Behind /\ Filling

-----------------------------------------------------------------------------
(* Lengths and domains of the arrays. *)
LEMMA Arrays ==
  ASSUME TypeOK
  PROVE  /\ Len(argv) \in Nat
         /\ Len(Flags(cmd)) \in Nat /\ DOMAIN Flags(cmd) = 1 .. Len(Flags(cmd))
         /\ Len(Positionals(cmd)) \in Nat /\ DOMAIN Positionals(cmd) = 1 .. Len(Positionals(cmd))
<1>1. /\ argv \in Seq(ToSet(argv)) /\ Flags(cmd) \in Seq(ToSet(Flags(cmd)))
      /\ Positionals(cmd) \in Seq(ToSet(Positionals(cmd)))
  BY ProgramsAssumption, Zenon DEF TypeOK, IsSequence, Flags, Positionals
<1>2. \A s : s \in Seq(ToSet(s)) => Len(s) \in Nat /\ DOMAIN s = 1 .. Len(s)
  OBVIOUS
<1> QED
  BY <1>1, <1>2

(* Setting a value keeps the arrays as long as they are. *)
LEMMA SetKeeps ==
  ASSUME NEW d, NEW v, Set(d, v)
  PROVE  DOMAIN vals' = DOMAIN vals /\ DOMAIN pos' = DOMAIN pos
BY DEF Set

LEMMA InitIInv == Init => IInv
<1> SUFFICES ASSUME Init PROVE IInv
  OBVIOUS
<1>1. main.def \in DOMAIN main.commands
  BY ProgramsAssumption DEF Init
<1>2. Len(argv) \in Nat
  <2>1. argv \in Seq(ToSet(argv))
    BY ProgramsAssumption, Zenon DEF Init, IsSequence
  <2> QED
    BY <2>1
<1>3. TypeOK
  BY <1>1, <1>2 DEF Init, TypeOK
<1> QED
  BY <1>2, <1>3 DEF Init, IInv, Counted, Behind, Walked, Filling

LEMMA ChooseCommandKept ==
  ASSUME IInv, ChooseCommand
  PROVE  IInv'
<1> DEFINE found == IF argc > 0 /\ argv[1].form = "plain" THEN cmdFindCommandByName(argv[1].text) ELSE {}
<1> DEFINE taken == IF found = {} THEN 0 ELSE 1
<1>1. /\ phase = "choose" /\ phase' = "parse"
      /\ cmd' = IF found = {} THEN main.def ELSE CHOOSE c \in found : TRUE
      /\ i' = 1 + taken /\ argc' = argc - taken
      /\ vals' = None(Flags(cmd)') /\ pos' = None(Positionals(cmd)')
      /\ UNCHANGED <<main, argv, npos, gvals, j, str, dest, result>>
  BY Zenon DEF ChooseCommand, Flags, Positionals
<1>2. found \subseteq DOMAIN main.commands /\ main.def \in DOMAIN main.commands
  BY ProgramsAssumption DEF cmdFindCommandByName, IInv, TypeOK
<1>3. cmd' \in DOMAIN main'.commands
  <2>1. CASE found = {}
    BY <1>1, <1>2, <2>1
  <2>2. CASE found # {}
    <3>1. (CHOOSE c \in found : TRUE) \in found
      BY <2>2, Zenon
    <3> QED
      BY <1>1, <1>2, <2>2, <3>1, Zenon
  <2> QED
    BY <2>1, <2>2
<1>4. DOMAIN vals' = DOMAIN Flags(cmd)' /\ DOMAIN pos' = DOMAIN Positionals(cmd)'
  BY <1>1 DEF None
<1>5. found # {} => argc > 0
  OBVIOUS
<1> HIDE DEF found
<1>6. i' \in Nat /\ argc' \in Nat /\ Counted'
  BY <1>1, <1>5, Arrays DEF IInv, TypeOK, Counted
<1> QED
  BY <1>1, <1>3, <1>4, <1>6 DEF IInv, TypeOK, Behind, Walked, Filling

(* What a step may do while the arguments are walked over, if it takes n of
   them and keeps the lengths of the arrays. *)
LEMMA WalkKept ==
  ASSUME IInv, phase = "parse", UNCHANGED <<main, argv, cmd, j>>,
         NEW n \in Nat, n <= argc, Consume(n),
         DOMAIN vals' = DOMAIN vals, DOMAIN pos' = DOMAIN pos,
         \/ phase' \in {"parse", "exit"}
         \/ phase' = "bits" /\ dest'.back = "parse"
         \/ phase' = "builtins" /\ (argc' > 0 => argv[i' - 1].form = "marker")
  PROVE  IInv'
<1>1. i' \in Nat /\ argc' \in Nat /\ Counted'
  BY Arrays DEF IInv, TypeOK, Counted, Consume
<1>2. TypeOK'
  BY <1>1 DEF IInv, TypeOK, Flags, Positionals
<1>3. Behind'
  BY DEF Behind, Walked
<1>4. Filling'
  BY DEF IInv, Filling
<1> QED
  BY <1>1, <1>2, <1>3, <1>4 DEF IInv

LEMMA RejectKept ==
  ASSUME IInv, phase = "parse", UNCHANGED <<main, argv, cmd, j>>, Reject
  PROVE  IInv'
<1>1. Consume(0)
  BY DEF Reject, Consume, IInv, TypeOK
<1> QED
  BY <1>1, WalkKept DEF Reject, Fail, IInv, TypeOK

LEMMA ParseMarkerKept ==
  ASSUME IInv, ParseMarker
  PROVE  IInv'
<1>1. /\ phase = "parse" /\ argc > 0 /\ argv[i].form = "marker" /\ Consume(1)
      /\ phase' = "builtins" /\ UNCHANGED <<main, argv, cmd, j, vals, pos>>
  BY DEF ParseMarker, Parsing
<1>2. i' - 1 = i /\ 1 <= argc
  BY <1>1 DEF Consume, IInv, TypeOK
<1>3. argv[i' - 1].form = "marker"
  BY <1>1, <1>2, Zenon
<1> QED
  BY <1>1, <1>2, <1>3, WalkKept

LEMMA ParsePositionalKept ==
  ASSUME IInv, ParsePositional
  PROVE  IInv'
<1>1. phase = "parse" /\ argc > 0 /\ UNCHANGED <<main, argv, cmd, j>>
  BY DEF ParsePositional, Parsing
<1>2. CASE Reject
  BY <1>1, <1>2, RejectKept
<1>3. CASE /\ Set([table |-> "pos", k |-> npos + 1], argv[i].text)
           /\ Consume(1) /\ phase' = phase
  <2>1. 1 <= argc
    BY <1>1 DEF IInv, TypeOK
  <2> QED
    BY <1>1, <1>3, <2>1, SetKeeps, WalkKept
<1> QED
  BY <1>2, <1>3 DEF ParsePositional

(* A validator keeps the arrays, and comes back to the phase it is called in
   at once, later or never. *)
LEMMA ValidateKeeps ==
  ASSUME NEW d, NEW f, NEW v, Validate(d, f, v)
  PROVE  /\ DOMAIN vals' = DOMAIN vals /\ DOMAIN pos' = DOMAIN pos
         /\ \/ phase' = phase
            \/ phase' = "exit"
            \/ phase' = "bits" /\ dest' = [k |-> d.k, back |-> phase]
<1>1. CASE phase' = "bits" /\ dest' = [k |-> d.k, back |-> phase] /\ UNCHANGED <<vals, pos>>
  BY <1>1
<1>2. CASE Set(d, v) /\ phase' = phase
  BY <1>2, SetKeeps
<1>3. CASE Fail /\ UNCHANGED <<vals, pos>>
  BY <1>3 DEF Fail
<1> QED
  BY <1>1, <1>2, <1>3 DEF Validate

LEMMA ParseFlagKept ==
  ASSUME IInv, ParseFlag
  PROVE  IInv'
<1> DEFINE a == argv[i]
           d == Found(a)
           f == FlagOf(d)
           n == IF a.text # NULL THEN 1 ELSE 2
           v == IF a.text # NULL THEN a.text ELSE TextOf(argv[i + 1])
<1>1. phase = "parse" /\ argc > 0 /\ argc \in Nat /\ UNCHANGED <<main, argv, cmd, j>>
  BY DEF ParseFlag, Parsing, IInv, TypeOK
<1>2. \/ Reject
      \/ Set(d, <<"1">>) /\ Consume(1) /\ phase' = phase
      \/ (a.text # NULL \/ argc > 1) /\ Validate(d, f, v) /\ Consume(n)
  BY DEF ParseFlag
<1> HIDE DEF d, f, v, a
<1>3. CASE Reject
  BY <1>1, <1>3, RejectKept
<1>4. CASE Set(d, <<"1">>) /\ Consume(1) /\ phase' = phase
  BY <1>1, <1>4, SetKeeps, WalkKept
<1>5. CASE (a.text # NULL \/ argc > 1) /\ Validate(d, f, v) /\ Consume(n)
  <2>1. n \in Nat /\ n <= argc
    BY <1>1, <1>5
  <2>2. /\ DOMAIN vals' = DOMAIN vals /\ DOMAIN pos' = DOMAIN pos
        /\ \/ phase' \in {"parse", "exit"}
           \/ phase' = "bits" /\ dest' = [k |-> d.k, back |-> "parse"]
    BY <1>1, <1>5, ValidateKeeps
  <2>3. phase' = "bits" => dest'.back = "parse"
    BY <2>2
  <2> HIDE DEF n
  <2> QED
    BY <1>1, <1>5, <2>1, <2>2, <2>3, WalkKept
<1> QED
  BY <1>2, <1>3, <1>4, <1>5

LEMMA ParseEndKept ==
  ASSUME IInv, ParseEnd
  PROVE  IInv'
<1>1. phase = "parse" /\ argc = 0 /\ phase' = "builtins" /\ Consume(0)
      /\ UNCHANGED <<main, argv, cmd, j, vals, pos, argc>>
  BY DEF ParseEnd, Consume, IInv, TypeOK
<1> QED
  BY <1>1, WalkKept

(* The lists and the walk are left alone by what comes behind the arguments. *)
Behaves == UNCHANGED <<main, argv, i, argc, cmd, pos>> /\ DOMAIN vals' = DOMAIN vals

LEMMA BehavesKept ==
  ASSUME IInv, phase # "choose", Behaves, j' \in Nat \ {0},
         phase' \in {"parse", "bits", "builtins", "defaults", "main", "exit"},
         phase' = "bits" => dest'.back \in {"parse", "defaults"},
         Walked' => Walked
  PROVE  TypeOK' /\ Counted' /\ Behind'
<1>1. TypeOK'
  BY DEF IInv, TypeOK, Behaves, Flags, Positionals
<1>2. Counted' /\ Behind'
  BY DEF IInv, Counted, Behind, Behaves
<1> QED
  BY <1>1, <1>2

LEMMA cmdParseBitFlagsKept ==
  ASSUME IInv, cmdParseBitFlags
  PROVE  IInv'
<1>1. /\ phase = "bits" /\ dest.back \in {"parse", "defaults"} /\ j \in Nat \ {0}
      /\ UNCHANGED <<main, argv, i, argc, cmd, pos, j, dest>>
  BY DEF cmdParseBitFlags, IInv, TypeOK
<1>2. CASE phase' = phase /\ vals' = vals
  <2>1. TypeOK' /\ Counted' /\ Behind'
    BY <1>1, <1>2, BehavesKept DEF Behaves, Walked
  <2>2. Filling'
    BY <1>1, <1>2 DEF IInv, Filling, FilledFlags, FilledPositionals, Flags, Positionals
  <2> QED
    BY <2>1, <2>2 DEF IInv
<1>3. CASE phase' = dest.back /\ vals' = [vals EXCEPT ![dest.k] = <<"bits">>]
  <2>1. Walked' => Walked
    BY <1>1, <1>3 DEF Walked
  <2>2. TypeOK' /\ Counted' /\ Behind'
    BY <1>1, <1>3, <2>1, BehavesKept DEF Behaves
  <2>3. CASE dest.back = "parse"
    BY <1>1, <1>3, <2>2, <2>3 DEF IInv, Filling
  <2>4. CASE dest.back = "defaults"
    <3>1. /\ dest.k \in DOMAIN Flags(cmd) /\ j = dest.k + 1
          /\ FilledFlags(dest.k) /\ FilledPositionals(j)
      BY <1>1, <2>4 DEF IInv, Filling
    <3>2. FilledPositionals(j)'
      BY <1>1, <3>1 DEF FilledPositionals, Flags, Positionals
    <3>3. ASSUME NEW k \in DOMAIN Flags(cmd), k < j, Defaulted(Flags(cmd)[k])
          PROVE  vals'[k] # NoValue
      <4>1. DOMAIN vals = DOMAIN Flags(cmd) /\ DOMAIN Flags(cmd) \subseteq Nat
        BY <1>1, Arrays DEF IInv, TypeOK
      <4>2. CASE k = dest.k
        <5>1. <<"bits">> # NoValue
          BY DEF NoValue
        <5> QED
          BY <1>3, <4>1, <4>2, <5>1
      <4>3. CASE k # dest.k
        <5>1. k < dest.k
          BY <3>1, <3>3, <4>1, <4>3
        <5> QED
          BY <1>3, <3>1, <3>3, <4>1, <4>3, <5>1 DEF FilledFlags
      <4> QED
        BY <4>2, <4>3
    <3>4. FilledFlags(j)'
      BY <1>1, <3>3 DEF FilledFlags, Flags
    <3> QED
      BY <1>1, <1>3, <2>2, <2>4, <3>2, <3>4 DEF IInv, Filling
  <2> QED
    BY <1>1, <2>3, <2>4
<1>4. CASE Fail /\ vals' = vals
  <2>1. TypeOK' /\ Counted' /\ Behind'
    BY <1>1, <1>4, BehavesKept DEF Behaves, Walked, Fail
  <2> QED
    BY <1>4, <2>1 DEF IInv, Filling, Fail
<1> QED
  BY <1>2, <1>3, <1>4 DEF cmdParseBitFlags

LEMMA cmdHandleBuiltinsKept ==
  ASSUME IInv, cmdHandleBuiltins
  PROVE  IInv'
<1>1. /\ phase = "builtins" /\ phase' \in {"exit", "defaults"} /\ j \in Nat \ {0} /\ j = 1
      /\ UNCHANGED <<main, argv, i, argc, cmd, vals, pos, j>>
  BY DEF cmdHandleBuiltins, IInv, TypeOK, Filling
<1>2. TypeOK' /\ Counted' /\ Behind'
  BY <1>1, BehavesKept DEF Behaves, Walked
<1>3. FilledFlags(j)' /\ FilledPositionals(j)'
  <2>1. DOMAIN Flags(cmd)' = 1 .. Len(Flags(cmd)') /\ Len(Flags(cmd)') \in Nat
        /\ DOMAIN Positionals(cmd)' = 1 .. Len(Positionals(cmd)') /\ Len(Positionals(cmd)') \in Nat
    BY <1>1, Arrays DEF IInv, Flags, Positionals
  <2> QED
    BY <1>1, <2>1 DEF FilledFlags, FilledPositionals
<1> QED
  BY <1>1, <1>2, <1>3 DEF IInv, Filling

LEMMA FillDefaultKept ==
  ASSUME IInv, FillDefault
  PROVE  IInv'
<1> DEFINE f == Flags(cmd)[j]
           d == [table |-> "vals", k |-> j]
<1>1. /\ phase = "defaults" /\ j \in Nat \ {0} /\ j <= Len(Flags(cmd)) /\ j' = j + 1
      /\ UNCHANGED <<main, argv, i, argc, cmd>>
  BY DEF FillDefault, IInv, TypeOK
<1>2. /\ Len(Flags(cmd)) \in Nat /\ DOMAIN Flags(cmd) = 1 .. Len(Flags(cmd))
      /\ DOMAIN Positionals(cmd) = 1 .. Len(Positionals(cmd)) /\ Len(Positionals(cmd)) \in Nat
      /\ j \in DOMAIN Flags(cmd) /\ DOMAIN vals = DOMAIN Flags(cmd)
  BY <1>1, Arrays DEF IInv, TypeOK
<1>3. \/ UNCHANGED <<vals, pos, phase>> /\ (vals[j] # NoValue \/ ~ Defaulted(f))
      \/ Set(d, <<"0">>) /\ phase' = phase
      \/ Fail /\ UNCHANGED <<vals, pos>>
      \/ f.def # <<>> /\ Validate(d, f, f.def)
  BY DEF FillDefault, Defaulted
<1>4. f.def # NoValue
  BY <1>2, ProgramsAssumption DEF IInv, TypeOK, Flags
<1>5. \/ UNCHANGED <<vals, pos, phase>> /\ (vals[j] # NoValue \/ ~ Defaulted(f))
      \/ \E v : v # NoValue /\ vals' = [vals EXCEPT ![j] = v] /\ UNCHANGED <<pos, phase>>
      \/ phase' = "exit" /\ UNCHANGED <<vals, pos>>
      \/ phase' = "bits" /\ dest' = [k |-> j, back |-> "defaults"] /\ UNCHANGED <<vals, pos>>
  <2> HIDE DEF f
  <2>1. d.table = "vals" /\ d.k = j
    OBVIOUS
  <2> HIDE DEF d
  <2>2. \A v : Set(d, v) => vals' = [vals EXCEPT ![j] = v] /\ pos' = pos
    BY <2>1 DEF Set
  <2>3. <<"0">> # NoValue
    BY DEF NoValue
  <2>4. CASE Set(d, <<"0">>) /\ phase' = phase
    BY <2>2, <2>3, <2>4
  <2>5. CASE f.def # <<>> /\ Validate(d, f, f.def)
    <3>1. CASE phase' = "bits" /\ dest' = [k |-> d.k, back |-> phase] /\ UNCHANGED <<vals, pos>>
      BY <1>1, <2>1, <3>1, Zenon
    <3>2. CASE Set(d, f.def) /\ phase' = phase
      BY <1>4, <2>2, <3>2
    <3>3. CASE Fail /\ UNCHANGED <<vals, pos>>
      BY <3>3 DEF Fail
    <3> QED
      BY <2>5, <3>1, <3>2, <3>3 DEF Validate
  <2> QED
    BY <1>3, <2>4, <2>5 DEF Fail
<1>6. /\ pos' = pos /\ DOMAIN vals' = DOMAIN vals /\ phase' \in {"defaults", "exit", "bits"}
      /\ phase' = "bits" => dest' = [k |-> j, back |-> "defaults"] /\ vals' = vals
  BY <1>1, <1>5
<1>7. TypeOK' /\ Counted' /\ Behind'
  <2>1. phase' = "bits" => dest'.back = "defaults"
    BY <1>6
  <2>2. j' \in Nat \ {0}
    BY <1>1
  <2> QED
    BY <1>1, <1>6, <2>1, <2>2, BehavesKept DEF Behaves, Walked
<1>8. FilledPositionals(j)'
  BY <1>1, <1>2 DEF FilledPositionals, Flags, Positionals
<1>9. FilledFlags(j)
  BY <1>1 DEF IInv, Filling
<1>10. CASE phase' = "exit"
  BY <1>7, <1>10 DEF IInv, Filling
<1>11. CASE phase' = "bits"
  <2>1. dest'.k = j /\ dest'.back = "defaults" /\ vals' = vals
    BY <1>6, <1>11
  <2>2. FilledFlags(dest.k)'
    BY <1>1, <1>9, <2>1 DEF FilledFlags, Flags
  <2>3. dest'.k \in DOMAIN Flags(cmd)'
    BY <1>1, <1>2, <2>1 DEF Flags
  <2> QED
    BY <1>1, <1>7, <1>8, <1>11, <2>1, <2>2, <2>3 DEF IInv, Filling
<1>12. CASE phase' = "defaults"
  <2>1. \/ vals' = vals /\ (vals[j] # NoValue \/ ~ Defaulted(f))
        \/ \E v : v # NoValue /\ vals' = [vals EXCEPT ![j] = v]
    BY <1>5, <1>12
  <2>2. ASSUME NEW k \in DOMAIN Flags(cmd), k < j + 1, Defaulted(Flags(cmd)[k])
        PROVE  vals'[k] # NoValue
    <3>1. CASE k = j
      BY <1>2, <2>1, <2>2, <3>1
    <3>2. CASE k # j
      <4>1. k < j
        BY <1>1, <1>2, <2>2, <3>2
      <4>2. vals'[k] = vals[k]
        BY <1>2, <2>1, <3>2
      <4> QED
        BY <1>9, <2>2, <4>1, <4>2 DEF FilledFlags
    <3> QED
      BY <3>1, <3>2
  <2>3. FilledFlags(j)'
    BY <1>1, <2>2 DEF FilledFlags, Flags
  <2> QED
    BY <1>7, <1>8, <1>12, <2>3 DEF IInv, Filling
<1> QED
  BY <1>6, <1>10, <1>11, <1>12

LEMMA CheckPositionalKept ==
  ASSUME IInv, CheckPositional
  PROVE  IInv'
<1> DEFINE n == j - Len(Flags(cmd))
<1>1. /\ phase = "defaults" /\ n > 0 /\ n <= Len(Positionals(cmd)) /\ j' = j + 1
      /\ j \in Nat \ {0}
      /\ \/ phase' = "exit"
         \/ phase' = phase /\ ~ (pos[n] = NoValue /\ Positionals(cmd)[n].def = NULL)
      /\ UNCHANGED <<main, argv, i, argc, cmd, vals, pos>>
  BY DEF CheckPositional, Fail, IInv, TypeOK
<1>2. /\ Len(Flags(cmd)) \in Nat /\ DOMAIN Flags(cmd) = 1 .. Len(Flags(cmd))
      /\ DOMAIN Positionals(cmd) = 1 .. Len(Positionals(cmd)) /\ Len(Positionals(cmd)) \in Nat
  BY Arrays DEF IInv
<1>3. TypeOK' /\ Counted' /\ Behind'
  BY <1>1, BehavesKept DEF Behaves, Walked
<1>4. CASE phase' = "exit"
  BY <1>3, <1>4 DEF IInv, Filling
<1>5. CASE phase' = phase /\ ~ (pos[n] = NoValue /\ Positionals(cmd)[n].def = NULL)
  <2>1. FilledFlags(j) /\ FilledPositionals(j)
    BY <1>1 DEF IInv, Filling
  <2>2. FilledFlags(j)'
    <3>1. ASSUME NEW k \in DOMAIN Flags(cmd) PROVE k < j
      BY <1>1, <1>2
    <3> QED
      BY <1>1, <2>1, <3>1 DEF FilledFlags, Flags
  <2>3. ASSUME NEW k \in DOMAIN Positionals(cmd), k + Len(Flags(cmd)) < j + 1,
               Positionals(cmd)[k].def = NULL
        PROVE  pos[k] # NoValue
    <3>1. k = n \/ k + Len(Flags(cmd)) < j
      BY <1>1, <1>2, <2>3
    <3> HIDE DEF n
    <3> QED
      BY <1>5, <2>1, <2>3, <3>1 DEF FilledPositionals
  <2>4. FilledPositionals(j)'
    BY <1>1, <2>3 DEF FilledPositionals, Flags, Positionals
  <2> QED
    BY <1>1, <1>3, <1>5, <2>2, <2>4 DEF IInv, Filling
<1> QED
  BY <1>1, <1>4, <1>5

LEMMA SelectedKept ==
  ASSUME IInv, Selected
  PROVE  IInv'
<1>1. /\ phase = "defaults" /\ j > Len(Flags(cmd)) + Len(Positionals(cmd)) /\ j \in Nat \ {0}
      /\ phase' = "exit" \/ (phase' = "main" /\ cmd # "help")
      /\ UNCHANGED <<main, argv, i, argc, cmd, vals, pos, j>>
  BY DEF Selected, IInv, TypeOK
<1>2. TypeOK' /\ Counted' /\ Behind'
  BY <1>1, BehavesKept DEF Behaves, Walked
<1>3. FilledFlags(j)' /\ FilledPositionals(j)'
  BY <1>1 DEF IInv, Filling, FilledFlags, FilledPositionals, Flags, Positionals
<1> QED
  BY <1>1, <1>2, <1>3 DEF IInv, Filling, Flags, Positionals

LEMMA StutterKept ==
  ASSUME IInv, UNCHANGED vars
  PROVE  IInv'
<1>1. UNCHANGED <<main, argv, i, argc, phase, cmd, vals, pos, j, dest>>
  BY DEF vars
<1> QED
  BY <1>1 DEF IInv, TypeOK, Counted, Behind, Walked, Filling, FilledFlags, FilledPositionals,
              Flags, Positionals

(* What every step of parseCommandLineArguments_ keeps: argc counts what is
   left of argv, only `--' ends the walk early, and the defaults filled in so
   far are all there. *)
THEOREM ParserInvariant == Spec => []IInv
<1>1. IInv /\ [Next]_vars => IInv'
  BY ChooseCommandKept, ParseMarkerKept, ParsePositionalKept, ParseFlagKept, ParseEndKept,
     cmdParseBitFlagsKept, cmdHandleBuiltinsKept, FillDefaultKept, CheckPositionalKept,
     SelectedKept, StutterKept DEF Next
<1> QED
  BY <1>1, InitIInv, PTL DEF Spec

(* argc and argv of cmdParseCommandArguments move together and never past the
   end, and the arguments handed to the command's function stand behind `--',
   for every program and every command line. *)
THEOREM RestSafe == Spec => []RestBehindMarker
<1>1. IInv => RestBehindMarker
  <2> SUFFICES ASSUME IInv PROVE RestBehindMarker
    OBVIOUS
  <2>1. argc >= 0 /\ i + argc = Len(argv) + 1
    BY DEF IInv, TypeOK, Counted
  <2>2. phase = "main" /\ argc > 0 => argv[i - 1].form = "marker"
    BY DEF IInv, Behind, Walked
  <2> QED
    BY <2>1, <2>2 DEF RestBehindMarker
<1> QED
  BY <1>1, ParserInvariant, PTL

(* A command's function finds a value wherever it reads one unasked, whatever
   the command line, in every program whose commands declare what they read
   with a default or as required (ReadsDeclared). *)
THEOREM ReadsSafe == Spec => []ValuesPresent
<1>1. IInv => ValuesPresent
  <2> SUFFICES ASSUME IInv, phase = "main" PROVE
        /\ \A k \in main.reads[cmd].flags : cmdGetFlag(k) # NoValue
        /\ \A k \in main.reads[cmd].pos : cmdGetPositional(k) # NoValue
    BY DEF ValuesPresent
  <2>1. /\ cmd \in DOMAIN main.commands \ {"help"} /\ main \in Mains
        /\ j > Len(Flags(cmd)) + Len(Positionals(cmd)) /\ j \in Nat
        /\ FilledFlags(j) /\ FilledPositionals(j)
        /\ DOMAIN vals = DOMAIN Flags(cmd) /\ DOMAIN pos = DOMAIN Positionals(cmd)
    BY DEF IInv, TypeOK, Filling
  <2>2. /\ Len(Flags(cmd)) \in Nat /\ DOMAIN Flags(cmd) = 1 .. Len(Flags(cmd))
        /\ Len(Positionals(cmd)) \in Nat /\ DOMAIN Positionals(cmd) = 1 .. Len(Positionals(cmd))
    BY Arrays DEF IInv
  <2>3. ASSUME NEW k \in main.reads[cmd].flags PROVE cmdGetFlag(k) # NoValue
    <3>1. k \in DOMAIN Flags(cmd) /\ Defaulted(Flags(cmd)[k])
      BY <2>1, ReadsDeclared DEF Flags, Defaulted
    <3>2. k < j
      BY <2>1, <2>2, <3>1
    <3>3. vals[k] # NoValue
      BY <2>1, <3>1, <3>2 DEF FilledFlags
    <3> QED
      BY <2>1, <3>1, <3>3 DEF cmdGetFlag, Read
  <2>4. ASSUME NEW k \in main.reads[cmd].pos PROVE cmdGetPositional(k) # NoValue
    <3>1. k \in DOMAIN Positionals(cmd) /\ Positionals(cmd)[k].def = NULL
      BY <2>1, ReadsDeclared DEF Positionals
    <3>2. k + Len(Flags(cmd)) < j
      BY <2>1, <2>2, <3>1
    <3>3. pos[k] # NoValue
      BY <2>1, <3>1, <3>2 DEF FilledPositionals
    <3> QED
      BY <2>1, <3>1, <3>3 DEF cmdGetPositional, Read
  <2> QED
    BY <2>3, <2>4
<1> QED
  BY <1>1, ParserInvariant, PTL

-----------------------------------------------------------------------------
(* The first n characters of a name start another one. *)
LEMMA PrefixIs ==
  ASSUME NEW S, NEW s \in Seq(S), NEW T, NEW t \in Seq(T), NEW n \in Int, n <= Len(s)
  PROVE  IsPrefix(SubSeq(s, 1, n), t) <=> n <= Len(t) /\ \A k \in 1 .. n : s[k] = t[k]
<1> DEFINE c == SubSeq(s, 1, n)
<1>1. CASE n <= 0
  <2>1. c = <<>> /\ SubSeq(<<>>, 1, 0) = <<>> /\ SubSeq(t, 1, 0) = <<>> /\ Len(<<>>) = 0
    BY <1>1
  <2>2. IsPrefix(<<>>, t)
    BY <2>1 DEF IsPrefix
  <2>3. IsPrefix(c, t)
    BY <2>1, <2>2, Zenon
  <2>4. n <= Len(t) /\ 1 .. n = {}
    BY <1>1
  <2> QED
    BY <2>3, <2>4
<1>2. CASE n > 0
  <2>1. c \in Seq(S) /\ Len(c) = n /\ SubSeq(c, 1, n) = c
    BY <1>2
  <2>2. c = [k \in 1 .. n |-> s[k]]
    BY <1>2
  <2>3. SubSeq(t, 1, n) = [k \in 1 .. n |-> t[k]]
    BY <1>2
  <2> HIDE DEF c
  <2>4. IsPrefix(c, t) <=> n <= Len(t) /\ c = SubSeq(t, 1, n)
    BY <2>1, Zenon DEF IsPrefix
  <2>5. c = SubSeq(t, 1, n) <=> \A k \in 1 .. n : s[k] = t[k]
    BY <2>2, <2>3
  <2> QED
    BY <2>4, <2>5, Zenon DEF c
<1> QED
  BY <1>1, <1>2

(* The first of the places that are no less than one of them. *)
LEMMA FirstIs ==
  ASSUME NEW P \in SUBSET Nat, NEW k \in P, \A l \in P : k <= l
  PROVE  First(P) = k
<1>1. P # {}
  OBVIOUS
<1>2. First(P) = CHOOSE m \in P : \A l \in P : m <= l
  BY <1>1, Zenon DEF First
<1>3. ASSUME NEW m \in P, \A l \in P : m <= l PROVE m = k
  BY <1>3
<1> QED
  BY <1>2, <1>3

(* The whole name of a flag, or what is left of it in front of `=', is found
   at that flag and not among the global ones. *)
LEMMA NameFound ==
  ASSUME TypeOK, NEW k \in DOMAIN Flags(cmd), NEW a, a.form = "long",
         a.name = Flags(cmd)[k].name
  PROVE  Found(a) = [table |-> "vals", k |-> k]
<1> DEFINE fs == Flags(cmd)
           name == fs[k].name
           n == IF a.text = NULL THEN Len(name) ELSE Len(name) - 1
           Starting(gs) == {l \in DOMAIN gs : IsPrefix(SubSeq(name, 1, n), gs[l].name)}
<1>1. /\ name \in Seq(ToSet(name)) /\ DOMAIN fs = 1 .. Len(fs) /\ Len(fs) \in Nat
      /\ \A l \in DOMAIN fs : fs[l].name \in Seq(ToSet(fs[l].name))
  BY Arrays, ProgramsAssumption DEF TypeOK, Flags, IsSequence
<1>2. /\ \A l \in DOMAIN Globals : Globals[l].name \in Seq(ToSet(Globals[l].name))
      /\ \A l \in DOMAIN Globals : ~ IsPrefix(SubSeq(name, 1, Len(name) - 1), Globals[l].name)
      /\ \A l \in DOMAIN fs : l < k => ~ IsPrefix(SubSeq(name, 1, Len(name) - 1), fs[l].name)
  BY NamesApart, Zenon DEF TypeOK, Flags, IsSequence
<1>3. \A gs : NamedIn(gs, a) = First(Starting(gs))
  <2>1. a.form # "short"
    OBVIOUS
  <2> QED
    BY <2>1, Zenon DEF NamedIn, cmdFindByName
<1> HIDE DEF fs, name
<1>4. Len(name) \in Nat /\ n \in Int /\ n <= Len(name) /\ n >= Len(name) - 1
  BY <1>1
<1> HIDE DEF n
<1>5. ASSUME NEW t, t \in Seq(ToSet(t)), IsPrefix(SubSeq(name, 1, n), t)
      PROVE  IsPrefix(SubSeq(name, 1, Len(name) - 1), t)
  <2>1. n <= Len(t) /\ \A m \in 1 .. n : name[m] = t[m]
    BY <1>1, <1>4, <1>5, PrefixIs
  <2>2. Len(name) - 1 <= Len(t) /\ \A m \in 1 .. Len(name) - 1 : name[m] = t[m]
    BY <1>4, <1>5, <2>1
  <2>3. Len(name) - 1 \in Int /\ Len(name) - 1 <= Len(name)
    BY <1>4
  <2> QED
    BY <1>1, <1>5, <2>2, <2>3, PrefixIs
<1>6. Starting(Globals) = {}
  BY <1>2, <1>5
<1>7. \A l \in DOMAIN fs : l < k => l \notin Starting(fs)
  BY <1>1, <1>2, <1>5
<1>8. k \in Starting(fs)
  <2>1. IsPrefix(SubSeq(name, 1, n), name)
    BY <1>1, <1>4, PrefixIs
  <2> QED
    BY <2>1 DEF fs, name
<1> HIDE DEF Starting
<1>9. First(Starting(Globals)) = 0
  BY <1>6 DEF First
<1>10. First(Starting(fs)) = k
  <2>1. Starting(fs) \subseteq DOMAIN fs
    BY DEF Starting
  <2>2. \A l \in Starting(fs) : k <= l
    BY <1>1, <1>7, <1>8, <2>1
  <2> QED
    BY <1>1, <1>8, <2>1, <2>2, FirstIs
<1>11. NamedIn(Globals, a) = 0 /\ NamedIn(fs, a) = k
  BY <1>3, <1>9, <1>10, Zenon
<1> QED
  BY <1>11, Zenon DEF Found, fs

(* A flag given by its whole name is the one that gets the value, with `=' and
   without, though cmdFindByName compares prefixes and takes the first: in every
   program whose flags differ before their last letter from the global flags
   and from those declared before them (NamesApart). *)
THEOREM NamesSafe == Spec => NamedFlagIsMeant
<1> DEFINE A ==
      \A k \in DOMAIN Flags(cmd) :
        phase = "parse" /\ argc > 0 /\ argv[i].form = "long" /\ argv[i].name = Flags(cmd)[k].name
          => gvals' = gvals /\ \A l \in DOMAIN Flags(cmd) \ {k} : vals'[l] = vals[l]
<1>1. IInv /\ [Next]_vars => [A]_vars
  <2> SUFFICES ASSUME IInv, Next,
                      NEW k \in DOMAIN Flags(cmd),
                      phase = "parse", argc > 0, argv[i].form = "long",
                      argv[i].name = Flags(cmd)[k].name
               PROVE  gvals' = gvals /\ \A l \in DOMAIN Flags(cmd) \ {k} : vals'[l] = vals[l]
    OBVIOUS
  <2>1. ParseFlag
    BY DEF Next, ChooseCommand, ParseMarker, ParsePositional, ParseEnd, Parsing,
           cmdParseBitFlags, cmdHandleBuiltins, FillDefault, CheckPositional, Selected, IInv, TypeOK
  <2>2. Found(argv[i]) = [table |-> "vals", k |-> k]
    BY NameFound DEF IInv
  <2>3. DOMAIN vals = DOMAIN Flags(cmd)
    BY DEF IInv, TypeOK
  <2>4. \/ UNCHANGED <<vals, gvals>>
        \/ \E v : Set(Found(argv[i]), v)
    <3>1. \A d, f, v : Validate(d, f, v) => UNCHANGED <<vals, gvals>> \/ Set(d, v)
      BY DEF Validate
    <3> QED
      BY <2>1, <3>1, Zenon DEF ParseFlag, Reject
  <2>5. ASSUME NEW v, Set(Found(argv[i]), v)
        PROVE  gvals' = gvals /\ \A l \in DOMAIN Flags(cmd) \ {k} : vals'[l] = vals[l]
    BY <2>2, <2>3, <2>5 DEF Set
  <2> QED
    BY <2>4, <2>5
<1> QED
  BY <1>1, ParserInvariant, PTL DEF Spec, NamedFlagIsMeant
=============================================================================
