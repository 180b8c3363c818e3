----------------------------- MODULE Assembler -----------------------------
(***************************************************************************)
(* The assembler and its linker: src/src/compiler/asm/asm.c, with the      *)
(* encoder and the decoder of code.c and VM_fetch, and the command that    *)
(* runs it, cmdAssemble of src/src/compiler/asm/main.c.                    *)
(*                                                                         *)
(* Assembler_assemble reads a source file statement by statement (labels,  *)
(* variables, instructions), then Assembler_link lays the instructions out *)
(* behind the header and the constants.  A reference to a label is the     *)
(* distance from the instruction that makes it, so it is only known when   *)
(* both have an address: it is patched in two halves, -ip when the loop    *)
(* gets to the instruction and +ip when it gets to the label.              *)
(*                                                                         *)
(* The source is chosen one statement at a time.  A statement that is      *)
(* malformed throws an ITPException, is skipped to the end of its line and *)
(* leaves an error behind.  Instruction indices start at 0, as in the      *)
(* code; sequences at 1.  Data sizes are in bytes.                         *)
(***************************************************************************)
EXTENDS Integers, Sequences, FiniteSets

CONSTANTS Labels, Vars,   \* names; "main" is the label the program starts at
          Defines,        \* name -> value of the builtin variables
          Initializers,   \* right sides of variable declarations, see Reserved
          Operands,       \* per instruction, the operands it may have: sequences of at most two
          MaxErrors       \* bound on the errors; the length of Operands bounds the instructions

(* What can stand in a source.  An operand is described where it is parsed. *)
Statements == UNION {Operands[k] : k \in DOMAIN Operands}

NoEA == [kind |-> "none", sign |-> "", val |-> 0]

IsOperand(o, isRb) ==
  /\ o.kind \in {"name", "Int", "Char", "Float"} /\ o.hash \in BOOLEAN /\ o.mem \in BOOLEAN
  /\ o.kind \in {"Int", "Char"} => o.val \in Nat
  /\ o.minus \in Nat /\ (o.minus > 0 => o.kind = "name")
  /\ o.ea = NoEA \/ (o.ea.kind \in {"int", "name", "size", "other"} /\ o.kind = "name" /\ o.mem /\ isRb)
  /\ o.ea.kind = "int" => o.ea.val \in Nat

ASSUME SourceAssumption ==
  /\ Operands \in Seq(SUBSET Statements)
  /\ \A os \in Statements :
       /\ os \in Seq({os[k] : k \in DOMAIN os}) /\ Len(os) <= 2
       /\ \A k \in DOMAIN os : IsOperand(os[k], k = 2)
  /\ \A d \in DOMAIN Defines : Defines[d] \in Nat
  /\ \A init \in Initializers :
       init.n \in Nat /\ init.form \in {"bytes", "wide", "string", "Int", "Char", "Float", "space"}
  /\ MaxErrors \in Nat

HeaderSize == 16          \* sizeof(CodeHeader)

amReg == 0
amImm == 1

VARIABLES symbols,        \* name -> [tag, id, size]: index of a label, address of a variable
          instructions,   \* their fields, see Blank
          patchWork,      \* <<instruction index, the name it waits for>>, in a sequence
          constants,      \* Vector_len(&as->constants)
          main,           \* as->main
          errors,         \* as->L->errors
          phase,          \* "open", "parse", "collect", "link", "done", "failed", then how
                          \* the program ended: "success", "failure" or "abort"
          refs,           \* label index -> how often each instruction refers to it
          i, ip,          \* the loop of Assembler_link
          code,           \* what was written: header fields and the instructions
          file            \* the output file: "old", "empty", "code", "part"

vars == <<symbols, instructions, patchWork, constants, main, errors, phase, refs, i, ip, code, file>>

source == <<symbols, instructions, patchWork, constants, main, errors>>

Empty == [x \in {} |-> 0]

Put(f, x, v) == [y \in DOMAIN f \cup {x} |-> IF y = x THEN v ELSE f[y]]

(* Assembler_define: argc, argv, the native functions, the standard streams. *)
Assembler_define(d) == [tag |-> "define", id |-> Defines[d], size |-> 0]

Init ==
  /\ symbols = [d \in DOMAIN Defines |-> Assembler_define(d)]
  /\ instructions = <<>> /\ patchWork = <<>>
  /\ constants = 0 /\ main = 0 /\ errors = 0
  /\ phase = "open" /\ refs = Empty /\ i = 0 /\ ip = 0
  /\ code = Empty /\ file = "old"

(* cmdAssemble opens the source, whose failure is logged, and then the output,
   which truncates it. *)
OpenFails ==
  /\ phase = "open"
  /\ phase' = "failure" /\ errors' \in {errors, errors + 1}
  /\ UNCHANGED <<symbols, instructions, patchWork, constants, main, refs, i, ip, code, file>>

Open ==
  /\ phase = "open"
  /\ phase' = "parse" /\ file' = "empty"
  /\ UNCHANGED <<source, refs, i, ip, code>>

(* Fault: the limits of unsigned integers, though the machine extends signs. *)
VM_integer_sizeUnsigned(v) == IF v <= 255 THEN 1 ELSE IF v <= 65535 THEN 2 ELSE 4

(* VM_integer_size, in bytes. *)
VM_integer_size(v) ==
  IF v <= 127 THEN 1 ELSE IF v <= 32767 THEN 2 ELSE IF v <= 2147483647 THEN 4 ELSE 8

(* The kind of value that a token is given by the lexer, and whether it can be
   read as what.  Token_setFloat says it is an integer. *)
Token_set(tok) == IF tok = "Float" THEN "Int" ELSE tok

Token_get(tok, what) == Token_set(tok) = what

-----------------------------------------------------------------------------
(* ITP_fail: the statement is given up; Assembler_synchronize skips the rest
   of its line. *)
Fail ==
  /\ errors' = errors + 1
  /\ UNCHANGED <<symbols, instructions, patchWork, constants, main>>

Parsing == phase = "parse" /\ UNCHANGED <<refs, i, ip, code, file>>

(* An assertion fails: cynAbort ends the program where it stands. *)
cynAbort == phase' = "abort" /\ UNCHANGED source

Malformed == Parsing /\ errors < MaxErrors /\ Fail /\ UNCHANGED phase

(* Assembler_parse_label: a label stands for the index of the instruction that
   will follow.  Its name is compared with "main" up to its own length. *)
MainPrefixes == {"m", "ma", "mai", "main"}

Assembler_parse_label(l) ==
  /\ Parsing /\ UNCHANGED phase
  /\ \/ /\ l \notin DOMAIN symbols
        /\ symbols' = Put(symbols, l, [tag |-> "label", id |-> Len(instructions), size |-> 0])
        /\ main' = IF l \in MainPrefixes THEN Len(instructions) ELSE main
        /\ UNCHANGED <<instructions, patchWork, constants, errors>>
     \/ l \in DOMAIN symbols /\ errors < MaxErrors /\ Fail

vmSizeTbl == [b |-> 1, s |-> 2, w |-> 4, q |-> 8]

(* Assembler_parse_modes_: the mode a letter stands for; {} when it is refused,
   which it also is when it is one of modes, those meant to be allowed. *)
Assembler_parse_modes(letter, modes) == ({letter} \cap DOMAIN vmSizeTbl) \ modes

(* How many constants an integer of a mode becomes. *)
Assembler_append_integral_data(mode) == vmSizeTbl[mode]

(* The sizes in bytes that an initializer may reserve; {} when it is malformed.
   [form, n, mode]: a byte array or a string of n bytes, an integer or a
   character, n elements without a value. *)
Reserved(init) ==
  CASE init.form \in {"bytes", "wide", "string"} -> {init.n}
    [] init.form = "Int" ->
         {Assembler_append_integral_data(m) : m \in Assembler_parse_modes(init.mode, {})}
    [] init.form = "Char" -> {Assembler_append_integral_data("b")}
    [] init.form = "Float" ->
         {Assembler_append_integral_data(m) : m \in Assembler_parse_modes(init.mode, {"w", "q"})}
    [] init.form = "space" ->
         {init.n * vmSizeTbl[m] : m \in Assembler_parse_modes(init.mode, {})}

(* Assembler_parse_var_decl: a variable stands for its address behind the
   header.  The symbol is there before the initializer is read, and stays when
   that is malformed, and so do the bytes of an array read so far.  A byte
   array with a value over 0xFF is an error, but goes on. *)
Assembler_parse_var_decl(x, init) ==
  LET Sym(n) == Put(symbols, x, [tag |-> "var", id |-> constants + HeaderSize, size |-> n])
      errs == IF init.form = "wide" THEN 1 ELSE 0
      read == IF init.form \in {"bytes", "wide"} THEN init.n ELSE 0
  IN
  /\ Parsing
  /\ \/ /\ x \notin DOMAIN symbols
        /\ init.form = "Float" /\ ~Token_get("Float", "Float") /\ cynAbort
     \/ /\ x \notin DOMAIN symbols /\ init.form # "Float"
        /\ Reserved(init) # {} /\ errors + errs <= MaxErrors
        /\ \E n \in Reserved(init) : symbols' = Sym(n) /\ constants' = constants + n
        /\ errors' = errors + errs
        /\ UNCHANGED <<instructions, patchWork, main, phase>>
     \/ /\ x \notin DOMAIN symbols /\ errors < MaxErrors
        /\ symbols' = Sym(0) /\ constants' = constants + read
        /\ errors' = errors + 1
        /\ UNCHANGED <<instructions, patchWork, main, phase>>
     \/ x \in DOMAIN symbols /\ errors < MaxErrors /\ Fail /\ UNCHANGED phase

-----------------------------------------------------------------------------
(* Assembler_parse_instruction_arg.  An operand o is a register, a name, an
   integer, a character or a floating point number (kind and val), with a
   sign, a # in front or brackets around it (sign, hash, mem).  Behind a name
   may stand an integer to subtract (minus; 0 if there is none), and in the
   brackets of a second operand an effective address (ea): an integer, a name,
   a # and a name, or something unsupported.

   Parsing it changes the instruction ins and may put off a name.  src is the
   instruction as the source has it, which the code does not keep. *)
Blank(os) == [osz |-> Len(os) + 1, rmd |-> amReg, ims |-> 1, ra |-> 0, rb |-> 0,
              iam |-> FALSE, ibm |-> FALSE, iea |-> FALSE, ii |-> 0, src |-> os]

Failed == [res |-> "fail", ins |-> Blank(<<>>), reg |-> 0, late |-> {}, errs |-> 0]

Parsed(ins, reg, late, errs) ==
  [res |-> "ok", ins |-> ins, reg |-> reg, late |-> late, errs |-> errs]

Registers == [r0 |-> 0, r1 |-> 1, r2 |-> 2, r3 |-> 3, r4 |-> 4, r5 |-> 5,
              sp |-> 6, ip |-> 7, bp |-> 8, flg |-> 9]

Vm_get_register_from_str(name) == IF name \in DOMAIN Registers THEN {Registers[name]} ELSE {}

(* {} where the code fails. *)
Assembler_get_variable_size(x) ==
  IF x \in DOMAIN symbols /\ symbols[x].tag = "var" THEN {symbols[x].size} ELSE {}

(* A label, or a name not seen yet, is put off to the linker. *)
PutOff(x) == x \notin DOMAIN symbols \/ symbols[x].tag = "label"

Assembler_add_symbol_reference(x, addToPatchWork) ==
  IF ~PutOff(x) THEN {symbols[x].id} ELSE IF addToPatchWork THEN {0} ELSE {}

Signed(sign, v) == IF sign = "-" THEN -v ELSE v

(* `, k', `, name' or `, #name' behind the base of a second operand.  The last
   always fails, as the size that is looked up is that of the token `#'.  The
   flag for a # in front of the base still stands when the name is read:
   `[#x, y]' takes the size of y. *)
EffectiveAddress(p, o) ==
  LET ea == o.ea
      ins == [p.ins EXCEPT !.iea = TRUE]
      vals == IF ea.kind = "size" THEN {}
              ELSE IF o.hash THEN Assembler_get_variable_size(ea.val)
              ELSE Assembler_add_symbol_reference(ea.val, FALSE)
  IN  IF p.res # "ok" THEN p
      ELSE CASE ea.kind = "none" -> p
        [] ea.kind = "int" ->
             [p EXCEPT !.ins = [ins EXCEPT !.ims = VM_integer_size(ea.val),
                                           !.ii = @ + Signed(ea.sign, ea.val)]]
        [] ea.kind \in {"name", "size"} ->
             IF ea.sign # "" \/ vals = {} THEN [p EXCEPT !.res = "fail"]
             ELSE [p EXCEPT !.ins = [ins EXCEPT !.ims = 8, !.ii = @ + CHOOSE v \in vals : TRUE]]
        [] OTHER -> [p EXCEPT !.ins = ins, !.errs = 1]

(* Only from a value that is known and not 0 can something be subtracted.  What
   is left of the operand otherwise is an error, here where a bracket has to
   follow, or when the next statement is read (between two operands it is taken
   for the second, and that is left over). *)
ParseIdentifier(ins, o) ==
  LET regs == Vm_get_register_from_str(o.val)
      vals == IF o.hash THEN Assembler_get_variable_size(o.val)
              ELSE Assembler_add_symbol_reference(o.val, TRUE)
      iu == CHOOSE v \in vals : TRUE
      late == IF ~o.hash /\ PutOff(o.val) THEN {o.val} ELSE {}
      rest == iu = 0 /\ o.minus > 0
      p == Parsed([ins EXCEPT !.rmd = amImm, !.ii = iu - o.minus,
                              !.ims = IF iu = 0 THEN 4
                                      ELSE VM_integer_size(IF o.minus > 0 THEN o.minus ELSE iu)],
                  0, late, IF rest THEN 1 ELSE 0)
  IN  IF o.sign # "" \/ (regs # {} /\ o.hash) \/ (regs = {} /\ vals = {}) THEN Failed
      ELSE IF regs # {}
      THEN Parsed([ins EXCEPT !.rmd = amReg], CHOOSE r \in regs : TRUE, {}, 0)
      ELSE IF rest /\ o.mem THEN [p EXCEPT !.res = "fail"] ELSE p

(* The width of an integer is that of its magnitude. *)
ParseNumber(ins, o) ==
  CASE o.kind = "Char" -> Parsed([ins EXCEPT !.rmd = amImm, !.ims = 4, !.ii = o.val], 0, {}, 0)
    [] o.kind = "Int" ->
         Parsed([ins EXCEPT !.rmd = amImm, !.ims = VM_integer_size(o.val),
                            !.ii = Signed(o.sign, o.val)], 0, {}, 0)
    [] OTHER -> IF Token_get(o.kind, "Float") THEN Failed ELSE [Failed EXCEPT !.res = "abort"]

Assembler_parse_instruction_arg(ins, o, isRb) ==
  IF o.kind = "name"
  THEN LET p == ParseIdentifier(ins, o)
       IN  IF o.mem /\ isRb THEN EffectiveAddress(p, o) ELSE p
  ELSE ParseNumber(ins, o)

(* Fault: the width of the immediate is not copied to ra. *)
FirstOperandNoWidth(p, o) ==
  [p EXCEPT !.ins = [@ EXCEPT !.iam = o.mem, !.ra = p.reg]]

(* An instruction has one immediate, that of its last operand.  When the first
   is one, ra holds its width, where VM_code_append_ and VM_fetch look for it
   if there is no second. *)
FirstOperand(p, o) ==
  [p EXCEPT !.ins = [@ EXCEPT !.iam = o.mem,
                              !.ra = IF p.ins.rmd = amImm THEN p.ins.ims ELSE p.reg]]

SecondOperand(p, o) == [p EXCEPT !.ins = [@ EXCEPT !.ibm = o.mem, !.rb = p.reg]]

(* The instruction with the operands os after its first operand, and after its
   second; with fewer it is the one before. *)
AfterFirst(os) ==
  IF Len(os) = 0 THEN Parsed(Blank(os), 0, {}, 0)
  ELSE FirstOperand(Assembler_parse_instruction_arg(Blank(os), os[1], FALSE), os[1])

AfterSecond(os, a) ==
  IF Len(os) < 2 \/ a.res # "ok" \/ a.errs > 0 THEN [a EXCEPT !.late = {}, !.errs = 0]
  ELSE SecondOperand(Assembler_parse_instruction_arg(a.ins, os[2], TRUE), os[2])

(* Assembler_parse_instruction.  What an operand put off stays when it or the
   second one fails. *)
Patches(p) == {<<Len(instructions), x>> : x \in p.late}

Appended(seq, S) == IF S = {} THEN seq ELSE Append(seq, CHOOSE x \in S : TRUE)

Assembler_parse_instruction(os) ==
  LET a == AfterFirst(os)
      b == AfterSecond(os, a)
      late == Appended(Appended(patchWork, Patches(a)), Patches(b))
  IN
  /\ Parsing /\ Len(instructions) < Len(Operands) /\ os \in Operands[Len(instructions) + 1]
  /\ \/ b.res = "abort" /\ cynAbort
     \/ /\ b.res = "fail" /\ errors < MaxErrors
        /\ errors' = errors + 1 /\ patchWork' = late
        /\ UNCHANGED <<symbols, instructions, constants, main, phase>>
     \/ /\ b.res = "ok" /\ errors + a.errs + b.errs <= MaxErrors
        /\ instructions' = Append(instructions, b.ins)
        /\ patchWork' = late /\ errors' = errors + a.errs + b.errs
        /\ UNCHANGED <<symbols, constants, main, phase>>

(* Fault: what was parsed is linked whatever the log says. *)
EndOfFileAnyway ==
  /\ phase = "parse"
  /\ phase' = "collect"
  /\ UNCHANGED <<source, refs, i, ip, code, file>>

(* The end of the file: with errors Assembler_assemble returns 0. *)
EndOfFile ==
  /\ phase = "parse"
  /\ phase' = IF errors > 0 THEN "failed" ELSE "collect"
  /\ UNCHANGED <<source, refs, i, ip, code, file>>

-----------------------------------------------------------------------------
(* Assembler_link, first pass: group the patches by the label they wait for.
   A name that is still unknown is an error; one that turned out to be a
   variable is passed over. *)
WaitsFor(k, id) ==
  symbols[patchWork[k][2]].tag = "label" /\ symbols[patchWork[k][2]].id = id

Times(id, j) == Cardinality({k \in DOMAIN patchWork : WaitsFor(k, id) /\ patchWork[k][1] = j})

Undefined == {k \in DOMAIN patchWork : patchWork[k][2] \notin DOMAIN symbols}

(* Fault: an unknown name ends the linking but is not counted as an error. *)
CollectRefsSilent ==
  /\ phase = "collect"
  /\ errors' = errors
  /\ \/ /\ Undefined = {} /\ phase' = "link"
        /\ refs' = [id \in {id \in 0 .. Len(instructions) :
                              \E k \in DOMAIN patchWork : WaitsFor(k, id)} |->
                       [j \in 0 .. Len(instructions) - 1 |-> Times(id, j)]]
        /\ i' = 0 /\ ip' = HeaderSize + constants
     \/ Undefined # {} /\ phase' = "failed" /\ UNCHANGED <<refs, i, ip>>
  /\ UNCHANGED <<symbols, instructions, patchWork, constants, main, code, file>>

CollectRefs ==
  /\ phase = "collect"
  /\ errors' = errors + Cardinality(Undefined)
  /\ \/ /\ Undefined = {} /\ phase' = "link"
        /\ refs' = [id \in {id \in 0 .. Len(instructions) :
                              \E k \in DOMAIN patchWork : WaitsFor(k, id)} |->
                       [j \in 0 .. Len(instructions) - 1 |-> Times(id, j)]]
        /\ i' = 0 /\ ip' = HeaderSize + constants
     \/ Undefined # {} /\ phase' = "failed" /\ UNCHANGED <<refs, i, ip>>
  /\ UNCHANGED <<symbols, instructions, patchWork, constants, main, code, file>>

(* The size of an instruction, as Assembler_link adds it to ip. *)
InstrSize(ins) == ins.osz + IF ins.rmd = amImm \/ ins.iea THEN ins.ims ELSE 0

Patched(j) == \E k \in DOMAIN patchWork : patchWork[k][1] = j

(* Fault: an instruction is either patched or the target of patches. *)
PatchOfEither(j) ==
  IF j = i /\ Patched(j) THEN -ip
  ELSE IF i \in DOMAIN refs /\ ~Patched(i) THEN ip * refs[i][j]
  ELSE 0

(* What the loop of Assembler_link adds to the immediate of instruction j when
   it is at instruction i. *)
PatchOf(j) ==
  (IF i \in DOMAIN refs THEN ip * refs[i][j] ELSE 0) - (IF j = i /\ Patched(j) THEN ip ELSE 0)

LinkStep ==
  /\ phase = "link" /\ i < Len(instructions)
  /\ instructions' = [k \in 1 .. Len(instructions) |->
                        [instructions[k] EXCEPT !.ii = @ + PatchOf(k - 1)]]
  /\ ip' = ip + InstrSize(instructions[i + 1])
  /\ i' = i + 1
  /\ UNCHANGED <<symbols, patchWork, constants, main, errors, phase, refs, code, file>>

(* VM_write of v in ims bytes, then VM_read, which extends the sign. *)
ReadBack(v, ims) ==
  IF ims >= 4 THEN v  \* the model's values fit
  ELSE LET m == 2 ^ (8 * ims)
           w == v % m
       IN  IF w >= m \div 2 THEN w - m ELSE w

(* The width of the immediate for VM_code_append_, and for VM_fetch. *)
ImmWidth(ins) ==
  IF ~ (ins.osz > 1 /\ (ins.rmd = amImm \/ ins.iea)) THEN 0
  ELSE IF ins.osz = 2 THEN ins.ra ELSE ins.ims

(* VM_code_append_: the instructions one behind the other, and where instruction
   k starts. *)
VM_code_append(start) ==
  LET at[k \in 0 .. Len(instructions)] ==
        IF k = 0 THEN start
        ELSE at[k - 1] + instructions[k].osz + ImmWidth(instructions[k])
  IN  at

(* The end of Assembler_link: the code, and its header.  main is an index. *)
EmitCode ==
  LET db == HeaderSize + constants
      n == Len(instructions)
      at == VM_code_append(db)
  IN
  /\ phase = "link" /\ i = n
  /\ code' = [size |-> at[n], db |-> db, main |-> db + main, at |-> [k \in 0 .. n |-> at[k]],
              imm |-> [k \in 0 .. n - 1 |->
                         ReadBack(instructions[k + 1].ii, ImmWidth(instructions[k + 1]))]]
  /\ phase' = "done"
  /\ UNCHANGED <<source, refs, i, ip, file>>

(* cmdAssemble_cleanup: Assembler_deinit and Vector_deinit. *)
Cleanup ==
  /\ symbols' = Empty /\ instructions' = <<>> /\ patchWork' = <<>> /\ constants' = 0
  /\ code' = Empty
  /\ UNCHANGED <<main, errors, refs, i, ip>>

(* As many bytes are written as Assembler_assemble returned: none when it gave
   up.  The result of fwrite is not looked at: a full disk is a success too. *)
Write ==
  /\ phase \in {"done", "failed"} /\ errors = 0
  /\ phase' = "success"
  /\ file' \in IF phase = "done" THEN {"code", "part"} ELSE {file}
  /\ Cleanup

ReportErrors ==
  /\ phase \in {"done", "failed"} /\ errors > 0
  /\ phase' = "failure" /\ UNCHANGED file
  /\ Cleanup

Next ==
  \/ Open \/ OpenFails
  \/ Malformed
  \/ \E l \in Labels : Assembler_parse_label(l)
  \/ \E x \in Vars, init \in Initializers : Assembler_parse_var_decl(x, init)
  \/ \E os \in Statements : Assembler_parse_instruction(os)
  \/ EndOfFile
  \/ CollectRefs
  \/ LinkStep
  \/ EmitCode
  \/ Write \/ ReportErrors

Assembling == EndOfFile \/ CollectRefs \/ LinkStep \/ EmitCode \/ Write \/ ReportErrors

Spec == Init /\ [][Next]_vars /\ WF_vars(Assembling)
-----------------------------------------------------------------------------
(***************************************************************************)
(* Correctness.                                                            *)
(***************************************************************************)

Done == phase = "done"

(* Where the linker's symbol table says a name is: a variable at its address,
   a label at the instruction behind it or, behind the last one, at the end. *)
Place(name) ==
  IF symbols[name].tag = "label" THEN code.at[symbols[name].id] ELSE symbols[name].id

(* The operand that an instruction's immediate is for: the last.  An assembler
   statement may have two immediates, and the machine has one. *)
Last(j) == LET os == instructions[j + 1].src IN os[Len(os)]

IsRegister(o) == o.kind = "name" /\ o.val \in DOMAIN Registers

HasImmediate(j) ==
  LET os == instructions[j + 1].src IN
  /\ Len(os) > 0 /\ (Len(os) = 2 => IsRegister(os[1]))
  /\ IsRegister(Last(j)) => Len(os) = 2 /\ Last(j).mem /\ Last(j).ea.kind # "none"

Refers(o) == o.kind = "name" /\ ~IsRegister(o) /\ ~o.hash

IsLabel(o) == Refers(o) /\ symbols[o.val].tag = "label"

(* What the operand o stands for, and what an effective address adds to it.  A
   sign in front of a character means nothing; a # in front of a base holds for
   the name behind the comma too. *)
Value(o) ==
  CASE o.kind = "Int" -> Signed(o.sign, o.val)
    [] o.kind # "name" /\ o.kind # "Int" -> o.val
    [] IsRegister(o) -> 0
    [] o.kind = "name" /\ ~IsRegister(o) ->
         (IF o.hash THEN symbols[o.val].size ELSE Place(o.val)) - o.minus

Added(o) ==
  CASE o.ea.kind = "int" -> Signed(o.ea.sign, o.ea.val)
    [] o.ea.kind = "name" -> IF o.hash THEN symbols[o.ea.val].size ELSE Place(o.ea.val)
    [] OTHER -> 0

Fits(v, width) ==
  width >= 4 \/ (width = 2 /\ -32768 <= v /\ v <= 32767) \/ (width = 1 /\ -128 <= v /\ v <= 127)

(* Jumps and calls land on the instruction behind their label, whether it
   stands before or after them, is shared by several or names the jump itself:
   the halves -ip and +ip meet.  Jmp adds the immediate to the address of the
   instruction.  (For labels that mark an instruction; `[label, k]' has the
   width of k.) *)
JumpsResolve ==
  Done =>
    \A j \in DOMAIN code.imm :
      HasImmediate(j) /\ IsLabel(Last(j)) /\ symbols[Last(j).val].id < Len(instructions) =>
        LET ea == Last(j).ea
            v == Place(Last(j).val) + Added(Last(j)) - code.at[j]
        IN  code.imm[j] = v \/ (ea.kind = "int" /\ ~Fits(v, VM_integer_size(ea.val)))

(* Integers, characters, builtin variables, sizes and variables declared
   before their use, alone or as an effective address, arrive at the machine
   as written: linking leaves them alone and they fit the width they are
   encoded in.  (For `x - k' and `[x, k]' the width is that of k, so for small
   results.  `[x, #y]' is never assembled, and `[#x, y]' adds the size of y,
   not its address.) *)
Narrow(o, v) ==
  \/ o.minus > 0 /\ o.ea.kind = "none" /\ ~Fits(v, VM_integer_size(o.minus))
  \/ o.ea.kind = "int" /\ ~Fits(v, VM_integer_size(o.ea.val))

OperandsSurvive ==
  Done =>
    \A j \in DOMAIN code.imm :
      HasImmediate(j) /\ ~Patched(j) =>
        LET v == Value(Last(j)) + Added(Last(j))
        IN  Narrow(Last(j), v) \/ code.imm[j] = v

(* The addresses Assembler_link patched with are those VM_code_append_ wrote
   the instructions to: the two compute the sizes on their own. *)
LayoutAgrees ==
  Done =>
    /\ ip = code.size
    /\ \A k \in 1 .. Len(instructions) :
         code.at[k] - code.at[k - 1] = InstrSize(instructions[k])

(* "Linking stage, patch all instructions that need to be patched" (asm.c):
   every name in the source is replaced by what it stands for. *)
AllReferencesPatched ==
  Done =>
    \A j \in DOMAIN code.imm :
      HasImmediate(j) /\ Refers(Last(j)) /\ Last(j).minus = 0 /\ Last(j).ea = NoEA =>
        IF IsLabel(Last(j)) THEN code.at[j] + code.imm[j] = Place(Last(j).val)
        ELSE code.imm[j] = Place(Last(j).val)

(* Once the output is open, the program ends and tells how: with success when
   the code was handed to fwrite, which may have written a part of it only, and
   otherwise with a failure, for errors found while parsing or only by the
   linker, or by an abort in the middle of a statement, and then it leaves an
   empty file and never some code. *)
ExitTellsTheFile ==
  phase = "parse" ~>
    \/ phase = "success" /\ file \in {"code", "part"}
    \/ phase \in {"failure", "abort"} /\ file = "empty"

(* No reference is patched but those of the source: an instruction is on the
   linker's list only for a name that one of its operands has.  A statement
   that failed behind its first operand leaves a reference under the index of
   the instruction that the next statement appends; it never gets this far. *)
PatchesAreMeant ==
  phase \in {"link", "done"} =>
    \A k \in DOMAIN patchWork :
      /\ patchWork[k][1] < Len(instructions)
      /\ LET os == instructions[patchWork[k][1] + 1].src
         IN  \E n \in DOMAIN os : Refers(os[n]) /\ os[n].val = patchWork[k][2]
=============================================================================
