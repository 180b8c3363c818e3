------------------------------ MODULE Machine ------------------------------
(***************************************************************************)
(* The instruction set of the virtual machine: how instructions are put    *)
(* together (instr.h), encoded (VM_code_append_), listed                   *)
(* (VM_code_disassemble_), fetched (VM_fetch) and executed (VM_execute),   *)
(* in the memory that VM_init_ lays out.                                   *)
(*                                                                         *)
(* The header bytes of an instruction are bytes of 8 bits.  A byte of data *)
(* (of a register, of memory, of an immediate) has Radix values instead of *)
(* 256, so that the four data sizes of 1, 2, 4 and 8 bytes keep their      *)
(* proportions and TLC can count to the end of them.                       *)
(*                                                                         *)
(* call, ret, ncall, alloca, alloc and dlloc, and the arguments of VM_run, *)
(* are the subject of VMStack and VMHeap.  Left out here: traces and the   *)
(* debugger hook.                                                          *)
(***************************************************************************)
EXTENDS Integers, Sequences, FiniteSets, TLC, Bitwise

CONSTANTS Radix,        \* values of a data byte
          Programs,     \* programs: sequences of instructions, see Source
          Consts,       \* the bytes in front of the code: header, constants
          Requests,     \* <<mem, ss>>: memory and stack sizes asked for
          Descriptors,  \* bytes of the heap's own records (Heap, HeapBlock)
          HostBase,     \* the host address of the first byte of memory
          MaxUcs,       \* characters: 0x200000 in the code
          MaxCut        \* bytes that may be missing at the end of the file

ASSUME MachineAssumption ==
    /\ Radix \in Nat \ {0, 1}
    /\ Requests \subseteq Nat \X Nat
    /\ {Descriptors, HostBase, MaxUcs, MaxCut} \subseteq Nat
    /\ \A i \in 1..Len(Consts) : Consts[i] \in 0..Radix - 1

VARIABLES status,       \* "off", "ready", "run", "done", "abort" or "wild"
          asked,        \* the request VM_init was called with
          source,       \* the program, as it was written
          code,         \* the loaded file
          ram,          \* Memory: size, sb, hb, hlm
          mem,          \* the bytes of memory
          regs,         \* the registers
          out           \* what was printed last

vars == <<status, asked, source, code, ram, mem, regs, out>>

(***************************************************************************)
(* Modes, registers, op codes.                                             *)
(***************************************************************************)
szByte == 0
szShort == 1
szWord == 2
szQuad == 3
vmSizeTbl == [m \in szByte..szQuad |-> 2^m]

sp == 6
ip == 7
bp == 8
flg == 9
Registers == 0..flg

amReg == 0
amImm == 1

flgZero == 4
flgLess == 2
flgGreater == 1

OpCodes ==
    <<"halt", "dbg", "ret", "jmp", "jmpz", "jmpnz", "jmpg", "jmps", "lnot",
      "bnot", "inc", "dec", "call", "push", "pop", "popn", "puti", "puts",
      "putc", "mcpy", "dlloc", "ncall", "alloca", "rmem", "mov", "add", "sub",
      "and", "or", "sar", "sal", "xor", "bor", "band", "mul", "div", "mod",
      "cmp", "alloc">>

Opc(name) == (CHOOSE i \in DOMAIN OpCodes : OpCodes[i] = name) - 1

(***************************************************************************)
(* Integers of a width: VM_read extends the sign, VM_write cuts.           *)
(***************************************************************************)
Values(m) == Radix ^ vmSizeTbl[m]
Cut(v, m) == v % Values(m)
Signed(v, m) == IF 2 * Cut(v, m) >= Values(m) THEN Cut(v, m) - Values(m)
                                              ELSE Cut(v, m)
u32(v) == v % Values(szWord)
u64(v) == v % Values(szQuad)

(* The bytes of v, lowest first, and the number a sequence of bytes holds  *)
Bytes(v, m) == [i \in 1..vmSizeTbl[m] |-> (v \div Radix^(i - 1)) % Radix]
Number(bytes) ==
    LET sum[i \in 0..Len(bytes)] ==
            IF i = 0 THEN 0 ELSE sum[i - 1] + bytes[i] * Radix^(i - 1)
    IN  sum[Len(bytes)]

(***************************************************************************)
(* Instructions.  A source instruction is [op, m, a, b]; an operand says   *)
(* what it is (k) and carries a register r, a number n and the mode w in   *)
(* which the number is written.  The operators named after the macros of   *)
(* instr.h give the fields of Instruction that the macro sets.             *)
(***************************************************************************)
Source(op, m, a, b) == [op |-> op, m |-> m, a |-> a, b |-> b]
None == [k |-> "none"]
R(r) == [k |-> "reg", r |-> r]
M(r) == [k |-> "mem", r |-> r]
I(n, w) == [k |-> "imm", n |-> n, w |-> w]
A(n, w) == [k |-> "abs", n |-> n, w |-> w]
E(r, n, w) == [k |-> "ea", r |-> r, n |-> n, w |-> w]
L(i) == [k |-> "label", to |-> i]

rRa(r) == [ra |-> r, iam |-> 0]
mRa(r) == [ra |-> r, iam |-> 1]
mIMa(w, n) == [iam |-> 1, rmd |-> amImm, ra |-> w, ii |-> n]
xIMa(w, n) == [iam |-> 0, rmd |-> amImm, ra |-> w, ii |-> n]
rRb(r) == [rb |-> r, ibm |-> 0, rmd |-> amReg]
mRb(r) == [rb |-> r, ibm |-> 1, rmd |-> amReg]
mIMb(w, n) == [ibm |-> 1, rmd |-> amImm, ims |-> w, ii |-> n]
xIMb(w, n) == [ibm |-> 0, rmd |-> amImm, ims |-> w, ii |-> n]
rbEA(r, w, n) == [ims |-> w, iea |-> 1, ii |-> n] @@ mRb(r)

OneOperand(o) == CASE o.k = "reg" -> rRa(o.r)
                   [] o.k = "mem" -> mRa(o.r)
                   [] o.k = "imm" -> xIMa(o.w, o.n)
                   [] o.k = "abs" -> mIMa(o.w, o.n)
SecondOperand(o) == CASE o.k = "reg" -> rRb(o.r)
                      [] o.k = "mem" -> mRb(o.r)
                      [] o.k = "imm" -> xIMb(o.w, o.n)
                      [] o.k = "abs" -> mIMb(o.w, o.n)
                      [] o.k = "ea"  -> rbEA(o.r, o.w, o.n)

Zeroed == [osz |-> 0, opc |-> 0, ra |-> 0, iam |-> 0, rmd |-> 0, imd |-> 0,
           ims |-> 0, rb |-> 0, ibm |-> 0, iea |-> 0, ii |-> 0]

(* The mode is put behind the operands: dB, dS, dW, dQ                     *)
dMode(m) == [imd |-> m]

B0_(op, n) == [osz |-> n, opc |-> Opc(op)]

(* The braces of c<OP>(...): a field set twice keeps the last value.       *)
cOP(s) == dMode(s.m) @@ B0_(s.op, 1) @@ Zeroed

cOP_A(s, first) == dMode(s.m) @@ first @@ B0_(s.op, 2) @@ Zeroed

cOP_AB(s, first) == dMode(s.m) @@ SecondOperand(s.b) @@ first @@ B0_(s.op, 3) @@ Zeroed

(* A label was turned into the distance to it by the linker.               *)
Instr(s, distance) ==
    LET first == IF s.a.k = "label" THEN xIMa(szWord, distance)
                                    ELSE OneOperand(s.a)
    IN  CASE s.a.k = "none" -> cOP(s)
          [] s.a.k /= "none" /\ s.b.k = "none" -> cOP_A(s, first)
          [] OTHER -> cOP_AB(s, first)

(* The mode in which the immediate value of an instruction is written      *)
ImmediateSize(ins) == IF ins.osz = 2 THEN ins.ra ELSE ins.ims

b1(ins) == ins.osz + 4 * ins.opc
b2(ins) == ins.ra + 16 * ins.iam + 32 * ins.rmd + 64 * ins.imd
b3(ins) == ins.ims + 4 * ins.rb + 64 * ins.ibm + 128 * ins.iea

VM_code_append(ins) ==
    <<b1(ins)>>
    \o (IF ins.osz > 1 THEN <<b2(ins)>> ELSE <<>>)
    \o (IF ins.osz > 2 THEN <<b3(ins)>> ELSE <<>>)
    \o (IF ins.osz > 1 /\ (ins.rmd = amImm \/ ins.iea = 1)
        THEN Bytes(ins.ii, ImmediateSize(ins)) ELSE <<>>)

(* Where the instructions of program p start; sizes do not depend on the   *)
(* distances, which are written in a word                                  *)
Size(s) == Len(VM_code_append(Instr(s, 0)))
Address(p) ==
    LET at[i \in 1..Len(p) + 1] ==
            IF i = 1 THEN Len(Consts) ELSE at[i - 1] + Size(p[i - 1])
    IN  at
Distance(p, i) == IF p[i].a.k = "label"
                  THEN Address(p)[p[i].a.to] - Address(p)[i] ELSE 0
VM_code(p) ==
    LET upTo[i \in 0..Len(p)] ==
            IF i = 0 THEN Consts
            ELSE upTo[i - 1] \o VM_code_append(Instr(p[i], Distance(p, i)))
    IN  upTo[Len(p)]

(***************************************************************************)
(* Decoding: for the listing and for execution.  next is the address       *)
(* behind the instruction; what lies behind the file reads as 0 here and   *)
(* is rejected, or not listed at all.                                      *)
(***************************************************************************)
At(i) == IF i < Len(code) THEN code[i + 1] ELSE 0
Span(i, m) == [j \in 1..vmSizeTbl[m] |-> At(i + j - 1) % Radix]

First(b) == [osz |-> b % 4, opc |-> b \div 4]
Second(b) == [ra |-> b % 16, iam |-> (b \div 16) % 2, rmd |-> (b \div 32) % 2,
              imd |-> b \div 64]
Third(b) == [ims |-> b % 4, rb |-> (b \div 4) % 16, ibm |-> (b \div 64) % 2,
             iea |-> b \div 128]

VM_fetch(i) ==
    LET one   == First(At(i)) @@ Zeroed
        two   == Second(At(i + 1)) @@ one
        three == IF one.osz = 3 THEN Third(At(i + 2)) @@ two ELSE two
        short == three.osz = 2
        imm   == three.rmd = amImm \/ three.iea = 1
        fixed == IF imm /\ short THEN [three EXCEPT !.ims = three.ra, !.ra = 0]
                                 ELSE three
        end   == i + one.osz
        full  == IF imm THEN [fixed EXCEPT !.ii =
                                Signed(Number(Span(end, fixed.ims)), fixed.ims)]
                        ELSE fixed
        next  == IF imm THEN end + vmSizeTbl[fixed.ims] ELSE end
    IN  IF one.osz = 1 THEN [ins |-> one, next |-> i + 1, ok |-> i < Len(code)]
                       ELSE [ins |-> full, next |-> next,
                             ok |-> next <= Len(code)]

(* Fault: the mode of an immediate is left where the encoder put it        *)
VM_code_instruction_atUnfixed(i) ==
    LET head == First(At(i)) @@ Zeroed
        two  == Second(At(i + 1)) @@ head
        three == IF head.osz = 3 THEN Third(At(i + 2)) @@ two ELSE two
        imm  == head.osz > 1 /\ (three.rmd = amImm \/ three.iea = 1)
    IN  IF head.osz <= 1 THEN [ins |-> head, size |-> head.osz]
        ELSE [ins |-> IF imm THEN [three EXCEPT !.ii =
                  Signed(Number(Span(i + head.osz, three.ims)), three.ims)]
                             ELSE three,
              size |-> head.osz + IF imm THEN vmSizeTbl[three.ims] ELSE 0]

VM_code_instruction_at(i) ==
    LET head == First(At(i)) @@ Zeroed
        two  == Second(At(i + 1)) @@ head
        fixed == IF head.osz = 2 /\ two.rmd = amImm
                 THEN [two EXCEPT !.ims = two.ra, !.ra = 0] ELSE two
        three == IF head.osz = 3 THEN Third(At(i + 2)) @@ fixed ELSE fixed
        imm  == three.rmd = amImm \/ three.iea = 1
    IN  IF i + head.osz > Len(code)
        THEN [ins |-> [head EXCEPT !.osz = 0], size |-> 0]
        ELSE IF head.osz <= 1 THEN [ins |-> head, size |-> head.osz]
        ELSE [ins |-> IF imm THEN [three EXCEPT !.ii =
                  Signed(Number(Span(i + head.osz, three.ims)), three.ims)]
                             ELSE three,
              size |-> head.osz + IF imm THEN vmSizeTbl[three.ims] ELSE 0]

(* VM_code_print_instruction_: the operands that are shown, with brackets or *)
(* without, by the names of registers and by numbers                        *)
Shown(brackets, text) == [mem |-> brackets = 1, text |-> text]
Reg(r) == <<"r", r>>
Num(n) == <<"n", n>>

VM_code_print_instruction(ins) ==
    LET name == IF ins.osz = 0 THEN "...null..."
                ELSE IF ins.opc >= Len(OpCodes) THEN "not-sup"
                ELSE OpCodes[ins.opc + 1]
        second == IF ins.rmd = amReg
                  THEN Reg(ins.rb) \o (IF ins.iea = 1 THEN Num(ins.ii) ELSE <<>>)
                  ELSE Num(ins.ii)
    IN  <<name, ins.imd>>
        \o (CASE ins.osz = 2 -> <<Shown(ins.iam, IF ins.rmd = amReg THEN Reg(ins.ra)
                                                                   ELSE Num(ins.ii))>>
              [] ins.osz = 3 -> <<Shown(ins.iam, Reg(ins.ra)), Shown(ins.ibm, second)>>
              [] OTHER -> <<>>)

(* The lines that VM_code_disassemble_ prints, by address, from the db of the *)
(* header                                                                     *)
VM_code_disassemble ==
    LET lines[i \in Len(Consts)..Len(code)] ==
            LET d == VM_code_instruction_at(i)
                next == IF d.size = 0 THEN i + 1 ELSE i + d.size
            IN  IF i = Len(code) THEN <<>>
                ELSE (i :> VM_code_print_instruction(d.ins))
                     @@ (IF next < Len(code) THEN lines[next] ELSE <<>>)
    IN  lines[Len(Consts)]

(***************************************************************************)
(* Initialisation.                                                         *)
(***************************************************************************)
Align == vmSizeTbl[szQuad]
CynAlign(n) == ((n + Align - 1) \div Align) * Align

Init ==
    /\ status = "off" /\ asked = <<0, 0>>
    /\ source = <<>> /\ code = <<>> /\ mem = <<>> /\ out = <<>>
    /\ ram = [size |-> 0, sb |-> 0, hb |-> 0, hlm |-> 0]
    /\ regs = [r \in Registers |-> 0]

(* Fault: the heap may grow up to the end of the memory                    *)
VM_memory_initNoStack(size, bk, ss, db) ==
    [size |-> size - bk, sb |-> u32(size - bk - ss), hb |-> db,
     hlm |-> u32(size - bk - Align)]

VM_memory_init(size, bk, ss, db) ==
    [size |-> size - bk,
     sb   |-> u32(size - bk - ss),
     hb   |-> db,
     hlm  |-> u32(size - bk - ss - Align)]

(* Fresh memory holds anything; 1 stands for it.  The eight bytes that     *)
(* mark the first word of the stack are written at ss, ss - 1 .. ss - 7    *)
(* from the bottom of the memory, over what is there.  MEM refuses an      *)
(* address behind the end of the memory but not the end itself: a stack of *)
(* all the memory has its first byte written behind it.                    *)
Marker == Radix - 1
VM_init ==
    /\ status = "off"
    /\ \E p \in Programs, q \in Requests, cut \in 0..MaxCut :
         LET db   == Len(Consts)
             bk   == CynAlign(Descriptors)
             size == CynAlign(q[1] + db + bk)
             ss   == CynAlign(q[2] + Align)
             lay  == VM_memory_init(size, bk, ss, db)
         IN /\ source' = p /\ asked' = q
            /\ code' = SubSeq(VM_code(p), 1, Len(VM_code(p)) - cut)
            /\ ram' = lay
            /\ mem' = [a \in 0..lay.size - 1 |->
                         IF a \in ss - 7 .. ss THEN Marker
                         ELSE IF a < db THEN Consts[a + 1] ELSE 1]
            /\ status' \in CASE ss > lay.size -> {"abort"}
                              [] ss = lay.size -> {"ready", "wild"}
                              [] ss < lay.size -> {"ready"}
    /\ UNCHANGED <<regs, out>>

Stored(memory, a, v, m) ==
    [x \in DOMAIN memory |->
        IF x \in a .. a + vmSizeTbl[m] - 1
        THEN Bytes(v, m)[x - a + 1] ELSE memory[x]]

(* The registers are cleared, the number of arguments, the address behind  *)
(* the code and bp are pushed as a caller's frame                          *)
VM_run ==
    /\ status = "ready"
    /\ LET top == ram.size
           one == Stored(mem, top - Align, 0, szQuad)
           two == Stored(one, top - 2 * Align, Len(code), szQuad)
           fits == top - 3 * Align > ram.sb
       IN /\ mem' = IF fits THEN Stored(two, top - 3 * Align, top, szQuad)
                    ELSE mem
          /\ regs' = [r \in Registers |->
                        CASE r \in {sp, bp} -> IF fits THEN top - 3 * Align
                                               ELSE top
                          [] r = ip -> Len(Consts)
                          [] OTHER -> 0]
          /\ status' = IF fits THEN "run" ELSE "abort"
    /\ UNCHANGED <<asked, source, code, ram, out>>

VM_deinit ==
    /\ status \in {"done", "ready"}
    /\ status' = "off" /\ asked' = <<0, 0>>
    /\ source' = <<>> /\ code' = <<>> /\ mem' = <<>> /\ out' = <<>>
    /\ ram' = [size |-> 0, sb |-> 0, hb |-> 0, hlm |-> 0]
    /\ regs' = [r \in Registers |-> 0]

(***************************************************************************)
(* Execution.  A place is a register, an address of memory or the          *)
(* temporary that holds an immediate value.  rg are the registers with ip  *)
(* behind the instruction, as they are while it is executed.               *)
(***************************************************************************)
RegisterPlace(r) == [k |-> "reg", at |-> r]
MemoryPlace(a) == [k |-> "mem", at |-> a]
Temporary(n) == [k |-> "tmp", at |-> n]

(* The address that MEM checks; an offset is added behind the check        *)
Checked(ins, rg) ==
    (IF ins.iam = 0 THEN {}
     ELSE IF ins.osz = 2 /\ ins.rmd = amImm THEN {u32(ins.ii)}
     ELSE {u32(rg[ins.ra])})
    \cup
    (IF ins.ibm = 0 THEN {}
     ELSE IF ins.rmd = amImm THEN {u32(ins.ii)} ELSE {u32(rg[ins.rb])})

(* Fault: an operand that is a register in two-operand instructions is     *)
(* taken for a reference when the other operand is one                     *)
PlaceBMixed(ins, rg) ==
    IF ins.rmd = amReg
    THEN IF ins.ibm + ins.iam > 0
         THEN MemoryPlace(u32(rg[ins.rb]) + IF ins.iea = 1 THEN ins.ii ELSE 0)
         ELSE RegisterPlace(ins.rb)
    ELSE IF ins.ibm = 1 THEN MemoryPlace(u32(ins.ii)) ELSE Temporary(ins.ii)

PlaceA(ins, rg) ==
    IF ins.osz = 2 /\ ins.rmd = amImm
    THEN IF ins.iam = 1 THEN MemoryPlace(u32(ins.ii)) ELSE Temporary(ins.ii)
    ELSE IF ins.iam = 1 THEN MemoryPlace(u32(rg[ins.ra]))
                        ELSE RegisterPlace(ins.ra)
PlaceB(ins, rg) ==
    IF ins.rmd = amReg
    THEN IF ins.ibm = 1
         THEN MemoryPlace(u32(rg[ins.rb]) + IF ins.iea = 1 THEN ins.ii ELSE 0)
         ELSE RegisterPlace(ins.rb)
    ELSE IF ins.ibm = 1 THEN MemoryPlace(u32(ins.ii)) ELSE Temporary(ins.ii)

Inside(place, m) ==
    place.k = "mem" => /\ place.at >= 0
                       /\ place.at + vmSizeTbl[m] <= ram.size
VM_read(place, m, rg) ==
    CASE place.k = "reg" -> Signed(rg[place.at], m)
      [] place.k = "tmp" -> Signed(place.at, m)
      [] place.k = "mem" ->
           Signed(Number([i \in 1..vmSizeTbl[m] |-> mem[place.at + i - 1]]), m)
VM_write(place, v, m, rg) ==
    /\ regs' = IF place.k /= "reg" THEN rg
               ELSE [rg EXCEPT ![place.at] = @ - Cut(@, m) + Cut(v, m)]
    /\ mem' = IF place.k /= "mem" THEN mem ELSE Stored(mem, place.at, v, m)

BinaryOps == {"add", "sub", "and", "or", "sar", "sal", "xor", "bor", "band",
              "mul", "div"}
Truth(b) == IF b THEN 1 ELSE 0
Quotient(x, y) == LET q == (IF x < 0 THEN -x ELSE x) \div (IF y < 0 THEN -y ELSE y)
                  IN  IF (x < 0) = (y < 0) THEN q ELSE -q
(* Division by 0, and of the smallest number by -1, traps; a shift by a    *)
(* negative count, or by 64 and more, is not defined                       *)
Defined(op, x, y) ==
    /\ op = "div" => /\ y /= 0
                     /\ ~(x = -(Values(szQuad) \div 2) /\ y = -1)
    /\ op \in {"sar", "sal"} => y >= 0 /\ 2^y < Values(szQuad)
Apply(op, x, y) ==
    CASE op = "add" -> x + y
      [] op = "sub" -> x - y
      [] op = "and" -> Truth(x /= 0 /\ y /= 0)
      [] op = "or"  -> Truth(x /= 0 \/ y /= 0)
      [] op = "sar" -> x \div 2^y
      [] op = "sal" -> x * 2^y
      [] op = "xor" -> u64(x) ^^ u64(y)
      [] op = "bor" -> u64(x) | u64(y)
      [] op = "band" -> u64(x) & u64(y)
      [] op = "mul" -> x * y
      [] op = "div" -> Quotient(x, y)
UnaryOps == {"lnot", "bnot", "inc", "dec"}
ApplyUnary(op, x) == CASE op = "lnot" -> Truth(x = 0)
                       [] op = "bnot" -> -x - 1
                       [] op = "inc" -> x + 1
                       [] op = "dec" -> x - 1

Flags(x, y) == IF x = y THEN flgZero ELSE IF x < y THEN flgLess ELSE flgGreater
Set(flags, f) == (flags \div f) % 2 = 1
Jumps(op, flags) == \/ op = "jmp"
                    \/ op = "jmpz" /\ Set(flags, flgZero)
                    \/ op = "jmpnz" /\ ~Set(flags, flgZero)
                    \/ op = "jmpg" /\ Set(flags, flgGreater)
                    \/ op = "jmps" /\ Set(flags, flgLess)
JumpOps == {"jmp", "jmpz", "jmpnz", "jmpg", "jmps"}

(* The bytes that VM_put_utf8_chr_ prints                                  *)
put_utf8(chr) ==
    LET tail(shift) == 128 + ((chr \div 2^shift) % 64)
    IN  IF chr < 128 THEN <<chr>>
        ELSE IF chr < 2048 THEN <<192 + chr \div 64, tail(0)>>
        ELSE IF chr < 65536 THEN <<224 + chr \div 4096, tail(6), tail(0)>>
        ELSE <<240 + chr \div 262144, tail(12), tail(6), tail(0)>>

Stops(how) == status' = how /\ UNCHANGED <<mem, regs, out>>

(* The modes in which OP_CASES accesses the operands                       *)
ModeA(ins) == ins.imd
ModeB(ins) == IF ins.osz > 1 /\ ins.rmd = amReg THEN ins.imd ELSE ins.ims

(* MEM checked where an operand starts, before an offset is added.  Whether *)
(* it ends inside the memory is not checked.                                *)
Escapes(ins, rg) ==
    LET op == OpCodes[ins.opc + 1]
        modesA == IF ins.osz = 3 THEN {ModeA(ins)}
                  ELSE IF op \in UnaryOps THEN {ModeA(ins), ModeB(ins)}
                  ELSE {ModeB(ins)}
    IN  \/ ins.osz > 1 /\ \E m \in modesA : ~Inside(PlaceA(ins, rg), m)
        \/ ins.osz = 3 /\ ~Inside(PlaceB(ins, rg), ModeB(ins))

(* What instruction ins at iip does, all its places being inside memory    *)
Effect(ins, iip, rg) ==
    LET op == OpCodes[ins.opc + 1]
        TA == ModeA(ins)
        TB == ModeB(ins)
        rA == PlaceA(ins, rg)
        rB == PlaceB(ins, rg)
        a  == VM_read(rA, TB, rg)
        Goes == status' = "run"
    IN  \/ /\ op \in BinaryOps
           /\ LET x == VM_read(rA, TA, rg)
                  y == VM_read(rB, TB, rg)
              IN  IF Defined(op, x, y)
                  THEN /\ VM_write(rA, Apply(op, x, y), TA, rg)
                       /\ Goes /\ UNCHANGED out
                  ELSE Stops("wild")
        \/ /\ op = "mov"
           /\ VM_write(rA, VM_read(rB, TB, rg), TA, rg)
           /\ Goes /\ UNCHANGED out
        \/ /\ op = "rmem"
           /\ LET v == u32(VM_read(rB, TB, rg))
              IN  IF v > ram.size THEN Stops("abort")
                  ELSE /\ VM_write(rA, HostBase + v, TA, rg)
                       /\ Goes /\ UNCHANGED out
        \/ /\ op \in UnaryOps
           /\ VM_write(rA, ApplyUnary(op, a), TA, rg)
           /\ Goes /\ UNCHANGED out
        \/ /\ op = "push"
           /\ IF rg[sp] - Align <= ram.sb THEN Stops("abort")
              ELSE /\ regs' = [rg EXCEPT ![sp] = @ - Align]
                   /\ mem' = Stored(mem, rg[sp] - Align, a, szQuad)
                   /\ Goes /\ UNCHANGED out
        \/ /\ op = "pop"
           /\ IF rg[sp] + Align > ram.size THEN Stops("abort")
              ELSE /\ LET v == VM_read(MemoryPlace(rg[sp]), szQuad, rg)
                      IN  VM_write(rA, v, TB, [rg EXCEPT ![sp] = @ + Align])
                   /\ Goes /\ UNCHANGED out
        \/ /\ op = "popn"
           /\ LET n == Align * (a % Values(szByte))
              IN  IF rg[sp] + n > ram.size THEN Stops("abort")
                  ELSE /\ regs' = [rg EXCEPT ![sp] = @ + n]
                       /\ Goes /\ UNCHANGED <<mem, out>>
        \/ /\ op \in JumpOps
           /\ regs' = IF Jumps(op, rg[flg]) THEN [rg EXCEPT ![ip] = u64(iip + a)]
                      ELSE rg
           /\ Goes /\ UNCHANGED <<mem, out>>
        \/ /\ op = "cmp"
           /\ regs' = [rg EXCEPT ![flg] =
                          Flags(VM_read(rA, TA, rg), VM_read(rB, TB, rg))]
           /\ Goes /\ UNCHANGED <<mem, out>>
        \/ /\ op = "putc"
           /\ IF u32(a) >= MaxUcs THEN Stops("abort")
              ELSE out' = put_utf8(u32(a)) /\ regs' = rg /\ Goes /\ UNCHANGED mem
        \/ /\ op = "puti"
           /\ out' = <<"number", a>> /\ regs' = rg /\ Goes /\ UNCHANGED mem
        \/ /\ op = "puts"
           /\ LET at == IF ins.iam = 1 THEN rA.at ELSE a - HostBase
              IN  IF at \in 0..ram.size - 1
                  THEN /\ out' = <<"string", at>>
                       /\ regs' = rg /\ Goes /\ UNCHANGED mem
                  ELSE Stops("wild")
        \/ /\ op = "halt"
           /\ status' = "done" /\ regs' = rg /\ UNCHANGED <<mem, out>>
        \/ /\ op = "dbg"
           /\ Goes /\ regs' = rg /\ UNCHANGED <<mem, out>>
        \/ /\ op \in {"mod", "mcpy"}
           /\ Stops("abort")

(* One round of the loop of VM_run                                         *)
VM_execute ==
    /\ status = "run" /\ regs[ip] < Len(code)
    /\ LET f  == VM_fetch(regs[ip])
           rg == [regs EXCEPT ![ip] = f.next]
       IN  IF ~f.ok \/ \E a \in Checked(f.ins, rg) : a > ram.size
           THEN Stops("abort")
           ELSE IF Escapes(f.ins, rg) THEN Stops("wild")
           ELSE Effect(f.ins, regs[ip], rg)
    /\ UNCHANGED <<asked, source, code, ram>>

(* The loop ends behind the last instruction                               *)
Ends ==
    /\ status = "run" /\ regs[ip] >= Len(code)
    /\ status' = "done"
    /\ UNCHANGED <<asked, source, code, ram, mem, regs, out>>

Next == VM_init \/ VM_run \/ VM_execute \/ Ends \/ VM_deinit

Spec == Init /\ [][Next]_vars

(***************************************************************************)
(* Properties.  Source programs neither name ip, sp, bp or flg as a        *)
(* destination nor write to the constants.                                 *)
(***************************************************************************)
Live == status = "run" /\ regs[ip] < Len(code)
Index(a) == CHOOSE i \in 1..Len(source) : Address(source)[i] = a

(* An instruction of the source as a line of a listing: labels are gone,   *)
(* the rest is as it was written                                           *)
Line(s, distance) ==
    LET Op(o) == CASE o.k = "reg" -> Shown(0, Reg(o.r))
                   [] o.k = "mem" -> Shown(1, Reg(o.r))
                   [] o.k = "imm" -> Shown(0, Num(o.n))
                   [] o.k = "abs" -> Shown(1, Num(o.n))
                   [] o.k = "ea"  -> Shown(1, Reg(o.r) \o Num(o.n))
                   [] o.k = "label" -> Shown(0, Num(distance))
    IN  <<s.op, s.m>> \o (IF s.a = None THEN <<>> ELSE <<Op(s.a)>>)
                      \o (IF s.b = None THEN <<>> ELSE <<Op(s.b)>>)

(* Whatever the machine fetches is an instruction of the source.  The      *)
(* listing shows it, at its address and with the operands it was written   *)
(* with, and VM_fetch and VM_code_instruction_at, two decoders written     *)
(* apart, read it alike: after any jumps, for every form of operands, also *)
(* when the file lost its last byte.                                       *)
ListingIsExecution ==
    Live /\ VM_fetch(regs[ip]).ok =>
        LET f == VM_fetch(regs[ip])
            i == Index(regs[ip])
        IN  /\ \E j \in 1..Len(source) : Address(source)[j] = regs[ip]
            /\ VM_code_instruction_at(regs[ip])
                 = [ins |-> f.ins, size |-> f.next - regs[ip]]
            /\ regs[ip] \in DOMAIN VM_code_disassemble
            /\ VM_code_disassemble[regs[ip]] = Line(source[i], Distance(source, i))

(* What VM_init_ lays out holds while programs run.  The stack never grows *)
(* below its bottom.  With as much memory as the rounded stack, its first  *)
(* word and one word more, constants, heap and stack follow each other, no *)
(* matter how the three sizes round, and the constants stay as the code    *)
(* has them but for those that the marker of the stack was written over: a *)
(* file with up to ss - 7 of them loses none.  The help of -Xms asks for   *)
(* memory larger than the stack only (main.c:44), which is not enough:     *)
(* with less the regions overlap, and the run has such requests too.       *)
RegionsApart ==
    status \in {"ready", "run"} =>
        LET ss == CynAlign(asked[2] + Align)
        IN  /\ ram.sb < ram.size
            /\ status = "run" => regs[sp] > ram.sb /\ regs[sp] <= ram.size
            /\ asked[1] >= ss + Align =>
                 /\ Len(Consts) <= ram.hb /\ ram.hb <= ram.hlm
                 /\ ram.hlm < ram.sb
                 /\ \A i \in 1..Len(Consts) :
                       i - 1 \notin ss - 7 .. ss => mem[i - 1] = Consts[i]

(* What the source says, without encoding: the value of an operand, the    *)
(* destination after v was written to it                                   *)
InMemory(a, m) ==
    Signed(Number([i \in 1..vmSizeTbl[m] |-> mem[a + i - 1]]), m)
ValueOf(o, m) ==
    CASE o.k = "reg" -> Signed(regs[o.r], m)
      [] o.k = "mem" -> InMemory(u32(regs[o.r]), m)
      [] o.k = "imm" -> o.n
      [] o.k = "abs" -> InMemory(o.n, o.w)
      [] o.k = "ea"  -> InMemory(u32(regs[o.r]) + o.n, m)
RegsWith(o, v, m) ==
    IF o.k /= "reg" THEN regs
    ELSE [regs EXCEPT ![o.r] = Values(m) * (@ \div Values(m)) + Cut(v, m)]
MemWith(o, v, m) ==
    CASE o.k = "mem" -> Stored(mem, u32(regs[o.r]), v, m)
      [] o.k = "abs" -> Stored(mem, o.n, v, m)
      [] OTHER -> mem
Decoded(bytes) ==
    LET payload == <<bytes[1] % (IF Len(bytes) = 1 THEN 128 ELSE 2^(7 - Len(bytes)))>>
                   \o [i \in 1..Len(bytes) - 1 |-> bytes[i + 1] % 64]
        sum[i \in 0..Len(bytes)] ==
            IF i = 0 THEN 0 ELSE 64 * sum[i - 1] + payload[i]
    IN  sum[Len(bytes)]

(* Source instruction s, the i-th, was executed by this step               *)
Meant(s, i) ==
    LET a == ValueOf(s.a, s.m)
        b == ValueOf(s.b, s.m)
        follow == Address(source)[i + 1]
        Becomes(rg, m) == regs' = rg /\ mem' = m
        Assigns(v) == Becomes([RegsWith(s.a, v, s.m) EXCEPT ![ip] = follow],
                              MemWith(s.a, v, s.m))
    IN  CASE s.op \in BinaryOps -> Assigns(Apply(s.op, a, b))
          [] s.op \in UnaryOps -> Assigns(ApplyUnary(s.op, a))
          [] s.op = "mov" -> Assigns(b)
          [] s.op = "rmem" -> Assigns(HostBase + u32(b))
          [] s.op = "pop" ->
               Becomes([RegsWith(s.a, InMemory(regs[sp], szQuad), s.m)
                           EXCEPT ![ip] = follow, ![sp] = @ + Align],
                       MemWith(s.a, InMemory(regs[sp], szQuad), s.m))
          [] s.op = "push" ->
               Becomes([regs EXCEPT ![ip] = follow, ![sp] = @ - Align],
                       Stored(mem, regs[sp] - Align, a, szQuad))
          [] s.op = "popn" ->
               Becomes([regs EXCEPT ![ip] = follow, ![sp] = @ + Align * a], mem)
          [] s.op = "cmp" ->
               Becomes([regs EXCEPT ![ip] = follow, ![flg] = Flags(a, b)], mem)
          [] s.op \in JumpOps ->
               Becomes([regs EXCEPT ![ip] =
                  IF Jumps(s.op, regs[flg]) THEN Address(source)[s.a.to]
                                            ELSE follow], mem)
          [] OTHER ->
               /\ Becomes([regs EXCEPT ![ip] = follow], mem)
               /\ s.op = "putc" => Decoded(out') = u32(a)
               /\ s.op = "puti" => out' = <<"number", a>>
               /\ s.op = "puts" => out' = <<"string",
                     IF s.a.k = "mem" THEN u32(regs[s.a.r]) ELSE a - HostBase>>

(* A program that was encoded, loaded and fetched does what its source     *)
(* says: every step reads the operands that were written, in the mode that *)
(* was written, changes the destination in the bytes of that mode, and     *)
(* goes on at the next instruction or at the label.  (An operand at a      *)
(* fixed address is read in the mode in which the address is encoded.)     *)
StepsMeanSource ==
    [][Live /\ status' = "run" =>
         Meant(source[Index(regs[ip])], Index(regs[ip]))]_vars
=============================================================================
