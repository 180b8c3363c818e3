-------------------------- MODULE AssemblerProofs --------------------------
(***************************************************************************)
(* Proofs about the assembler and its linker, Assembler.                   *)
(*                                                                         *)
(* The first part is about the operators: the width of an integer and what *)
(* reading it back gives, the layout of the instructions as a function,    *)
(* and what parsing an operand leaves in an instruction.  The second part  *)
(* is the invariant: what is known of an instruction while the source is   *)
(* read (as long as there was no error), and which halves of its reference *)
(* it holds while the linker's loop runs.                                  *)
(***************************************************************************)
EXTENDS Assembler, FiniteSetTheorems, SequenceTheorems, WellFoundedInduction, TLAPS

(* A set of natural numbers has a least element. *)
LEMMA NatLeast ==
  ASSUME NEW T, T \subseteq Nat, T # {}
  PROVE  \E x \in T : \A y \in T : x <= y
<1>1. PICK x \in T : \A y \in T : ~ (<<y, x>> \in OpToRel(<, Nat))
  BY NatLessThanWellFounded, WFMin
<1>2. \A y \in T : ~ (<<y, x>> \in {ss \in Nat \X Nat : ss[1] < ss[2]})
  BY <1>1 DEF OpToRel
<1>3. ASSUME NEW y \in T PROVE x <= y
  <2>1. x \in Nat /\ y \in Nat
    OBVIOUS
  <2>2. y < x => <<y, x>> \in {ss \in Nat \X Nat : ss[1] < ss[2]}
    BY <2>1
  <2> QED
    BY <1>2, <2>1, <2>2
<1> QED
  BY <1>3

-----------------------------------------------------------------------------
(* VM_integer_size gives a width that the number and its negative fit in, and
   what fits is read back as it was written. *)
Widths == {1, 2, 4, 8}

LEMMA SizeFits ==
  ASSUME NEW v \in Nat, NEW w \in Int, -v <= w, w <= v
  PROVE  VM_integer_size(v) \in Widths /\ Fits(w, VM_integer_size(v))
<1>1. CASE v <= 127
  BY <1>1 DEF VM_integer_size, Widths, Fits
<1>2. CASE v > 127 /\ v <= 32767
  <2>1. VM_integer_size(v) = 2
    BY <1>2 DEF VM_integer_size
  <2>2. -32768 <= w /\ w <= 32767
    BY <1>2
  <2> QED
    BY <2>1, <2>2 DEF Widths, Fits
<1>3. CASE v > 32767
  BY <1>3 DEF VM_integer_size, Widths, Fits
<1> QED
  BY <1>1, <1>2, <1>3

LEMMA ReadBackIs ==
  ASSUME NEW v \in Int, NEW width \in Widths, Fits(v, width)
  PROVE  ReadBack(v, width) = v
<1>1. CASE width \in {4, 8}
  BY <1>1 DEF ReadBack
<1>2. CASE width = 1
  <2>1. 2 ^ (8 * width) = 256 /\ 256 \div 2 = 128
    BY <1>2
  <2>2. -128 <= v /\ v <= 127
    BY <1>2 DEF Fits
  <2>3. CASE v < 0
    <3>1. v % 256 = v + 256
      BY <2>2, <2>3
    <3> QED
      BY <2>1, <2>2, <2>3, <3>1, <1>2 DEF ReadBack
  <2>4. CASE v >= 0
    <3>1. v % 256 = v
      BY <2>2, <2>4
    <3> QED
      BY <2>1, <2>2, <2>4, <3>1, <1>2 DEF ReadBack
  <2> QED
    BY <2>2, <2>3, <2>4
<1>3. CASE width = 2
  <2>1. 2 ^ (8 * width) = 65536 /\ 65536 \div 2 = 32768
    BY <1>3
  <2>2. -32768 <= v /\ v <= 32767
    BY <1>3 DEF Fits
  <2>3. CASE v < 0
    <3>1. v % 65536 = v + 65536
      BY <2>2, <2>3
    <3> QED
      BY <2>1, <2>2, <2>3, <3>1, <1>3 DEF ReadBack
  <2>4. CASE v >= 0
    <3>1. v % 65536 = v
      BY <2>2, <2>4
    <3> QED
      BY <2>1, <2>2, <2>4, <3>1, <1>3 DEF ReadBack
  <2> QED
    BY <2>2, <2>3, <2>4
<1> QED
  BY <1>1, <1>2, <1>3 DEF Widths

-----------------------------------------------------------------------------
(* Places one behind the other, with the sizes w, from s on. *)
Sums(f, n, w, s) ==
  f \in [0 .. n -> Int] /\ f[0] = s /\ \A k \in 1 .. n : f[k] = f[k - 1] + w[k]

LEMMA SumsExist ==
  ASSUME NEW n \in Nat, NEW w \in [1 .. n -> Int], NEW s \in Int
  PROVE  \E f : Sums(f, n, w, s)
<1> DEFINE T == {m \in 0 .. n : ~ \E f : Sums(f, m, w, s)}
<1>1. T = {}
  <2> SUFFICES ASSUME T # {} PROVE FALSE
    OBVIOUS
  <2>1. T \subseteq Nat
    OBVIOUS
  <2>2. PICK m \in T : \A y \in T : m <= y
    BY <2>1, NatLeast
  <2>3. m \in 0 .. n /\ ~ \E f : Sums(f, m, w, s)
    OBVIOUS
  <2>4. m # 0
    <3> SUFFICES ASSUME m = 0 PROVE FALSE
      OBVIOUS
    <3>1. Sums([k \in 0 .. 0 |-> s], 0, w, s)
      BY DEF Sums
    <3> QED
      BY <2>3, <3>1
  <2>5. m - 1 \in 0 .. n /\ m - 1 \notin T
    BY <2>2, <2>3, <2>4
  <2>6. PICK f : Sums(f, m - 1, w, s)
    BY <2>5
  <2> DEFINE g == [k \in 0 .. m |-> IF k = m THEN f[m - 1] + w[m] ELSE f[k]]
  <2>7. f \in [0 .. m - 1 -> Int] /\ f[0] = s /\ \A k \in 1 .. m - 1 : f[k] = f[k - 1] + w[k]
    BY <2>6 DEF Sums
  <2>8. g \in [0 .. m -> Int] /\ g[0] = s
    BY <2>3, <2>4, <2>7
  <2>9. ASSUME NEW k \in 1 .. m PROVE g[k] = g[k - 1] + w[k]
    BY <2>3, <2>4, <2>7
  <2>10. Sums(g, m, w, s)
    BY <2>8, <2>9 DEF Sums
  <2> QED
    BY <2>3, <2>10
<1>2. n \notin T
  BY <1>1
<1>3. n \in 0 .. n
  OBVIOUS
<1> QED
  BY <1>2, <1>3

LEMMA SumsUnique ==
  ASSUME NEW n \in Nat, NEW w \in [1 .. n -> Int], NEW s \in Int,
         NEW f, Sums(f, n, w, s), NEW g, Sums(g, n, w, s)
  PROVE  f = g
<1> DEFINE T == {k \in 0 .. n : f[k] # g[k]}
<1>1. /\ f \in [0 .. n -> Int] /\ f[0] = s /\ \A k \in 1 .. n : f[k] = f[k - 1] + w[k]
      /\ g \in [0 .. n -> Int] /\ g[0] = s /\ \A k \in 1 .. n : g[k] = g[k - 1] + w[k]
  BY DEF Sums
<1>2. T = {}
  <2> SUFFICES ASSUME T # {} PROVE FALSE
    OBVIOUS
  <2>1. T \subseteq Nat
    OBVIOUS
  <2>2. PICK m \in T : \A y \in T : m <= y
    BY <2>1, NatLeast
  <2>3. m \in 0 .. n /\ f[m] # g[m] /\ m # 0
    BY <1>1, <2>2
  <2>4. m - 1 \in 0 .. n /\ m - 1 \notin T /\ m \in 1 .. n
    BY <2>2, <2>3
  <2>5. f[m - 1] = g[m - 1]
    BY <2>4
  <2> QED
    BY <1>1, <2>3, <2>4, <2>5
<1>3. \A k \in 0 .. n : f[k] = g[k]
  BY <1>2
<1> QED
  BY <1>1, <1>3

(* VM_code_append_ writes the instructions one behind the other. *)
LEMMA AppendIs ==
  ASSUME NEW n \in Nat, Len(instructions) = n, NEW s \in Int, NEW w \in [1 .. n -> Int],
         \A k \in 1 .. n : /\ instructions[k].osz \in Int /\ ImmWidth(instructions[k]) \in Int
                           /\ w[k] = instructions[k].osz + ImmWidth(instructions[k])
  PROVE  Sums(VM_code_append(s), n, w, s)
<1> DEFINE F(f) == [k \in 0 .. Len(instructions) |->
                      IF k = 0 THEN s
                      ELSE f[k - 1] + instructions[k].osz + ImmWidth(instructions[k])]
<1>1. VM_code_append(s) = CHOOSE f : f = F(f)
  BY Zenon DEF VM_code_append
<1>2. PICK h : Sums(h, n, w, s)
  BY SumsExist
<1>3. h = F(h)
  <2>1. h \in [0 .. n -> Int] /\ h[0] = s /\ \A k \in 1 .. n : h[k] = h[k - 1] + w[k]
    BY <1>2 DEF Sums
  <2>2. ASSUME NEW k \in 1 .. n
        PROVE  h[k] = h[k - 1] + instructions[k].osz + ImmWidth(instructions[k])
    <3>1. h[k] = h[k - 1] + w[k] /\ h[k - 1] \in Int
      BY <2>1
    <3> QED
      BY <3>1
  <2>3. \A k \in 0 .. n : h[k] = F(h)[k]
    BY <2>1, <2>2
  <2> QED
    BY <2>1, <2>3
<1> DEFINE c == CHOOSE f : f = F(f)
<1>4. c = F(c)
  BY <1>3, Zenon
<1> HIDE DEF c
<1>5. DOMAIN c = 0 .. n /\ c[0] = s
  BY <1>4
<1>6. \A k \in 1 .. n : c[k] = c[k - 1] + instructions[k].osz + ImmWidth(instructions[k])
  BY <1>4
<1>7. \A k \in 0 .. n : c[k] \in Int
  <2> DEFINE T == {k \in 0 .. n : c[k] \notin Int}
  <2> SUFFICES ASSUME T # {} PROVE FALSE
    OBVIOUS
  <2>1. T \subseteq Nat
    OBVIOUS
  <2>2. PICK m \in T : \A y \in T : m <= y
    BY <2>1, NatLeast
  <2>3. m \in 0 .. n /\ c[m] \notin Int /\ m # 0
    BY <1>5, <2>2
  <2>4. m - 1 \in 0 .. n /\ m - 1 \notin T /\ m \in 1 .. n
    BY <2>2, <2>3
  <2>5. c[m - 1] \in Int
    BY <2>4
  <2>6. instructions[m].osz \in Int /\ ImmWidth(instructions[m]) \in Int
    BY <2>4
  <2>7. c[m] = c[m - 1] + instructions[m].osz + ImmWidth(instructions[m])
    BY <1>6, <2>4
  <2>8. c[m] \in Int
    BY <2>5, <2>6, <2>7
  <2> QED
    BY <2>3, <2>8
<1>8. ASSUME NEW k \in 1 .. n PROVE c[k] = c[k - 1] + w[k]
  <2>1. c[k - 1] \in Int
    BY <1>7
  <2>2. PICK x, y, z : x = c[k - 1] /\ y = instructions[k].osz /\ z = ImmWidth(instructions[k])
    OBVIOUS
  <2>3. y \in Int /\ z \in Int /\ w[k] = y + z
    BY <2>2
  <2>4. c[k] = x + y + z
    BY <1>6, <2>2
  <2>5. x + y + z = x + (y + z)
    BY <2>1, <2>2, <2>3
  <2> QED
    BY <2>2, <2>3, <2>4, <2>5, Zenon
<1>9. c \in [0 .. n -> Int]
  <2>1. PICK g : g = F(c)
    OBVIOUS
  <2>2. g = [k \in 0 .. Len(instructions) |-> g[k]]
    BY <2>1
  <2>3. g = c
    BY <1>4, <2>1, Zenon
  <2> QED
    BY <1>7, <2>2, <2>3
<1> QED
  BY <1>1, <1>5, <1>8, <1>9 DEF Sums, c
-----------------------------------------------------------------------------
(* What parsing an operand leaves in an instruction, for the symbols S known
   then. *)
Instruction ==
  [osz : Nat, rmd : {amReg, amImm}, ims : Nat, ra : Nat, rb : Nat,
   iam : BOOLEAN, ibm : BOOLEAN, iea : BOOLEAN, ii : Int, src : Statements]

SymbolsOK(S) == \A x \in DOMAIN S : S[x].id \in Nat /\ S[x].size \in Nat

(* The names that have to be known, and are not labels. *)
Known(S, o) ==
  o.kind = "name" /\ ~IsRegister(o) =>
    o.val \in DOMAIN S /\ (~o.hash => S[o.val].tag # "label")

KnownEA(S, o) ==
  /\ o.ea.kind = "name" =>
       o.ea.val \in DOMAIN S /\ (~o.hash => S[o.ea.val].tag # "label")
  /\ o.ea.kind \in {"none", "int", "name"}

Base(S, o) ==
  IF o.kind = "Int" THEN Signed(o.sign, o.val)
  ELSE IF o.kind # "name" THEN o.val
  ELSE IF IsRegister(o) THEN 0
  ELSE (IF o.hash THEN S[o.val].size ELSE S[o.val].id) - o.minus

Offset(S, o) ==
  IF o.ea.kind = "int" THEN Signed(o.ea.sign, o.ea.val)
  ELSE IF o.ea.kind = "name" THEN (IF o.hash THEN S[o.ea.val].size ELSE S[o.ea.val].id)
  ELSE 0

(* The immediate of an operand that was not put off, and of one that was. *)
Direct(S, ins, o) ==
  /\ Known(S, o) /\ KnownEA(S, o)
  /\ ins.ii = Base(S, o) + Offset(S, o)
  /\ Fits(ins.ii, ins.ims) \/ Narrow(o, ins.ii)

Waits(S, ins, o) ==
  /\ Refers(o) /\ o.minus = 0 /\ KnownEA(S, o)
  /\ ins.ims >= 4 \/ (o.ea.kind = "int" /\ ins.ims = VM_integer_size(o.ea.val))

Immediate(o, isRb) == IsRegister(o) => isRb /\ o.mem /\ o.ea.kind # "none"

LEMMA SizeIs ==
  ASSUME NEW v \in Nat PROVE VM_integer_size(v) \in Widths /\ Fits(v, VM_integer_size(v)) /\ Fits(-v, VM_integer_size(v))
<1>1. -v \in Int /\ -v <= v /\ -v <= -v /\ v <= v
  OBVIOUS
<1> QED
  BY <1>1, SizeFits

LEMMA RegistersAre ==
  ASSUME NEW x \in DOMAIN Registers PROVE Registers[x] \in Nat
BY DEF Registers

LEMMA TheOne ==
  ASSUME NEW v PROVE (CHOOSE x \in {v} : TRUE) = v
OBVIOUS

(* The identifier alone. *)
LEMMA IdentifierParsed ==
  ASSUME SymbolsOK(symbols), NEW ins \in Instruction, NEW o, NEW isRb, IsOperand(o, isRb), o.kind = "name",
         NEW p, p = ParseIdentifier(ins, o), p.res = "ok", p.errs = 0
  PROVE  /\ p = Parsed(p.ins, p.reg, p.late, 0) /\ p.ins \in Instruction /\ p.reg \in Nat
         /\ p.ins.osz = ins.osz /\ p.ins.src = ins.src /\ p.ins.iea = ins.iea
         /\ IsRegister(o) => /\ p.ins.rmd = amReg /\ p.late = {} /\ p.ins.ii = ins.ii
         /\ ~IsRegister(o) =>
              /\ p.ins.rmd = amImm /\ p.ins.ims \in Widths
              /\ \/ /\ p.late = {} /\ Known(symbols, o)
                    /\ p.ins.ii = Base(symbols, o)
                    /\ Fits(p.ins.ii, p.ins.ims) \/ (o.minus > 0 /\ p.ins.ims = VM_integer_size(o.minus))
                 \/ /\ p.late = {o.val} /\ Refers(o) /\ o.minus = 0
                    /\ p.ins.ii = 0 /\ p.ins.ims = 4
<1> DEFINE regs == Vm_get_register_from_str(o.val)
           vals == IF o.hash THEN Assembler_get_variable_size(o.val)
                   ELSE Assembler_add_symbol_reference(o.val, TRUE)
           iu == CHOOSE v \in vals : TRUE
           late == IF ~o.hash /\ PutOff(o.val) THEN {o.val} ELSE {}
           rest == iu = 0 /\ o.minus > 0
           size == IF iu = 0 THEN 4 ELSE VM_integer_size(IF o.minus > 0 THEN o.minus ELSE iu)
           new == [ins EXCEPT !.rmd = amImm, !.ii = iu - o.minus, !.ims = size]
           q == Parsed(new, 0, late, IF rest THEN 1 ELSE 0)
           reg == [ins EXCEPT !.rmd = amReg]
<1>1. p = IF o.sign # "" \/ (regs # {} /\ o.hash) \/ (regs = {} /\ vals = {}) THEN Failed
          ELSE IF regs # {}
          THEN Parsed(reg, CHOOSE r \in regs : TRUE, {}, 0)
          ELSE IF rest /\ o.mem THEN [q EXCEPT !.res = "fail"] ELSE q
  BY Zenon DEF ParseIdentifier
<1>2. Failed.res = "fail" /\ [q EXCEPT !.res = "fail"].res = "fail"
  BY DEF Failed, Parsed
<1>3. CASE regs # {}
  <2>1. o.val \in DOMAIN Registers /\ regs = {Registers[o.val]}
    BY <1>3, Zenon DEF Vm_get_register_from_str
  <2>2. p = Parsed(reg, Registers[o.val], {}, 0)
    <3>1. p = Parsed(reg, CHOOSE r \in regs : TRUE, {}, 0)
      BY <1>1, <1>2, <1>3
    <3> QED
      BY <2>1, <3>1, TheOne
  <2>3. p.ins = reg /\ p.reg = Registers[o.val] /\ p.late = {}
    BY <2>2 DEF Parsed
  <2>a. p = Parsed(p.ins, p.reg, p.late, 0)
    BY <2>2, <2>3, Zenon
  <2>4. /\ reg \in Instruction /\ reg.osz = ins.osz /\ reg.src = ins.src /\ reg.iea = ins.iea
        /\ reg.rmd = amReg /\ reg.ii = ins.ii
    BY DEF Instruction
  <2>5. IsRegister(o)
    BY <2>1 DEF IsRegister
  <2> QED
    BY <2>1, <2>3, <2>a, <2>4, <2>5, RegistersAre
<1>4. CASE regs = {}
  <2>1. ~IsRegister(o)
    BY <1>4 DEF Vm_get_register_from_str, IsRegister
  <2>2. vals # {} /\ p = q
    BY <1>1, <1>2, <1>4
  <2>3. p.ins = new /\ p.reg = 0 /\ p.late = late /\ ~rest
    <3> HIDE DEF new, late, rest
    <3> QED
      BY <2>2 DEF Parsed
  <2>a. p = Parsed(p.ins, p.reg, p.late, 0)
    <3>1. (IF rest THEN 1 ELSE 0) = 0
      BY <2>3
    <3> QED
      BY <2>2, <2>3, <3>1, Zenon
  <2>4. o.minus \in Nat
    BY DEF IsOperand
  <2>5. /\ vals = {iu} /\ iu \in Nat
        /\ \/ late = {} /\ Known(symbols, o) /\ Base(symbols, o) = iu - o.minus
           \/ late = {o.val} /\ Refers(o) /\ iu = 0
    <3>1. CASE o.hash
      <4>1. o.val \in DOMAIN symbols /\ vals = {symbols[o.val].size} /\ late = {}
        BY <2>2, <3>1 DEF Assembler_get_variable_size
      <4>2. iu = symbols[o.val].size
        BY <4>1, TheOne
      <4> QED
        BY <2>1, <3>1, <4>1, <4>2 DEF Known, Base, SymbolsOK
    <3>2. CASE ~o.hash /\ PutOff(o.val)
      <4>1. vals = {0} /\ late = {o.val}
        BY <3>2 DEF Assembler_add_symbol_reference
      <4>2. iu = 0
        BY <4>1, TheOne
      <4> QED
        <5>1. Refers(o)
          BY <2>1, <3>2 DEF Refers
        <5> HIDE DEF vals, iu, late
        <5> QED
          BY <4>1, <4>2, <5>1
    <3>3. CASE ~o.hash /\ ~PutOff(o.val)
      <4>1. o.val \in DOMAIN symbols /\ symbols[o.val].tag # "label"
        BY <3>3 DEF PutOff
      <4>2. vals = {symbols[o.val].id} /\ late = {}
        BY <3>3 DEF Assembler_add_symbol_reference
      <4>3. iu = symbols[o.val].id
        BY <4>2, TheOne
      <4> QED
        BY <2>1, <3>3, <4>1, <4>2, <4>3 DEF Known, Base, SymbolsOK
    <3> QED
      BY <3>1, <3>2, <3>3 DEF IsOperand
  <2> HIDE DEF vals, iu, late
  <2>6. iu = 0 => size = 4 /\ o.minus = 0
    BY <2>3, <2>4
  <2>7. size \in Widths
    BY <2>4, <2>5, SizeIs DEF Widths
  <2>8. Fits(iu - o.minus, size) \/ (o.minus > 0 /\ size = VM_integer_size(o.minus))
    <3>1. CASE iu = 0
      BY <2>6, <3>1 DEF Fits
    <3>2. CASE iu # 0 /\ o.minus > 0
      BY <3>2
    <3>3. CASE iu # 0 /\ o.minus = 0
      <4>1. size = VM_integer_size(iu) /\ iu - o.minus = iu
        BY <2>4, <2>5, <3>3
      <4> QED
        BY <2>5, <4>1, SizeIs
    <3> QED
      BY <2>4, <3>1, <3>2, <3>3
  <2> HIDE DEF size
  <2>9. iu - o.minus \in Int /\ size \in Nat
    BY <2>4, <2>5, <2>7 DEF Widths
  <2>10. /\ new \in Instruction /\ new.osz = ins.osz /\ new.src = ins.src /\ new.iea = ins.iea
         /\ new.rmd = amImm /\ new.ii = iu - o.minus /\ new.ims = size
    BY <2>9 DEF Instruction
  <2> HIDE DEF new
  <2>11. (new.ii = 0 /\ size = 4 /\ o.minus = 0) \/ iu # 0
    BY <2>6, <2>10
  <2> QED
    BY <2>1, <2>3, <2>a, <2>5, <2>7, <2>8, <2>10, <2>11
<1> QED
  BY <1>3, <1>4

With(ins, w, v) == [ins EXCEPT !.ims = w, !.ii = v]

LEMMA InstructionWith ==
  ASSUME NEW ins \in Instruction, NEW w \in Nat, NEW v \in Int
  PROVE  /\ With(ins, w, v) \in Instruction /\ With(ins, w, v).osz = ins.osz
         /\ With(ins, w, v).src = ins.src /\ With(ins, w, v).rmd = ins.rmd
         /\ With(ins, w, v).iea = ins.iea /\ With(ins, w, v).ims = w /\ With(ins, w, v).ii = v
BY DEF Instruction, With

(* What stands behind the comma in brackets. *)
Addressed(ins, reg, late, o, r) ==
  /\ r.ins \in Instruction /\ r.reg = reg /\ r.late = late
  /\ r.ins.osz = ins.osz /\ r.ins.src = ins.src /\ r.ins.rmd = ins.rmd
  /\ KnownEA(symbols, o) /\ Offset(symbols, o) \in Int
  /\ r.ins.ii = ins.ii + Offset(symbols, o)
  /\ o.ea.kind = "none" => r.ins = ins
  /\ o.ea.kind # "none" => r.ins.iea = TRUE /\ r.ins.ims \in Widths
  /\ o.ea.kind = "int" => r.ins.ims = VM_integer_size(o.ea.val)
  /\ o.ea.kind \in {"name", "size"} => r.ins.ims = 8

LEMMA AddressParsed ==
  ASSUME SymbolsOK(symbols), NEW ins \in Instruction, NEW reg, NEW late, NEW p, p = Parsed(ins, reg, late, 0),
         NEW o, o.ea.kind = "int" => o.ea.val \in Nat,
         NEW r, r = EffectiveAddress(p, o), r.res = "ok", r.errs = 0
  PROVE  Addressed(ins, reg, late, o, r)
<1> USE DEF Addressed
<1> DEFINE with == [p.ins EXCEPT !.iea = TRUE]
           vals == IF o.ea.kind = "size" THEN {}
                   ELSE IF o.hash THEN Assembler_get_variable_size(o.ea.val)
                   ELSE Assembler_add_symbol_reference(o.ea.val, FALSE)
           int == [with EXCEPT !.ims = VM_integer_size(o.ea.val), !.ii = @ + Signed(o.ea.sign, o.ea.val)]
           name == [with EXCEPT !.ims = 8, !.ii = @ + CHOOSE v \in vals : TRUE]
<1>1. p.res = "ok" /\ p.ins = ins /\ p.reg = reg /\ p.late = late /\ p.errs = 0
  BY DEF Parsed
<1>2. /\ o.ea.kind = "none" => r = p
      /\ o.ea.kind = "int" => r = [p EXCEPT !.ins = int]
      /\ o.ea.kind \in {"name", "size"} =>
           r = IF o.ea.sign # "" \/ vals = {} THEN [p EXCEPT !.res = "fail"] ELSE [p EXCEPT !.ins = name]
      /\ o.ea.kind \notin {"none", "int", "name", "size"} => r = [p EXCEPT !.ins = with, !.errs = 1]
  <2>1. r = CASE o.ea.kind = "none" -> p
        [] o.ea.kind = "int" -> [p EXCEPT !.ins = int]
        [] o.ea.kind \in {"name", "size"} ->
             IF o.ea.sign # "" \/ vals = {} THEN [p EXCEPT !.res = "fail"] ELSE [p EXCEPT !.ins = name]
        [] OTHER -> [p EXCEPT !.ins = with, !.errs = 1]
    BY <1>1, Zenon DEF EffectiveAddress
  <2> HIDE DEF int, name, with, vals
  <2> QED
    BY <2>1
<1>3. /\ with \in Instruction /\ with.iea = TRUE /\ with.osz = ins.osz /\ with.src = ins.src
      /\ with.rmd = ins.rmd /\ with.ii = ins.ii
  BY <1>1 DEF Instruction
<1> HIDE DEF with
<1>4. ASSUME NEW w \in Widths, NEW v \in Int
      PROVE  /\ With(with, w, v) \in Instruction /\ With(with, w, v).osz = ins.osz
             /\ With(with, w, v).src = ins.src /\ With(with, w, v).rmd = ins.rmd
             /\ With(with, w, v).iea = TRUE /\ With(with, w, v).ims = w /\ With(with, w, v).ii = v
  <2>1. w \in Nat
    BY DEF Widths
  <2> QED
    BY <1>3, <2>1, InstructionWith
<1>a. ins.ii \in Int
  BY DEF Instruction
<1>5. ASSUME NEW new, r = [p EXCEPT !.ins = new]
      PROVE  r.ins = new /\ r.reg = reg /\ r.late = late
  BY <1>1, <1>5 DEF Parsed
<1>6. CASE o.ea.kind = "none"
  BY <1>1, <1>2, <1>6 DEF KnownEA, Offset, Instruction
<1>7. CASE o.ea.kind = "int"
  <2>1. Signed(o.ea.sign, o.ea.val) \in Int /\ VM_integer_size(o.ea.val) \in Widths
    BY <1>7, SizeIs DEF Signed
  <2>2. r.ins = int /\ r.reg = reg /\ r.late = late
    BY <1>2, <1>5, <1>7
  <2>3. KnownEA(symbols, o) /\ Offset(symbols, o) = Signed(o.ea.sign, o.ea.val)
    BY <1>7 DEF KnownEA, Offset
  <2>4. /\ int \in Instruction /\ int.osz = ins.osz /\ int.src = ins.src /\ int.rmd = ins.rmd
        /\ int.iea = TRUE /\ int.ims = VM_integer_size(o.ea.val) /\ int.ii = ins.ii + Signed(o.ea.sign, o.ea.val)
    <3>1. int = With(with, VM_integer_size(o.ea.val), ins.ii + Signed(o.ea.sign, o.ea.val))
      BY <1>3, Zenon DEF With
    <3>2. ins.ii + Signed(o.ea.sign, o.ea.val) \in Int
      BY <1>a, <2>1
    <3> HIDE DEF int
    <3> QED
      BY <1>4, <2>1, <3>1, <3>2, ZenonT(40)
  <2> HIDE DEF int
  <2> QED
    BY <1>7, <2>1, <2>2, <2>3, <2>4
<1>8. CASE o.ea.kind \in {"name", "size"}
  <2>1. [p EXCEPT !.res = "fail"].res = "fail"
    BY DEF Parsed
  <2>2. vals # {} /\ r = [p EXCEPT !.ins = name]
    <3> HIDE DEF vals, name
    <3> QED
      BY <1>2, <1>8, <2>1
  <2>3. /\ vals = {Offset(symbols, o)} /\ Offset(symbols, o) \in Nat /\ KnownEA(symbols, o)
    <3>1. o.ea.kind = "name"
      BY <1>8, <2>2
    <3>2. CASE o.hash
      <4>1. o.ea.val \in DOMAIN symbols /\ vals = {symbols[o.ea.val].size}
        BY <2>2, <3>1, <3>2 DEF Assembler_get_variable_size
      <4> QED
        BY <3>1, <3>2, <4>1 DEF KnownEA, Offset, SymbolsOK
    <3>3. CASE ~o.hash
      <4>1. ~PutOff(o.ea.val) /\ vals = {symbols[o.ea.val].id}
        BY <2>2, <3>1, <3>3 DEF Assembler_add_symbol_reference
      <4>2. o.ea.val \in DOMAIN symbols /\ symbols[o.ea.val].tag # "label"
        BY <4>1 DEF PutOff
      <4> QED
        BY <3>1, <3>3, <4>1, <4>2 DEF KnownEA, Offset, SymbolsOK
    <3> QED
      BY <3>2, <3>3
  <2>4. (CHOOSE v \in vals : TRUE) = Offset(symbols, o)
    BY <2>3, TheOne
  <2>5. name = With(with, 8, ins.ii + Offset(symbols, o))
    BY <1>3, <2>4, Zenon DEF With
  <2>6. /\ name \in Instruction /\ name.osz = ins.osz /\ name.src = ins.src /\ name.rmd = ins.rmd
        /\ name.iea = TRUE /\ name.ims = 8 /\ name.ii = ins.ii + Offset(symbols, o)
    <3>1. 8 \in Widths /\ Offset(symbols, o) \in Int
      BY <2>3 DEF Widths
    <3>2. ins.ii + Offset(symbols, o) \in Int
      BY <1>a, <3>1
    <3> HIDE DEF name
    <3>3. PICK w \in Widths : w = 8
      BY <3>1
    <3>4. name = With(with, w, ins.ii + Offset(symbols, o))
      BY <2>5, <3>3
    <3>5. /\ name \in Instruction /\ name.osz = ins.osz /\ name.src = ins.src /\ name.rmd = ins.rmd
          /\ name.iea = TRUE /\ name.ims = w /\ name.ii = ins.ii + Offset(symbols, o)
      BY <1>4, <3>2, <3>4, ZenonT(40)
    <3> QED
      BY <3>3, <3>5
  <2> HIDE DEF name, vals
  <2>7. r.ins = name /\ r.reg = reg /\ r.late = late
    BY <1>5, <2>2
  <2> QED
    BY <1>8, <2>3, <2>6, <2>7 DEF Widths
<1>9. CASE o.ea.kind \notin {"none", "int", "name", "size"}
  <2>1. r = [p EXCEPT !.ins = with, !.errs = 1]
    BY <1>2, <1>9
  <2>2. r.errs = 1
    BY <2>1 DEF Parsed
  <2> QED
    BY <2>2
<1> QED
  BY <1>6, <1>7, <1>8, <1>9

(* An integer or a character; a floating point number aborts the program. *)
LEMMA NumberParsed ==
  ASSUME NEW ins \in Instruction, NEW o, NEW isRb, IsOperand(o, isRb), o.kind # "name",
         NEW p, p = ParseNumber(ins, o), p.res = "ok"
  PROVE  /\ p.ins \in Instruction /\ p.reg \in Nat /\ p.late = {} /\ p.ins.ims \in Widths
         /\ p.ins.osz = ins.osz /\ p.ins.src = ins.src /\ p.ins.iea = ins.iea /\ p.ins.rmd = amImm
         /\ p.ins.ii = Base(symbols, o) /\ Fits(p.ins.ii, p.ins.ims)
<1> DEFINE char == [ins EXCEPT !.rmd = amImm, !.ims = 4, !.ii = o.val]
           int == [ins EXCEPT !.rmd = amImm, !.ims = VM_integer_size(o.val), !.ii = Signed(o.sign, o.val)]
<1>1. o.kind \in {"Char", "Int", "Float"}
  BY DEF IsOperand
<1>2. CASE o.kind = "Char"
  <2>1. p = Parsed(char, 0, {}, 0)
    BY <1>2, Zenon DEF ParseNumber
  <2>2. o.val \in Int
    BY <1>2 DEF IsOperand
  <2>3. /\ char \in Instruction /\ char.ims = 4 /\ char.osz = ins.osz /\ char.src = ins.src
        /\ char.iea = ins.iea /\ char.rmd = amImm /\ char.ii = o.val
    BY <2>2 DEF Instruction
  <2> HIDE DEF char
  <2>4. p.ins = char /\ p.reg = 0 /\ p.late = {}
    BY <2>1 DEF Parsed
  <2>5. Base(symbols, o) = o.val
    BY <1>2 DEF Base
  <2> QED
    BY <2>3, <2>4, <2>5 DEF Widths, Fits
<1>3. CASE o.kind = "Int"
  <2>1. p = Parsed(int, 0, {}, 0)
    <3>1. "Int" # "Char"
      OBVIOUS
    <3> QED
      BY <1>3, <3>1, Zenon DEF ParseNumber
  <2>2. o.val \in Nat
    BY <1>3 DEF IsOperand
  <2>3. /\ VM_integer_size(o.val) \in Widths /\ Signed(o.sign, o.val) \in Int
        /\ Fits(Signed(o.sign, o.val), VM_integer_size(o.val))
    BY <2>2, SizeIs DEF Signed
  <2>4. VM_integer_size(o.val) \in Nat
    BY <2>3 DEF Widths
  <2>5. /\ int \in Instruction /\ int.ims = VM_integer_size(o.val) /\ int.osz = ins.osz /\ int.src = ins.src
        /\ int.iea = ins.iea /\ int.rmd = amImm /\ int.ii = Signed(o.sign, o.val)
    BY <2>3, <2>4 DEF Instruction
  <2> HIDE DEF int
  <2>6. p.ins = int /\ p.reg = 0 /\ p.late = {}
    BY <2>1 DEF Parsed
  <2>7. Base(symbols, o) = Signed(o.sign, o.val)
    BY <1>3 DEF Base
  <2> QED
    BY <2>3, <2>5, <2>6, <2>7
<1>4. CASE o.kind = "Float"
  <2>1. p = IF Token_get(o.kind, "Float") THEN Failed ELSE [Failed EXCEPT !.res = "abort"]
    BY <1>4 DEF ParseNumber
  <2>2. Failed.res = "fail" /\ [Failed EXCEPT !.res = "abort"].res = "abort"
    BY DEF Failed
  <2> QED
    BY <2>1, <2>2
<1> QED
  BY <1>1, <1>2, <1>3, <1>4

(* In brackets an identifier is read without an error or not at all. *)
LEMMA IdentifierInBrackets ==
  ASSUME NEW ins, NEW o, o.mem, ParseIdentifier(ins, o).res = "ok"
  PROVE  ParseIdentifier(ins, o).errs = 0
<1> DEFINE regs == Vm_get_register_from_str(o.val)
           vals == IF o.hash THEN Assembler_get_variable_size(o.val)
                   ELSE Assembler_add_symbol_reference(o.val, TRUE)
           iu == CHOOSE v \in vals : TRUE
           late == IF ~o.hash /\ PutOff(o.val) THEN {o.val} ELSE {}
           rest == iu = 0 /\ o.minus > 0
           size == IF iu = 0 THEN 4 ELSE VM_integer_size(IF o.minus > 0 THEN o.minus ELSE iu)
           new == [ins EXCEPT !.rmd = amImm, !.ii = iu - o.minus, !.ims = size]
           q == Parsed(new, 0, late, IF rest THEN 1 ELSE 0)
           reg == [ins EXCEPT !.rmd = amReg]
           p == ParseIdentifier(ins, o)
<1>1. p = IF o.sign # "" \/ (regs # {} /\ o.hash) \/ (regs = {} /\ vals = {}) THEN Failed
          ELSE IF regs # {}
          THEN Parsed(reg, CHOOSE r \in regs : TRUE, {}, 0)
          ELSE IF rest /\ o.mem THEN [q EXCEPT !.res = "fail"] ELSE q
  BY Zenon DEF ParseIdentifier
<1>2. Failed.res = "fail" /\ [q EXCEPT !.res = "fail"].res = "fail"
  BY DEF Failed, Parsed
<1>3. p = Parsed(reg, CHOOSE r \in regs : TRUE, {}, 0) \/ (p = q /\ ~rest)
  BY <1>1, <1>2
<1>4. ASSUME NEW x, NEW y, NEW z PROVE Parsed(x, y, z, 0).errs = 0
  BY DEF Parsed
<1>5. ~rest => q = Parsed(new, 0, late, 0)
  OBVIOUS
<1> HIDE DEF q, new, late, reg, rest, regs
<1> QED
  BY <1>3, <1>4, <1>5

(* Assembler_parse_instruction_arg. *)
Taken(ins, o, isRb, p) ==
  /\ p.ins \in Instruction /\ p.reg \in Nat
  /\ p.ins.osz = ins.osz /\ p.ins.src = ins.src
  /\ p.late \in {{}, {o.val}}
  /\ ~isRb => p.ins.iea = ins.iea
  /\ IsRegister(o) /\ ~isRb => p.ins.rmd = amReg /\ p.ins.ii = ins.ii /\ p.late = {}
  /\ ins.ii = 0 /\ Immediate(o, isRb) =>
       /\ p.ins.rmd = amImm \/ p.ins.iea = TRUE
       /\ p.ins.ims \in Widths
       /\ \/ p.late = {} /\ Direct(symbols, p.ins, o)
          \/ p.late = {o.val} /\ Waits(symbols, p.ins, o) /\ p.ins.ii = Offset(symbols, o)

LEMMA OperandParsed ==
  ASSUME SymbolsOK(symbols), NEW ins \in Instruction, NEW o, NEW isRb \in BOOLEAN, IsOperand(o, isRb),
         NEW p, p = Assembler_parse_instruction_arg(ins, o, isRb), p.res = "ok", p.errs = 0
  PROVE  Taken(ins, o, isRb, p)
<1> USE DEF Taken
<1>1. o.ea.kind = "none" => KnownEA(symbols, o) /\ Offset(symbols, o) = 0
  BY DEF KnownEA, Offset
<1>2. (o.kind # "name" \/ ~o.mem \/ ~isRb) => o.ea.kind = "none"
  <2>1. NoEA.kind = "none"
    BY DEF NoEA
  <2> QED
    BY <2>1 DEF IsOperand
<1>3. CASE o.kind # "name"
  <2>1. p = ParseNumber(ins, o)
    BY <1>3 DEF Assembler_parse_instruction_arg
  <2>2. /\ p.ins \in Instruction /\ p.reg \in Nat /\ p.late = {} /\ p.ins.ims \in Widths
        /\ p.ins.osz = ins.osz /\ p.ins.src = ins.src /\ p.ins.iea = ins.iea /\ p.ins.rmd = amImm
        /\ p.ins.ii = Base(symbols, o) /\ Fits(p.ins.ii, p.ins.ims)
    BY <1>3, <2>1, NumberParsed
  <2>3. ~IsRegister(o) /\ Known(symbols, o)
    BY <1>3 DEF IsRegister, Known
  <2>4. p.ins.ii \in Int
    BY <2>2 DEF Instruction
  <2>5. Direct(symbols, p.ins, o)
    BY <1>1, <1>2, <1>3, <2>2, <2>3, <2>4 DEF Direct
  <2>6. p.late \in {{}, {o.val}}
    BY <2>2
  <2> QED
    BY <2>2, <2>3, <2>5, <2>6
<1>4. CASE o.kind = "name"
  <2> DEFINE q == ParseIdentifier(ins, o)
  <2>1. p = IF o.mem /\ isRb THEN EffectiveAddress(q, o) ELSE q
    BY <1>4, Zenon DEF Assembler_parse_instruction_arg
  <2> HIDE DEF q
  <2>2. q.res = "ok" /\ q.errs = 0
    <3>1. CASE o.mem /\ isRb
      <4>1. p = EffectiveAddress(q, o)
        BY <2>1, <3>1
      <4>2. q.res # "ok" => p = q
        BY <4>1, Zenon DEF EffectiveAddress
      <4> QED
        BY <3>1, <4>2, IdentifierInBrackets DEF q
    <3>2. CASE ~(o.mem /\ isRb)
      BY <2>1, <3>2
    <3> QED
      BY <3>1, <3>2
  <2>3. /\ q = Parsed(q.ins, q.reg, q.late, 0) /\ q.ins \in Instruction /\ q.reg \in Nat
        /\ q.ins.osz = ins.osz /\ q.ins.src = ins.src /\ q.ins.iea = ins.iea
        /\ IsRegister(o) => /\ q.ins.rmd = amReg /\ q.late = {} /\ q.ins.ii = ins.ii
        /\ ~IsRegister(o) =>
             /\ q.ins.rmd = amImm /\ q.ins.ims \in Widths
             /\ \/ /\ q.late = {} /\ Known(symbols, o)
                   /\ q.ins.ii = Base(symbols, o)
                   /\ Fits(q.ins.ii, q.ins.ims) \/ (o.minus > 0 /\ q.ins.ims = VM_integer_size(o.minus))
                \/ /\ q.late = {o.val} /\ Refers(o) /\ o.minus = 0
                   /\ q.ins.ii = 0 /\ q.ins.ims = 4
    BY <1>4, <2>2, IdentifierParsed DEF q
  <2>4. /\ p.ins \in Instruction /\ p.reg = q.reg /\ p.late = q.late
        /\ p.ins.osz = q.ins.osz /\ p.ins.src = q.ins.src /\ p.ins.rmd = q.ins.rmd
        /\ KnownEA(symbols, o) /\ Offset(symbols, o) \in Int
        /\ p.ins.ii = q.ins.ii + Offset(symbols, o)
        /\ o.ea.kind = "none" => p.ins = q.ins
        /\ o.ea.kind # "none" => p.ins.iea = TRUE /\ p.ins.ims \in Widths
        /\ o.ea.kind = "int" => p.ins.ims = VM_integer_size(o.ea.val)
        /\ o.ea.kind \in {"name", "size"} => p.ins.ims = 8
    <3>1. CASE o.mem /\ isRb
      <4>1. p = EffectiveAddress(q, o)
        BY <2>1, <3>1
      <4>2. o.ea.kind = "int" => o.ea.val \in Nat
        BY DEF IsOperand
      <4>3. q = Parsed(q.ins, q.reg, q.late, 0) /\ q.ins \in Instruction
        BY <2>3
      <4> QED
        <5>1. Addressed(q.ins, q.reg, q.late, o, p)
          BY <4>1, <4>2, <4>3, AddressParsed, Zenon
        <5> QED
          BY <5>1, Zenon DEF Addressed
    <3>2. CASE ~(o.mem /\ isRb)
      <4>1. p = q /\ o.ea.kind = "none"
        BY <1>2, <2>1, <3>2
      <4>2. q.ins.ii \in Int
        BY <2>3 DEF Instruction
      <4> QED
        BY <1>1, <2>3, <4>1, <4>2
    <3> QED
      BY <3>1, <3>2
  <2>5. ~isRb => o.ea.kind = "none" /\ p.ins = q.ins
    BY <1>2, <2>4
  <2>6. ASSUME ins.ii = 0, IsRegister(o), isRb, o.ea.kind # "none"
        PROVE  p.late = {} /\ p.ins.iea = TRUE /\ p.ins.ims \in Widths /\ Direct(symbols, p.ins, o)
    <3>1. p.late = {} /\ p.ins.ii = Offset(symbols, o) /\ p.ins.ii \in Int
      BY <2>3, <2>4, <2>6
    <3>2. Known(symbols, o) /\ Base(symbols, o) = 0
      BY <2>6 DEF Known, Base, IsRegister
    <3>3. Fits(p.ins.ii, p.ins.ims) \/ Narrow(o, p.ins.ii)
      <4>1. CASE o.ea.kind = "int"
        BY <2>4, <4>1 DEF Narrow
      <4>2. CASE o.ea.kind \in {"name", "size"}
        BY <2>4, <4>2 DEF Fits
      <4> QED
        BY <2>4, <2>6, <4>1, <4>2 DEF KnownEA
    <3>4. p.ins.ii = Base(symbols, o) + Offset(symbols, o)
      BY <3>1, <3>2
    <3>5. Direct(symbols, p.ins, o)
      BY <2>4, <3>2, <3>3, <3>4, Zenon DEF Direct
    <3>6. p.ins.iea = TRUE /\ p.ins.ims \in Widths
      BY <2>4, <2>6
    <3> QED
      BY <3>1, <3>5, <3>6
  <2>7. ASSUME ~IsRegister(o), q.late = {}
        PROVE  p.ins.ims \in Widths /\ Direct(symbols, p.ins, o)
    <3>1. q.ins.ims \in Widths /\ Known(symbols, o) /\ q.ins.ii = Base(symbols, o)
          /\ (Fits(q.ins.ii, q.ins.ims) \/ (o.minus > 0 /\ q.ins.ims = VM_integer_size(o.minus)))
      BY <2>3, <2>7
    <3>2. p.ins.ims \in Widths
      BY <2>4, <3>1
    <3>3. Fits(p.ins.ii, p.ins.ims) \/ Narrow(o, p.ins.ii)
      <4>1. CASE o.ea.kind = "none"
        BY <2>4, <3>1, <4>1 DEF Narrow
      <4>2. CASE o.ea.kind = "int"
        BY <2>4, <4>2 DEF Narrow
      <4>3. CASE o.ea.kind \in {"name", "size"}
        BY <2>4, <4>3 DEF Fits
      <4> QED
        BY <2>4, <4>1, <4>2, <4>3 DEF KnownEA
    <3> QED
      BY <2>4, <3>1, <3>2, <3>3 DEF Direct
  <2>8. ASSUME ~IsRegister(o), q.late # {}
        PROVE  /\ p.ins.ims \in Widths /\ p.late = {o.val} /\ Waits(symbols, p.ins, o)
               /\ p.ins.ii = Offset(symbols, o)
    <3>1. q.late = {o.val} /\ Refers(o) /\ o.minus = 0 /\ q.ins.ii = 0 /\ q.ins.ims = 4
      BY <2>3, <2>8
    <3>2. p.ins.ii = Offset(symbols, o) /\ p.late = {o.val}
      BY <2>4, <3>1
    <3>3. p.ins.ims \in Widths /\ (p.ins.ims >= 4 \/ (o.ea.kind = "int" /\ p.ins.ims = VM_integer_size(o.ea.val)))
      BY <2>4, <3>1 DEF Widths, KnownEA
    <3> QED
      BY <2>4, <3>1, <3>2, <3>3 DEF Waits
  <2>9. p.ins.osz = ins.osz /\ p.ins.src = ins.src /\ p.reg \in Nat /\ p.ins \in Instruction
    BY <2>3, <2>4
  <2>10. ~isRb => p.ins.iea = ins.iea
    BY <2>3, <2>5
  <2>11. IsRegister(o) /\ ~isRb => p.ins.rmd = amReg /\ p.ins.ii = ins.ii /\ p.late = {}
    BY <2>3, <2>4, <2>5
  <2>12. ~IsRegister(o) => p.ins.rmd = amImm /\ p.late = q.late
    BY <2>3, <2>4
  <2>13. ASSUME ins.ii = 0, Immediate(o, isRb)
         PROVE  /\ p.ins.rmd = amImm \/ p.ins.iea = TRUE
                /\ p.ins.ims \in Widths
                /\ \/ p.late = {} /\ Direct(symbols, p.ins, o)
                   \/ p.late = {o.val} /\ Waits(symbols, p.ins, o) /\ p.ins.ii = Offset(symbols, o)
    <3>1. CASE IsRegister(o)
      <4>1. isRb /\ o.ea.kind # "none"
        BY <2>13, <3>1 DEF Immediate
      <4> QED
        BY <2>6, <2>13, <3>1, <4>1
    <3>2. CASE ~IsRegister(o)
      BY <2>7, <2>8, <2>12, <3>2
    <3> QED
      BY <3>1, <3>2
  <2>14. p.late \in {{}, {o.val}}
    BY <2>3, <2>4
  <2> QED
    BY <2>9, <2>10, <2>11, <2>13, <2>14
<1> QED
  BY <1>3, <1>4

(* An outcome of parsing has its five fields, and counts at most one error. *)
Outcome(p) ==
  /\ p = [res |-> p.res, ins |-> p.ins, reg |-> p.reg, late |-> p.late, errs |-> p.errs]
  /\ p.errs \in {0, 1}

LEMMA OutcomeWith ==
  ASSUME NEW p, Outcome(p), NEW v
  PROVE  /\ Outcome([p EXCEPT !.res = v]) /\ Outcome([p EXCEPT !.ins = v])
         /\ Outcome([p EXCEPT !.ins = v, !.errs = 1])
<1>1. Outcome([p EXCEPT !.res = v])
  BY DEF Outcome
<1>2. Outcome([p EXCEPT !.ins = v])
  BY DEF Outcome
<1>3. Outcome([p EXCEPT !.ins = v, !.errs = 1])
  <2> DEFINE r == [p EXCEPT !.ins = v, !.errs = 1]
  <2>1. DOMAIN p = {"res", "ins", "reg", "late", "errs"}
    BY DEF Outcome
  <2>2. /\ r = [x \in {"res", "ins", "reg", "late", "errs"} |-> r[x]]
        /\ r.errs = 1
    BY <2>1
  <2> HIDE DEF r
  <2>3. r = [res |-> r.res, ins |-> r.ins, reg |-> r.reg, late |-> r.late, errs |-> r.errs]
    BY <2>2
  <2>4. Outcome(r)
    BY <2>2, <2>3 DEF Outcome
  <2> QED
    BY <2>4 DEF r
<1> QED
  BY <1>1, <1>2, <1>3

LEMMA OutcomeParsed ==
  ASSUME NEW ins, NEW reg, NEW late, NEW errs \in {0, 1}
  PROVE  Outcome(Parsed(ins, reg, late, errs)) /\ Outcome(Failed)
<1>1. Outcome(Parsed(ins, reg, late, errs))
  BY DEF Outcome, Parsed
<1>2. Outcome(Failed)
  BY DEF Outcome, Failed
<1> QED
  BY <1>1, <1>2

LEMMA IdentifierOutcome ==
  ASSUME NEW ins, NEW o
  PROVE  Outcome(ParseIdentifier(ins, o))
<1> DEFINE regs == Vm_get_register_from_str(o.val)
           vals == IF o.hash THEN Assembler_get_variable_size(o.val)
                   ELSE Assembler_add_symbol_reference(o.val, TRUE)
           iu == CHOOSE v \in vals : TRUE
           late == IF ~o.hash /\ PutOff(o.val) THEN {o.val} ELSE {}
           rest == iu = 0 /\ o.minus > 0
           size == IF iu = 0 THEN 4 ELSE VM_integer_size(IF o.minus > 0 THEN o.minus ELSE iu)
           new == [ins EXCEPT !.rmd = amImm, !.ii = iu - o.minus, !.ims = size]
           q == Parsed(new, 0, late, IF rest THEN 1 ELSE 0)
           reg == [ins EXCEPT !.rmd = amReg]
           p == ParseIdentifier(ins, o)
<1>1. p = IF o.sign # "" \/ (regs # {} /\ o.hash) \/ (regs = {} /\ vals = {}) THEN Failed
          ELSE IF regs # {}
          THEN Parsed(reg, CHOOSE r \in regs : TRUE, {}, 0)
          ELSE IF rest /\ o.mem THEN [q EXCEPT !.res = "fail"] ELSE q
  BY Zenon DEF ParseIdentifier
<1>2. Outcome(Failed) /\ Outcome(Parsed(reg, CHOOSE r \in regs : TRUE, {}, 0))
  <2>1. 0 \in {0, 1}
    OBVIOUS
  <2> QED
    BY <2>1, OutcomeParsed, Zenon
<1>3. Outcome(q)
  <2>1. (IF rest THEN 1 ELSE 0) \in {0, 1}
    OBVIOUS
  <2> QED
    BY <2>1, OutcomeParsed, Zenon
<1>4. Outcome([q EXCEPT !.res = "fail"])
  BY <1>3, OutcomeWith, Zenon
<1> HIDE DEF q, rest, reg, vals, regs
<1> QED
  BY <1>1, <1>2, <1>3, <1>4

LEMMA OutcomeOfOperand ==
  ASSUME NEW ins, NEW o, NEW isRb
  PROVE  Outcome(Assembler_parse_instruction_arg(ins, o, isRb))
<1>1. Outcome(ParseIdentifier(ins, o))
  BY IdentifierOutcome
<1>2. ASSUME NEW p, Outcome(p) PROVE Outcome(EffectiveAddress(p, o))
  <2> DEFINE with == [p.ins EXCEPT !.iea = TRUE]
             vals == IF o.ea.kind = "size" THEN {}
                     ELSE IF o.hash THEN Assembler_get_variable_size(o.ea.val)
                     ELSE Assembler_add_symbol_reference(o.ea.val, FALSE)
             int == [with EXCEPT !.ims = VM_integer_size(o.ea.val), !.ii = @ + Signed(o.ea.sign, o.ea.val)]
             name == [with EXCEPT !.ims = 8, !.ii = @ + CHOOSE v \in vals : TRUE]
             r == EffectiveAddress(p, o)
  <2>1. r = IF p.res # "ok" THEN p ELSE
        CASE o.ea.kind = "none" -> p
        [] o.ea.kind = "int" -> [p EXCEPT !.ins = int]
        [] o.ea.kind \in {"name", "size"} ->
             IF o.ea.sign # "" \/ vals = {} THEN [p EXCEPT !.res = "fail"] ELSE [p EXCEPT !.ins = name]
        [] OTHER -> [p EXCEPT !.ins = with, !.errs = 1]
    BY Zenon DEF EffectiveAddress
  <2> HIDE DEF int, name, with, vals, r
  <2>2. r \in {p, [p EXCEPT !.ins = int], [p EXCEPT !.res = "fail"], [p EXCEPT !.ins = name],
               [p EXCEPT !.ins = with, !.errs = 1]}
    <3>1. CASE p.res # "ok"
      BY <2>1, <3>1
    <3>2. CASE p.res = "ok" /\ o.ea.kind = "none"
      BY <2>1, <3>2
    <3>3. CASE p.res = "ok" /\ o.ea.kind = "int"
      BY <2>1, <3>3
    <3>4. CASE p.res = "ok" /\ o.ea.kind \in {"name", "size"}
      BY <2>1, <3>4
    <3>5. CASE p.res = "ok" /\ o.ea.kind \notin {"none", "int", "name", "size"}
      BY <2>1, <3>5
    <3> QED
      BY <3>1, <3>2, <3>3, <3>4, <3>5
  <2>3. Outcome(r)
    <3>1. Outcome([p EXCEPT !.ins = int]) /\ Outcome([p EXCEPT !.ins = name]) /\ Outcome([p EXCEPT !.res = "fail"])
      BY <1>2, OutcomeWith, Zenon
    <3>2. Outcome([p EXCEPT !.ins = with, !.errs = 1])
      BY <1>2, OutcomeWith, Zenon
    <3> QED
      BY <1>2, <2>2, <3>1, <3>2
  <2> QED
    BY <2>3 DEF r
<1>3. o.kind # "name" => Outcome(ParseNumber(ins, o))
  <2> DEFINE char == [ins EXCEPT !.rmd = amImm, !.ims = 4, !.ii = o.val]
             int == [ins EXCEPT !.rmd = amImm, !.ims = VM_integer_size(o.val), !.ii = Signed(o.sign, o.val)]
             p == ParseNumber(ins, o)
  <2>1. p = CASE o.kind = "Char" -> Parsed(char, 0, {}, 0)
              [] o.kind = "Int" -> Parsed(int, 0, {}, 0)
              [] OTHER -> IF Token_get(o.kind, "Float") THEN Failed ELSE [Failed EXCEPT !.res = "abort"]
    BY Zenon DEF ParseNumber
  <2> HIDE DEF char, int, p
  <2>2. p \in {Parsed(char, 0, {}, 0), Parsed(int, 0, {}, 0), Failed, [Failed EXCEPT !.res = "abort"]}
    BY <2>1
  <2>3. 0 \in {0, 1}
    OBVIOUS
  <2>4. Outcome(Parsed(char, 0, {}, 0)) /\ Outcome(Parsed(int, 0, {}, 0)) /\ Outcome(Failed)
    BY <2>3, OutcomeParsed, Zenon
  <2>5. Outcome([Failed EXCEPT !.res = "abort"])
    BY <2>4, OutcomeWith, Zenon
  <2>6. Outcome(p)
    BY <2>2, <2>4, <2>5
  <2> QED
    BY <2>6 DEF p
<1> QED
  BY <1>1, <1>2, <1>3 DEF Assembler_parse_instruction_arg

-----------------------------------------------------------------------------
(* What parsing the operands of an instruction leaves in it: its size is the
   one VM_code_append_ writes, and its immediate is that of its last operand. *)
LEMMA StatementIs ==
  ASSUME NEW os \in Statements
  PROVE  /\ Len(os) \in {0, 1, 2}
         /\ Len(os) >= 1 => IsOperand(os[1], FALSE)
         /\ Len(os) = 2 => IsOperand(os[2], TRUE)
<1>1. /\ os \in Seq({os[k] : k \in DOMAIN os}) /\ Len(os) <= 2
      /\ \A k \in DOMAIN os : IsOperand(os[k], k = 2)
  BY SourceAssumption
<1>2. Len(os) \in Nat /\ DOMAIN os = 1 .. Len(os)
  BY <1>1
<1>3. Len(os) >= 1 => IsOperand(os[1], FALSE)
  <2> SUFFICES ASSUME Len(os) >= 1 PROVE IsOperand(os[1], FALSE)
    OBVIOUS
  <2>1. 1 \in DOMAIN os
    BY <1>2
  <2>2. (1 = 2) = FALSE
    OBVIOUS
  <2>3. IsOperand(os[1], 1 = 2)
    BY <1>1, <2>1
  <2> QED
    BY <2>2, <2>3
<1>4. Len(os) = 2 => IsOperand(os[2], TRUE)
  <2> SUFFICES ASSUME Len(os) = 2 PROVE IsOperand(os[2], TRUE)
    OBVIOUS
  <2>1. 2 \in DOMAIN os
    BY <1>2
  <2>2. (2 = 2) = TRUE
    OBVIOUS
  <2>3. IsOperand(os[2], 2 = 2)
    BY <1>1, <2>1
  <2> QED
    BY <2>2, <2>3
<1>5. Len(os) \in {0, 1, 2}
  <2>1. Len(os) \in Nat /\ Len(os) <= 2
    BY <1>1, <1>2
  <2>2. ASSUME NEW n \in Nat, n <= 2 PROVE n \in {0, 1, 2}
    BY <2>2
  <2> QED
    BY <2>1, <2>2
<1> QED
  BY <1>3, <1>4, <1>5

(* The assignments behind the parse of an operand. *)
Kept(p, a) == a.res = p.res /\ a.late = p.late /\ a.errs = p.errs /\ Outcome(a)

SameImmediate(ins, new) ==
  /\ new \in Instruction
  /\ new.osz = ins.osz /\ new.src = ins.src /\ new.rmd = ins.rmd
  /\ new.ims = ins.ims /\ new.ii = ins.ii /\ new.iea = ins.iea

LEMMA OutcomeKept ==
  ASSUME NEW p, Outcome(p), NEW new
  PROVE  Kept(p, [p EXCEPT !.ins = new]) /\ [p EXCEPT !.ins = new].ins = new
<1>1. Outcome([p EXCEPT !.ins = new])
  BY OutcomeWith, Zenon
<1> DEFINE a == [p EXCEPT !.ins = new]
<1>2. a.res = p.res /\ a.late = p.late /\ a.errs = p.errs /\ a.ins = new
  BY DEF Outcome
<1> HIDE DEF a
<1>3. Kept(p, a) /\ a.ins = new
  BY <1>1, <1>2 DEF Kept, a
<1> QED
  BY <1>3 DEF a

LEMMA FirstOperandKeeps ==
  ASSUME NEW p, Outcome(p), NEW o
  PROVE  Kept(p, FirstOperand(p, o))
BY OutcomeKept, Zenon DEF FirstOperand

LEMMA SecondOperandKeeps ==
  ASSUME NEW p, Outcome(p), NEW o
  PROVE  Kept(p, SecondOperand(p, o))
BY OutcomeKept, Zenon DEF SecondOperand

LEMMA FirstOperandIs ==
  ASSUME NEW p, Outcome(p), p.ins \in Instruction, p.reg \in Nat, NEW o, o.mem \in BOOLEAN, NEW a, a = FirstOperand(p, o)
  PROVE  SameImmediate(p.ins, a.ins) /\ (a.ins.rmd = amImm => a.ins.ra = a.ins.ims)
<1> DEFINE ra == IF p.ins.rmd = amImm THEN p.ins.ims ELSE p.reg
           new == [p.ins EXCEPT !.iam = o.mem, !.ra = ra]
<1>1. a = [p EXCEPT !.ins = new]
  BY Zenon DEF FirstOperand
<1>2. ra \in Nat
  BY DEF Instruction
<1>3. p.ins.rmd = amImm => ra = p.ins.ims
  OBVIOUS
<1> HIDE DEF ra
<1>4. /\ new \in Instruction /\ new.osz = p.ins.osz /\ new.src = p.ins.src /\ new.rmd = p.ins.rmd
      /\ new.ims = p.ins.ims /\ new.ii = p.ins.ii /\ new.iea = p.ins.iea /\ new.ra = ra
  BY <1>2 DEF Instruction
<1> HIDE DEF new
<1>5. a.ins = new
  BY <1>1 DEF Outcome
<1> QED
  BY <1>3, <1>4, <1>5 DEF SameImmediate

LEMMA SecondOperandIs ==
  ASSUME NEW p, Outcome(p), p.ins \in Instruction, p.reg \in Nat, NEW o, o.mem \in BOOLEAN, NEW b, b = SecondOperand(p, o)
  PROVE  SameImmediate(p.ins, b.ins)
<1> DEFINE new == [p.ins EXCEPT !.ibm = o.mem, !.rb = p.reg]
<1>1. b = [p EXCEPT !.ins = new]
  BY Zenon DEF SecondOperand
<1>2. /\ new \in Instruction /\ new.osz = p.ins.osz /\ new.src = p.ins.src /\ new.rmd = p.ins.rmd
      /\ new.ims = p.ins.ims /\ new.ii = p.ins.ii /\ new.iea = p.ins.iea
  BY DEF Instruction
<1> HIDE DEF new
<1>3. b.ins = new
  BY <1>1 DEF Outcome
<1> QED
  BY <1>2, <1>3 DEF SameImmediate

LEMMA NoSecondOperand ==
  ASSUME NEW a, Outcome(a), NEW b, b = [a EXCEPT !.late = {}, !.errs = 0]
  PROVE  b.ins = a.ins /\ b.res = a.res /\ b.late = {}
<1>1. DOMAIN a = {"res", "ins", "reg", "late", "errs"}
  BY DEF Outcome
<1> QED
  BY <1>1

LEMMA SameFields ==
  ASSUME NEW S, NEW ins, NEW new, new.ims = ins.ims, new.ii = ins.ii, NEW o
  PROVE  (Direct(S, ins, o) <=> Direct(S, new, o)) /\ (Waits(S, ins, o) <=> Waits(S, new, o))
BY DEF Direct, Waits

HasImm(os) ==
  /\ Len(os) > 0 /\ (Len(os) = 2 => IsRegister(os[1]))
  /\ IsRegister(os[Len(os)]) => Len(os) = 2 /\ os[Len(os)].mem /\ os[Len(os)].ea.kind # "none"

Stated(os, late1, late2, ins) ==
  LET o == os[Len(os)] IN
  /\ ins \in Instruction /\ ins.src = os /\ ins.osz = Len(os) + 1
  /\ ImmWidth(ins) \in Nat /\ InstrSize(ins) = ins.osz + ImmWidth(ins)
  /\ late1 \in {{}, {os[1].val}} /\ (Len(os) = 0 => late1 = {})
  /\ late2 \in {{}, {os[2].val}} /\ (Len(os) < 2 => late2 = {})
  /\ HasImm(os) =>
       /\ ins.rmd = amImm \/ ins.iea = TRUE
       /\ ins.ims \in Widths
       /\ \/ late1 = {} /\ late2 = {} /\ Direct(symbols, ins, o)
          \/ /\ (late1 = {o.val} /\ late2 = {}) \/ (late1 = {} /\ late2 = {o.val})
             /\ Waits(symbols, ins, o) /\ ins.ii = Offset(symbols, o)

(* The two computations of an instruction's size, by the number of operands. *)
LEMMA SizesAgree ==
  ASSUME NEW ins \in Instruction,
         \/ ins.osz = 1 /\ ins.rmd = amReg /\ ins.iea = FALSE
         \/ ins.osz = 2 /\ ins.iea = FALSE /\ (ins.rmd = amImm => ins.ra = ins.ims)
         \/ ins.osz = 3
  PROVE  ImmWidth(ins) \in Nat /\ InstrSize(ins) = ins.osz + ImmWidth(ins)
<1>1. ins.osz \in Nat /\ ins.rmd \in {amReg, amImm} /\ ins.iea \in BOOLEAN /\ ins.ims \in Nat /\ ins.ra \in Nat
  BY DEF Instruction
<1>2. amReg # amImm
  BY DEF amReg, amImm
<1>3. CASE ins.osz = 1 /\ ins.rmd = amReg /\ ins.iea = FALSE
  BY <1>1, <1>2, <1>3 DEF ImmWidth, InstrSize
<1>4. CASE ins.osz = 2 /\ ins.iea = FALSE /\ (ins.rmd = amImm => ins.ra = ins.ims)
  BY <1>1, <1>2, <1>4 DEF ImmWidth, InstrSize
<1>5. CASE ins.osz = 3
  BY <1>1, <1>2, <1>5 DEF ImmWidth, InstrSize
<1> QED
  BY <1>3, <1>4, <1>5

LEMMA InstructionParsed ==
  ASSUME SymbolsOK(symbols), NEW os \in Statements, NEW a, a = AfterFirst(os), NEW b, b = AfterSecond(os, a),
         b.res = "ok", a.errs = 0, b.errs = 0
  PROVE  Stated(os, a.late, b.late, b.ins)
<1> DEFINE start == Blank(os)
<1>1. Len(os) \in {0, 1, 2} /\ (Len(os) >= 1 => IsOperand(os[1], FALSE)) /\ (Len(os) = 2 => IsOperand(os[2], TRUE))
  BY StatementIs
<1>2. /\ start \in Instruction /\ start.osz = Len(os) + 1 /\ start.src = os /\ start.ii = 0
      /\ start.iea = FALSE /\ start.rmd = amReg
  <2>1. start = [osz |-> Len(os) + 1, rmd |-> amReg, ims |-> 1, ra |-> 0, rb |-> 0,
                 iam |-> FALSE, ibm |-> FALSE, iea |-> FALSE, ii |-> 0, src |-> os]
    BY DEF Blank
  <2> HIDE DEF start
  <2>2. Len(os) + 1 \in Nat
    BY <1>1
  <2> QED
    BY <2>1, <2>2 DEF Instruction, amReg, amImm
<1>3. a = IF Len(os) = 0 THEN Parsed(start, 0, {}, 0)
          ELSE FirstOperand(Assembler_parse_instruction_arg(start, os[1], FALSE), os[1])
  BY Zenon DEF AfterFirst
<1> HIDE DEF start
<1>4. /\ Len(os) < 2 \/ a.res # "ok" => b = [a EXCEPT !.late = {}, !.errs = 0]
      /\ Len(os) = 2 /\ a.res = "ok" =>
           b = SecondOperand(Assembler_parse_instruction_arg(a.ins, os[2], TRUE), os[2])
  <2>1. b = IF Len(os) < 2 \/ a.res # "ok" \/ a.errs > 0 THEN [a EXCEPT !.late = {}, !.errs = 0]
            ELSE SecondOperand(Assembler_parse_instruction_arg(a.ins, os[2], TRUE), os[2])
    BY Zenon DEF AfterSecond
  <2>2. ASSUME NEW x PROVE (x = 0 => ~(x > 0)) /\ (x = 2 => ~(x < 2))
    OBVIOUS
  <2> QED
    BY <2>1, <2>2, Zenon
<1>5. CASE Len(os) = 0
  <2>1. a = Parsed(start, 0, {}, 0) /\ b = [a EXCEPT !.late = {}, !.errs = 0]
    <3>1. Len(os) < 2
      BY <1>5
    <3> QED
      BY <1>3, <1>4, <1>5, <3>1, Zenon
  <2>2. a.ins = start /\ Outcome(a)
    <3>1. 0 \in {0, 1}
      OBVIOUS
    <3>2. Outcome(a)
      <4>1. Outcome(Parsed(start, 0, {}, 0))
        BY <3>1, OutcomeParsed, Zenon
      <4> QED
        BY <2>1, <4>1
    <3> QED
      BY <2>1, <3>2 DEF Parsed
  <2>3. b.ins = start
    BY <2>1, <2>2, NoSecondOperand, Zenon
  <2>4. ImmWidth(start) \in Nat /\ InstrSize(start) = start.osz + ImmWidth(start)
    <3>1. start.osz = 1
      BY <1>2, <1>5
    <3> QED
      BY <1>2, <3>1, SizesAgree
  <2>5. ~HasImm(os)
    BY <1>5 DEF HasImm
  <2> QED
    <3>1. a.late = {} /\ b.late = {}
      <4>1. a.late = {}
        BY <2>1 DEF Parsed
      <4>2. b.late = {}
        BY <2>1, <2>2, NoSecondOperand, Zenon
      <4> QED
        BY <4>1, <4>2
    <3>2. a.late \in {{}, {os[1].val}} /\ b.late \in {{}, {os[2].val}}
      BY <3>1
    <3> QED
      BY <1>2, <2>3, <2>4, <2>5, <3>1, <3>2, Zenon DEF Stated
<1>6. ASSUME Len(os) \in {1, 2}
      PROVE  /\ Outcome(a) /\ a.res = "ok"
             /\ a.ins \in Instruction /\ a.ins.osz = Len(os) + 1 /\ a.ins.src = os /\ a.ins.iea = FALSE
             /\ a.ins.rmd = amImm => a.ins.ra = a.ins.ims
             /\ a.late \in {{}, {os[1].val}}
             /\ IsRegister(os[1]) => a.late = {} /\ a.ins.ii = 0
             /\ ~IsRegister(os[1]) =>
                  /\ a.ins.rmd = amImm /\ a.ins.ims \in Widths
                  /\ \/ a.late = {} /\ Direct(symbols, a.ins, os[1])
                     \/ a.late = {os[1].val} /\ Waits(symbols, a.ins, os[1]) /\ a.ins.ii = Offset(symbols, os[1])
  <2> DEFINE p == Assembler_parse_instruction_arg(start, os[1], FALSE)
  <2> HIDE DEF p
  <2>1. a = FirstOperand(p, os[1]) /\ IsOperand(os[1], FALSE)
    <3>1. Len(os) # 0 /\ Len(os) >= 1
      BY <1>6
    <3> QED
      BY <1>1, <1>3, <3>1, Zenon DEF p
  <2>2. Outcome(p) /\ os[1].mem \in BOOLEAN
    BY <2>1, OutcomeOfOperand DEF IsOperand, p
  <2>3. p.res = a.res /\ p.errs = a.errs /\ p.late = a.late /\ Outcome(a)
    <3>1. Kept(p, FirstOperand(p, os[1]))
      BY <2>2, FirstOperandKeeps
    <3>2. Kept(p, a)
      BY <2>1, <3>1
    <3> QED
      BY <3>2 DEF Kept
  <2>4. a.res = "ok"
    <3>1. a.res # "ok" => b.res = a.res
      BY <1>4, <2>3, NoSecondOperand, ZenonT(40)
    <3> QED
      BY <3>1
  <2>5. Taken(start, os[1], FALSE, p)
    <3>1. FALSE \in BOOLEAN /\ p.errs = 0 /\ p.res = "ok"
      BY <2>3, <2>4
    <3> QED
      BY <1>2, <2>1, <3>1, OperandParsed, Zenon DEF p
  <2>6. /\ p.ins \in Instruction /\ p.reg \in Nat
        /\ p.ins.osz = start.osz /\ p.ins.src = start.src /\ p.ins.iea = FALSE
        /\ p.late \in {{}, {os[1].val}}
        /\ IsRegister(os[1]) => p.ins.ii = 0 /\ p.late = {}
        /\ ~IsRegister(os[1]) =>
              /\ p.ins.rmd = amImm
              /\ p.ins.ims \in Widths
              /\ \/ p.late = {} /\ Direct(symbols, p.ins, os[1])
                 \/ p.late = {os[1].val} /\ Waits(symbols, p.ins, os[1]) /\ p.ins.ii = Offset(symbols, os[1])
    BY <1>2, <2>5 DEF Taken, Immediate
  <2>7. /\ a.late = p.late /\ a.ins \in Instruction
        /\ a.ins.osz = p.ins.osz /\ a.ins.src = p.ins.src /\ a.ins.rmd = p.ins.rmd
        /\ a.ins.ims = p.ins.ims /\ a.ins.ii = p.ins.ii /\ a.ins.iea = p.ins.iea
        /\ a.ins.rmd = amImm => a.ins.ra = a.ins.ims
    <3>1. p.ins \in Instruction /\ p.reg \in Nat
      BY <2>6
    <3>2. SameImmediate(p.ins, a.ins) /\ (a.ins.rmd = amImm => a.ins.ra = a.ins.ims)
      BY <2>1, <2>2, <3>1, FirstOperandIs
    <3> QED
      BY <2>3, <3>2 DEF SameImmediate
  <2>8. (Direct(symbols, p.ins, os[1]) <=> Direct(symbols, a.ins, os[1]))
        /\ (Waits(symbols, p.ins, os[1]) <=> Waits(symbols, a.ins, os[1]))
    BY <2>7, SameFields
  <2> QED
    BY <1>2, <2>3, <2>4, <2>6, <2>7, <2>8
<1>7. CASE Len(os) = 1
  <2>1. b = [a EXCEPT !.late = {}, !.errs = 0]
    <3>1. Len(os) < 2
      BY <1>7
    <3> QED
      BY <1>4, <3>1, Zenon
  <2>2. Outcome(a)
    BY <1>6, <1>7
  <2>3. b.ins = a.ins /\ b.late = {}
    BY <2>1, <2>2, NoSecondOperand, Zenon
  <2>4. a.ins.osz = 2 /\ a.ins.osz = Len(os) + 1 /\ a.ins \in Instruction /\ a.ins.src = os /\ a.ins.iea = FALSE
        /\ (a.ins.rmd = amImm => a.ins.ra = a.ins.ims)
    <3>1. Len(os) \in {1, 2} /\ Len(os) + 1 = 2
      BY <1>7
    <3> QED
      BY <1>6, <3>1
  <2>5. ImmWidth(a.ins) \in Nat /\ InstrSize(a.ins) = a.ins.osz + ImmWidth(a.ins)
    BY <2>4, SizesAgree
  <2>6. os[Len(os)] = os[1] /\ (HasImm(os) => ~IsRegister(os[1]))
    BY <1>7 DEF HasImm
  <2>7. HasImm(os) =>
          /\ a.ins.rmd = amImm /\ a.ins.ims \in Widths
          /\ \/ a.late = {} /\ Direct(symbols, a.ins, os[Len(os)])
             \/ /\ a.late = {os[Len(os)].val}
                /\ Waits(symbols, a.ins, os[Len(os)]) /\ a.ins.ii = Offset(symbols, os[Len(os)])
    BY <1>6, <1>7, <2>6
  <2>8. a.late \in {{}, {os[1].val}} /\ b.late \in {{}, {os[2].val}} /\ Len(os) # 0
    BY <1>6, <1>7, <2>3
  <2> QED
    BY <2>3, <2>4, <2>5, <2>7, <2>8, Zenon DEF Stated
<1>8. CASE Len(os) = 2
  <2> DEFINE p == Assembler_parse_instruction_arg(a.ins, os[2], TRUE)
  <2> HIDE DEF p
  <2>1. b = SecondOperand(p, os[2]) /\ IsOperand(os[2], TRUE)
    <3>1. a.res = "ok"
      BY <1>6, <1>8
    <3> QED
      BY <1>1, <1>4, <1>8, <3>1, Zenon DEF p
  <2>2. Outcome(p) /\ os[2].mem \in BOOLEAN
    BY <2>1, OutcomeOfOperand DEF IsOperand, p
  <2>3. p.res = b.res /\ p.errs = b.errs /\ p.late = b.late
    <3>1. Kept(p, SecondOperand(p, os[2]))
      BY <2>2, SecondOperandKeeps
    <3>2. Kept(p, b)
      BY <2>1, <3>1
    <3> QED
      BY <3>2 DEF Kept
  <2>4. Taken(a.ins, os[2], TRUE, p)
    <3>1. TRUE \in BOOLEAN /\ p.errs = 0 /\ p.res = "ok" /\ a.ins \in Instruction
      BY <1>6, <1>8, <2>3
    <3> QED
      BY <2>1, <3>1, OperandParsed, Zenon DEF p
  <2>5. /\ p.ins \in Instruction /\ p.reg \in Nat
        /\ p.ins.osz = a.ins.osz /\ p.ins.src = a.ins.src
        /\ p.late \in {{}, {os[2].val}}
        /\ a.ins.ii = 0 /\ Immediate(os[2], TRUE) =>
              /\ p.ins.rmd = amImm \/ p.ins.iea = TRUE
              /\ p.ins.ims \in Widths
              /\ \/ p.late = {} /\ Direct(symbols, p.ins, os[2])
                 \/ p.late = {os[2].val} /\ Waits(symbols, p.ins, os[2]) /\ p.ins.ii = Offset(symbols, os[2])
    BY <2>4, Zenon DEF Taken
  <2>6. /\ b.late = p.late /\ b.ins \in Instruction
        /\ b.ins.osz = p.ins.osz /\ b.ins.src = p.ins.src /\ b.ins.rmd = p.ins.rmd
        /\ b.ins.ims = p.ins.ims /\ b.ins.ii = p.ins.ii /\ b.ins.iea = p.ins.iea
    <3>1. p.ins \in Instruction /\ p.reg \in Nat
      BY <2>5
    <3>2. SameImmediate(p.ins, b.ins)
      BY <2>1, <2>2, <3>1, SecondOperandIs
    <3> QED
      BY <2>3, <3>2 DEF SameImmediate
  <2>7. (Direct(symbols, p.ins, os[2]) <=> Direct(symbols, b.ins, os[2]))
        /\ (Waits(symbols, p.ins, os[2]) <=> Waits(symbols, b.ins, os[2]))
    BY <2>6, SameFields
  <2>8. b.ins.osz = 3 /\ b.ins.osz = Len(os) + 1 /\ b.ins.src = os
    BY <1>6, <1>8, <2>5, <2>6
  <2>9. ImmWidth(b.ins) \in Nat /\ InstrSize(b.ins) = b.ins.osz + ImmWidth(b.ins)
    BY <2>6, <2>8, SizesAgree
  <2>10. os[Len(os)] = os[2] /\ (HasImm(os) => IsRegister(os[1]) /\ Immediate(os[2], TRUE))
    BY <1>8 DEF HasImm, Immediate
  <2>11. HasImm(os) => a.late = {} /\ a.ins.ii = 0
    BY <1>6, <1>8, <2>10
  <2>12. HasImm(os) =>
          /\ b.ins.rmd = amImm \/ b.ins.iea = TRUE
          /\ b.ins.ims \in Widths
          /\ \/ b.late = {} /\ Direct(symbols, b.ins, os[Len(os)])
             \/ /\ b.late = {os[Len(os)].val}
                /\ Waits(symbols, b.ins, os[Len(os)]) /\ b.ins.ii = Offset(symbols, os[Len(os)])
    BY <2>5, <2>6, <2>7, <2>10, <2>11
  <2>13. a.late \in {{}, {os[1].val}} /\ b.late \in {{}, {os[2].val}} /\ Len(os) # 0 /\ ~(Len(os) < 2)
    BY <1>6, <1>8, <2>5, <2>6
  <2> QED
    BY <2>6, <2>8, <2>9, <2>11, <2>12, <2>13, Zenon DEF Stated
<1> QED
  BY <1>1, <1>5, <1>7, <1>8

-----------------------------------------------------------------------------
(***************************************************************************)
(* The invariant.                                                          *)
(***************************************************************************)

RefNames == {o.val : o \in UNION {{os[k] : k \in DOMAIN os} : os \in Statements}}

(* The addresses of the instructions, as Assembler_link adds them up. *)
SizesOf(seq) == [k \in 1 .. Len(seq) |-> InstrSize(seq[k])]

Layout(f) == Sums(f, Len(instructions), SizesOf(instructions), HeaderSize + constants)

(* The instruction j waits for one name at most, that of its last operand. *)
OneReference(j) ==
  /\ \A k \in DOMAIN patchWork : patchWork[k][1] = j => patchWork[k][2] = Last(j).val
  /\ \A k, l \in DOMAIN patchWork : patchWork[k][1] = j /\ patchWork[l][1] = j => k = l

(* What parsing left of instruction j, its immediate apart when it waits. *)
Written(j) ==
  LET ins == instructions[j + 1] IN
  /\ ImmWidth(ins) \in Nat /\ InstrSize(ins) = ins.osz + ImmWidth(ins)
  /\ HasImmediate(j) =>
       /\ ins.rmd = amImm \/ ins.iea = TRUE
       /\ ins.ims \in Widths
       /\ OneReference(j)
       /\ ~Patched(j) => Direct(symbols, ins, Last(j))
       /\ Patched(j) => Waits(symbols, ins, Last(j))

Indices == 0 .. Len(instructions) - 1

Built ==
  /\ instructions \in Seq(Instruction) /\ constants \in Nat
  /\ patchWork \in Seq(Nat \X RefNames)
  /\ SymbolsOK(symbols)
  /\ \A x \in DOMAIN symbols : symbols[x].tag = "label" => symbols[x].id <= Len(instructions)
  /\ \A k \in DOMAIN patchWork : patchWork[k][1] \in Indices
  /\ \A j \in Indices : Written(j)

(* Before the linker's loop a reference holds what its effective address adds. *)
Unlinked ==
  \A j \in Indices :
    HasImmediate(j) /\ Patched(j) => instructions[j + 1].ii = Offset(symbols, Last(j))

(* In the loop it has got the half of the instruction, once the loop is past
   that, and the half of the label, once it is past that one. *)
Half(f, k) == IF k < i THEN f[k] ELSE 0

RefsOf ==
  [id \in {id \in 0 .. Len(instructions) : \E k \in DOMAIN patchWork : WaitsFor(k, id)} |->
     [j \in Indices |-> Times(id, j)]]

Halves(f) ==
  \A j \in Indices :
    HasImmediate(j) /\ Patched(j) /\ IsLabel(Last(j)) =>
      instructions[j + 1].ii =
        Offset(symbols, Last(j)) + Half(f, symbols[Last(j).val].id) - Half(f, j)

Linked ==
  /\ i \in 0 .. Len(instructions) /\ ip \in Int /\ refs = RefsOf
  /\ \A k \in DOMAIN patchWork : patchWork[k][2] \in DOMAIN symbols
  /\ \A f : Layout(f) => ip = f[i] /\ Halves(f)

Emitted ==
  /\ i = Len(instructions) /\ Layout(code.at) /\ code.size = code.at[Len(instructions)]
  /\ code.imm = [k \in Indices |-> ReadBack(instructions[k + 1].ii, ImmWidth(instructions[k + 1]))]

IInv ==
  /\ phase \in {"open", "parse"} => errors \in Nat
  /\ phase \in {"open", "collect", "link", "done"} => errors = 0
  /\ phase \in {"open", "parse", "collect", "link", "done"} /\ errors = 0 => Built
  /\ phase \in {"open", "parse", "collect"} /\ errors = 0 => Unlinked
  /\ phase \in {"link", "done"} => Linked
  /\ phase = "done" => Emitted

(* A name keeps its meaning while symbols are added. *)
LEMMA GrowKeeps ==
  ASSUME NEW S, NEW T, \A x \in DOMAIN S : x \in DOMAIN T /\ T[x] = S[x], NEW ins, NEW o
  PROVE  /\ Direct(S, ins, o) => Direct(T, ins, o)
         /\ Waits(S, ins, o) => Waits(T, ins, o) /\ Offset(T, o) = Offset(S, o)
<1>1. KnownEA(S, o) => KnownEA(T, o) /\ Offset(T, o) = Offset(S, o)
  BY DEF KnownEA, Offset
<1>2. Known(S, o) => Known(T, o) /\ Base(T, o) = Base(S, o)
  <2>1. CASE o.kind = "name" /\ ~IsRegister(o)
    BY <2>1 DEF Known, Base
  <2>2. CASE o.kind # "name" \/ IsRegister(o)
    BY <2>2 DEF Known, Base
  <2> QED
    BY <2>1, <2>2
<1> QED
  BY <1>1, <1>2, Zenon DEF Direct, Waits

LEMMA ReservedIs ==
  ASSUME NEW init \in Initializers, NEW n \in Reserved(init)
  PROVE  n \in Nat
<1>1. init.n \in Nat /\ init.form \in {"bytes", "wide", "string", "Int", "Char", "Float", "space"}
  BY SourceAssumption
<1>2. ASSUME NEW m \in DOMAIN vmSizeTbl PROVE vmSizeTbl[m] \in {1, 2, 4, 8}
  BY DEF vmSizeTbl
<1>3. ASSUME NEW k \in {1, 2, 4, 8} PROVE k \in Nat /\ init.n * k \in Nat
  BY <1>1
<1>4. ASSUME NEW modes, NEW m \in Assembler_parse_modes(init.mode, modes) PROVE m \in DOMAIN vmSizeTbl
  BY DEF Assembler_parse_modes
<1>5. CASE init.form \in {"bytes", "wide", "string"}
  <2>1. Reserved(init) = {init.n}
    BY <1>5 DEF Reserved
  <2> QED
    BY <1>1, <2>1
<1>6. CASE init.form = "Int"
  <2>1. Reserved(init) = {Assembler_append_integral_data(m) : m \in Assembler_parse_modes(init.mode, {})}
    BY <1>6 DEF Reserved
  <2> QED
    BY <1>2, <1>3, <1>4, <2>1 DEF Assembler_append_integral_data
<1>7. CASE init.form = "Char"
  <2>1. Reserved(init) = {Assembler_append_integral_data("b")}
    BY <1>7 DEF Reserved
  <2> QED
    BY <2>1 DEF Assembler_append_integral_data, vmSizeTbl
<1>8. CASE init.form = "Float"
  <2>1. Reserved(init) = {Assembler_append_integral_data(m) : m \in Assembler_parse_modes(init.mode, {"w", "q"})}
    BY <1>8 DEF Reserved
  <2> QED
    BY <1>2, <1>3, <1>4, <2>1 DEF Assembler_append_integral_data
<1>9. CASE init.form = "space"
  <2>1. Reserved(init) = {init.n * vmSizeTbl[m] : m \in Assembler_parse_modes(init.mode, {})}
    BY <1>9 DEF Reserved
  <2> QED
    BY <1>2, <1>3, <1>4, <2>1
<1> QED
  BY <1>1, <1>5, <1>6, <1>7, <1>8, <1>9

(* What the operands of the instruction n put off, behind the patches so far. *)
LEMMA AppendOne ==
  ASSUME NEW E, NEW s \in Seq(E), NEW e \in E, NEW t, t = Append(s, e)
  PROVE  /\ t \in Seq(E) /\ Len(t) = Len(s) + 1 /\ t[Len(s) + 1] = e
         /\ \A k \in 1 .. Len(s) : t[k] = s[k]
OBVIOUS

Behind(N, pw, late, n, V) ==
  /\ pw \in Seq(Nat \X N) /\ n \in Nat
  /\ late \in Seq(Nat \X N) /\ Len(late) >= Len(pw)
  /\ \A k \in 1 .. Len(pw) : late[k] = pw[k]
  /\ \A k \in 1 .. Len(late) : k > Len(pw) => late[k][1] = n /\ late[k][2] \in V

LEMMA BehindNone ==
  ASSUME NEW N, NEW pw \in Seq(Nat \X N), NEW n \in Nat
  PROVE  Behind(N, pw, pw, n, {})
<1>1. Len(pw) \in Nat
  OBVIOUS
<1> QED
  BY <1>1 DEF Behind

LEMMA AppendedOne ==
  ASSUME NEW n, NEW v, NEW s
  PROVE  Appended(s, {<<n, x>> : x \in {v}}) = Append(s, <<n, v>>)
<1>1. {<<n, x>> : x \in {v}} = {<<n, v>>}
  OBVIOUS
<1>2. (CHOOSE x \in {<<n, v>>} : TRUE) = <<n, v>>
  BY TheOne, Zenon
<1>3. {<<n, v>>} # {}
  OBVIOUS
<1> QED
  BY <1>1, <1>2, <1>3, Zenon DEF Appended

LEMMA AppendedNone ==
  ASSUME NEW n, NEW s
  PROVE  Appended(s, {<<n, x>> : x \in {}}) = s
<1>1. {<<n, x>> : x \in {}} = {}
  OBVIOUS
<1> QED
  BY <1>1, Zenon DEF Appended

LateOf(n, l) == {<<n, x>> : x \in l}

(* late is mid with what the operand put off, the names l. *)
Longer(N, pw, mid, late, n, V, l) ==
  /\ Behind(N, pw, late, n, V \cup l)
  /\ Len(late) = Len(mid) + IF l = {} THEN 0 ELSE 1

OneMore(mid, late, n, v) == late = Append(mid, <<n, v>>)

LEMMA BehindMore ==
  ASSUME NEW N, NEW pw, NEW n, NEW V, NEW mid, Behind(N, pw, mid, n, V), NEW v \in N,
         NEW late, OneMore(mid, late, n, v)
  PROVE  Longer(N, pw, mid, late, n, V, {v})
<1>1. mid \in Seq(Nat \X N) /\ pw \in Seq(Nat \X N) /\ <<n, v>> \in Nat \X N /\ Len(pw) \in Nat /\ n \in Nat
  BY DEF Behind
<1>2. /\ late \in Seq(Nat \X N) /\ Len(late) = Len(mid) + 1 /\ late[Len(mid) + 1] = <<n, v>>
      /\ \A k \in 1 .. Len(mid) : late[k] = mid[k]
  BY <1>1, AppendOne DEF OneMore
<1>3. Len(mid) \in Nat /\ Len(mid) >= Len(pw)
  BY <1>1 DEF Behind
<1>4. ASSUME NEW k \in 1 .. Len(pw) PROVE late[k] = pw[k]
  <2>1. k \in 1 .. Len(mid)
    BY <1>1, <1>3
  <2>2. mid[k] = pw[k]
    BY DEF Behind
  <2> QED
    BY <1>2, <2>1, <2>2
<1>5. ASSUME NEW k \in 1 .. Len(late), k > Len(pw) PROVE late[k][1] = n /\ late[k][2] \in V \cup {v}
  <2>1. CASE k = Len(mid) + 1
    BY <1>2, <2>1
  <2>2. CASE k # Len(mid) + 1
    <3>1. k \in 1 .. Len(mid)
      BY <1>2, <1>3, <2>2
    <3>2. mid[k][1] = n /\ mid[k][2] \in V
      BY <1>5, <3>1 DEF Behind
    <3> QED
      BY <1>2, <3>1, <3>2
  <2> QED
    BY <2>1, <2>2
<1>6. Len(late) >= Len(pw)
  BY <1>1, <1>2, <1>3
<1>7. Behind(N, pw, late, n, V \cup {v})
  BY <1>1, <1>2, <1>4, <1>5, <1>6 DEF Behind
<1> QED
  BY <1>2, <1>7 DEF Longer

MayWait(N, l) == l = {} \/ \E v \in N : l = {v}

LEMMA AppendedLate ==
  ASSUME NEW N, NEW pw, NEW n, NEW V, NEW mid, Behind(N, pw, mid, n, V), NEW l, MayWait(N, l)
  PROVE  Longer(N, pw, mid, Appended(mid, LateOf(n, l)), n, V, l)
<1>1. CASE l = {}
  <2>1. Appended(mid, LateOf(n, l)) = mid
    BY <1>1, AppendedNone, Zenon DEF LateOf
  <2>2. V \cup l = V
    BY <1>1
  <2>3. Len(mid) + 0 = Len(mid)
    <3>1. mid \in Seq(Nat \X N)
      BY DEF Behind
    <3>2. Len(mid) \in Nat
      BY <3>1
    <3> QED
      BY <3>2
  <2> QED
    BY <1>1, <2>1, <2>2, <2>3 DEF Longer
<1>2. ASSUME NEW v \in N, l = {v}
      PROVE  Longer(N, pw, mid, Appended(mid, LateOf(n, l)), n, V, l)
  <2>1. Appended(mid, LateOf(n, l)) = Append(mid, <<n, v>>)
    BY <1>2, AppendedOne, Zenon DEF LateOf
  <2>2. OneMore(mid, Appended(mid, LateOf(n, l)), n, v)
    BY <2>1 DEF OneMore
  <2>3. Longer(N, pw, mid, Appended(mid, LateOf(n, l)), n, V, {v})
    BY <2>2, BehindMore, Zenon
  <2> QED
    BY <1>2, <2>3, Zenon
<1> QED
  BY <1>1, <1>2 DEF MayWait

LongerBy(pw, late, l1, l2) ==
  Len(late) = Len(pw) + (IF l1 = {} THEN 0 ELSE 1) + (IF l2 = {} THEN 0 ELSE 1)

LEMMA LatePatches ==
  ASSUME NEW N, NEW pw \in Seq(Nat \X N), NEW n \in Nat, NEW l1, MayWait(N, l1), NEW l2, MayWait(N, l2)
  PROVE  LET late == Appended(Appended(pw, LateOf(n, l1)), LateOf(n, l2)) IN
         /\ Behind(N, pw, late, n, l1 \cup l2)
         /\ LongerBy(pw, late, l1, l2)
<1> DEFINE mid == Appended(pw, LateOf(n, l1))
           late == Appended(mid, LateOf(n, l2))
<1>1. Behind(N, pw, pw, n, {})
  BY BehindNone
<1>2. Longer(N, pw, pw, mid, n, {}, l1)
  BY <1>1, AppendedLate, Zenon
<1> HIDE DEF mid
<1>3. Behind(N, pw, mid, n, {} \cup l1) /\ Len(mid) = Len(pw) + IF l1 = {} THEN 0 ELSE 1
  BY <1>2 DEF Longer
<1>4. Longer(N, pw, mid, late, n, {} \cup l1, l2)
  BY <1>3, AppendedLate, Zenon
<1> HIDE DEF late
<1>5. Behind(N, pw, late, n, ({} \cup l1) \cup l2) /\ Len(late) = Len(mid) + IF l2 = {} THEN 0 ELSE 1
  BY <1>4 DEF Longer
<1>6. ({} \cup l1) \cup l2 = l1 \cup l2
  OBVIOUS
<1>7. Behind(N, pw, late, n, l1 \cup l2)
  BY <1>5, <1>6
<1>8. LongerBy(pw, late, l1, l2)
  BY <1>3, <1>5 DEF LongerBy
<1> QED
  BY <1>7, <1>8 DEF late, mid

-----------------------------------------------------------------------------
(***************************************************************************)
(* The steps.                                                              *)
(***************************************************************************)

LEMMA HasImmIs ==
  ASSUME NEW j
  PROVE  HasImmediate(j) <=> HasImm(instructions[j + 1].src)
BY DEF HasImmediate, HasImm, Last

(* Declaring a label or a variable leaves the instructions as they are. *)
LEMMA SymbolsGrow ==
  ASSUME Built, Unlinked, \A x \in DOMAIN symbols : x \in DOMAIN symbols' /\ symbols'[x] = symbols[x],
         SymbolsOK(symbols'), \A x \in DOMAIN symbols' : symbols'[x].tag = "label" => symbols'[x].id <= Len(instructions),
         constants' \in Nat, UNCHANGED <<instructions, patchWork>>
  PROVE  Built' /\ Unlinked'
<1>1. Indices' = Indices
  BY DEF Indices
<1>2. ASSUME NEW j \in Indices
      PROVE  Written(j)' /\ (HasImmediate(j)' /\ Patched(j)' => instructions'[j + 1].ii = Offset(symbols', Last(j)'))
  <2>1. Written(j) /\ (HasImmediate(j) /\ Patched(j) => instructions[j + 1].ii = Offset(symbols, Last(j)))
    BY DEF Built, Unlinked
  <2>2. /\ Last(j)' = Last(j) /\ (HasImmediate(j)' <=> HasImmediate(j))
        /\ Patched(j)' = Patched(j) /\ (OneReference(j)' <=> OneReference(j))
    BY DEF Last, HasImmediate, Patched, OneReference
  <2> DEFINE ins == instructions[j + 1]
             o == Last(j)
  <2>3. /\ Direct(symbols, ins, o) => Direct(symbols', ins, o)
        /\ Waits(symbols, ins, o) => Waits(symbols', ins, o) /\ Offset(symbols', o) = Offset(symbols, o)
    <3> HIDE DEF ins, o
    <3> QED
      BY GrowKeeps
  <2>4. Written(j)'
    BY <2>1, <2>2, <2>3 DEF Written
  <2>5. HasImmediate(j) /\ Patched(j) => Waits(symbols, ins, o)
    BY <2>1 DEF Written
  <2> QED
    BY <2>1, <2>2, <2>3, <2>4, <2>5
<1> QED
  BY <1>1, <1>2 DEF Built, Unlinked

LEMMA PutGrows ==
  ASSUME NEW x, x \notin DOMAIN symbols, NEW v, symbols' = Put(symbols, x, v)
  PROVE  /\ \A y \in DOMAIN symbols : y \in DOMAIN symbols' /\ symbols'[y] = symbols[y]
         /\ \A y \in DOMAIN symbols' : y \in DOMAIN symbols \/ (y = x /\ symbols'[y] = v)
         /\ \A y \in DOMAIN symbols' : y \in DOMAIN symbols => symbols'[y] = symbols[y]
BY DEF Put

LEMMA InitInv ==
  ASSUME Init
  PROVE  IInv
<1>1. instructions = <<>> /\ patchWork = <<>> /\ constants = 0 /\ errors = 0 /\ phase = "open"
      /\ symbols = [d \in DOMAIN Defines |-> Assembler_define(d)]
  BY DEF Init
<1>2. Len(instructions) = 0 /\ DOMAIN patchWork = {}
  BY <1>1
<1>3. Indices = {}
  BY <1>2 DEF Indices
<1>4. instructions \in Seq(Instruction) /\ patchWork \in Seq(Nat \X RefNames)
  BY <1>1
<1>5. \A x \in DOMAIN symbols : symbols[x].id \in Nat /\ symbols[x].size \in Nat /\ symbols[x].tag = "define"
  BY <1>1, SourceAssumption DEF Assembler_define
<1>6. Built
  BY <1>1, <1>2, <1>3, <1>4, <1>5 DEF Built, SymbolsOK
<1>7. Unlinked
  BY <1>3 DEF Unlinked
<1> QED
  BY <1>1, <1>6, <1>7 DEF IInv

(* Steps of the parser that keep what was built, or leave an error. *)
LEMMA ParsingInv ==
  ASSUME IInv, phase = "parse", phase' = "parse", errors' \in Nat, errors' = 0 => Built' /\ Unlinked'
  PROVE  IInv'
BY DEF IInv

LEMMA LabelInv ==
  ASSUME IInv, NEW l, Assembler_parse_label(l)
  PROVE  IInv'
<1>1. phase = "parse" /\ phase' = "parse" /\ errors \in Nat /\ (errors = 0 => Built /\ Unlinked)
  BY DEF IInv, Assembler_parse_label, Parsing
<1>2. CASE /\ l \notin DOMAIN symbols
           /\ symbols' = Put(symbols, l, [tag |-> "label", id |-> Len(instructions), size |-> 0])
           /\ UNCHANGED <<instructions, patchWork, constants, errors>>
  <2>1. ASSUME errors' = 0 PROVE Built' /\ Unlinked'
    <3>1. Built /\ Unlinked
      BY <1>1, <1>2, <2>1
    <3>2. /\ instructions \in Seq(Instruction) /\ constants \in Nat /\ SymbolsOK(symbols)
          /\ \A x \in DOMAIN symbols : symbols[x].tag = "label" => symbols[x].id <= Len(instructions)
      BY <3>1 DEF Built
    <3>3. Len(instructions) \in Nat
      BY <3>2
    <3> DEFINE v == [tag |-> "label", id |-> Len(instructions), size |-> 0]
    <3>4. v.id \in Nat /\ v.size \in Nat /\ v.id <= Len(instructions)
      BY <3>3
    <3>5. symbols' = Put(symbols, l, v) /\ l \notin DOMAIN symbols
      BY <1>2
    <3> HIDE DEF v
    <3>6. /\ \A y \in DOMAIN symbols : y \in DOMAIN symbols' /\ symbols'[y] = symbols[y]
          /\ \A y \in DOMAIN symbols' : y \in DOMAIN symbols \/ (y = l /\ symbols'[y] = v)
      BY <3>5, PutGrows
    <3>7. SymbolsOK(symbols')
      BY <3>2, <3>4, <3>6 DEF SymbolsOK
    <3>8. \A x \in DOMAIN symbols' : symbols'[x].tag = "label" => symbols'[x].id <= Len(instructions)
      BY <3>2, <3>4, <3>6
    <3> QED
      BY <1>2, <3>1, <3>2, <3>6, <3>7, <3>8, SymbolsGrow
  <2> QED
    BY <1>1, <1>2, <2>1, ParsingInv
<1>3. CASE Fail
  <2>1. errors' \in Nat /\ errors' # 0
    BY <1>1, <1>3 DEF Fail
  <2> QED
    BY <1>1, <2>1, ParsingInv
<1> QED
  BY <1>2, <1>3 DEF Assembler_parse_label

(* A failed or finished run promises nothing more. *)
LEMMA EndedInv ==
  ASSUME phase' \in {"failed", "success", "failure", "abort"}
  PROVE  IInv'
BY DEF IInv

LEMMA FailInv ==
  ASSUME IInv, phase = "parse", phase' = "parse", errors' = errors + 1
  PROVE  IInv'
<1>1. errors \in Nat
  BY DEF IInv
<1>2. errors' \in Nat /\ errors' # 0
  BY <1>1
<1> QED
  BY <1>2, ParsingInv

LEMMA DeclarationInv ==
  ASSUME IInv, NEW x, NEW init \in Initializers, Assembler_parse_var_decl(x, init)
  PROVE  IInv'
<1>1. phase = "parse" /\ errors \in Nat /\ (errors = 0 => Built /\ Unlinked)
  BY DEF IInv, Assembler_parse_var_decl, Parsing
<1> DEFINE Sym(n) == Put(symbols, x, [tag |-> "var", id |-> constants + HeaderSize, size |-> n])
           errs == IF init.form = "wide" THEN 1 ELSE 0
<1>2. CASE cynAbort
  BY <1>2, EndedInv DEF cynAbort
<1>3. CASE /\ x \notin DOMAIN symbols
           /\ \E n \in Reserved(init) : symbols' = Sym(n) /\ constants' = constants + n
           /\ errors' = errors + errs
           /\ UNCHANGED <<instructions, patchWork, main, phase>>
  <2>1. errors' \in Nat /\ (errors' = 0 => errors = 0)
    BY <1>1, <1>3
  <2>2. ASSUME errors' = 0 PROVE Built' /\ Unlinked'
    <3>1. Built /\ Unlinked
      BY <1>1, <2>1, <2>2
    <3>2. /\ constants \in Nat /\ SymbolsOK(symbols)
          /\ \A y \in DOMAIN symbols : symbols[y].tag = "label" => symbols[y].id <= Len(instructions)
      BY <3>1 DEF Built
    <3>3. PICK n \in Reserved(init) : symbols' = Sym(n) /\ constants' = constants + n
      BY <1>3
    <3>4. n \in Nat
      BY ReservedIs
    <3> DEFINE v == [tag |-> "var", id |-> constants + HeaderSize, size |-> n]
    <3>5. v.id \in Nat /\ v.size \in Nat /\ v.tag = "var"
      BY <3>2, <3>4 DEF HeaderSize
    <3>6. symbols' = Put(symbols, x, v)
      BY <3>3
    <3> HIDE DEF v, Sym
    <3>7. /\ \A y \in DOMAIN symbols : y \in DOMAIN symbols' /\ symbols'[y] = symbols[y]
          /\ \A y \in DOMAIN symbols' : y \in DOMAIN symbols \/ (y = x /\ symbols'[y] = v)
      BY <1>3, <3>6, PutGrows
    <3>8. SymbolsOK(symbols')
      BY <3>2, <3>5, <3>7 DEF SymbolsOK
    <3>9. \A y \in DOMAIN symbols' : symbols'[y].tag = "label" => symbols'[y].id <= Len(instructions)
      BY <3>2, <3>5, <3>7
    <3>10. constants' \in Nat
      BY <3>2, <3>3, <3>4
    <3>11. UNCHANGED <<instructions, patchWork>>
      BY <1>3
    <3> QED
      BY <3>1, <3>7, <3>8, <3>9, <3>10, <3>11, SymbolsGrow
  <2>3. phase' = "parse"
    BY <1>1, <1>3
  <2> QED
    BY <1>1, <2>1, <2>2, <2>3, ParsingInv
<1>4. CASE errors' = errors + 1 /\ UNCHANGED phase
  BY <1>1, <1>4, FailInv
<1> QED
  BY <1>2, <1>3, <1>4 DEF Assembler_parse_var_decl, Fail

-----------------------------------------------------------------------------
(* A new instruction.  The ones before it do not see it or its patches. *)
LEMMA AppendedIns ==
  ASSUME NEW ins \in Instruction, instructions \in Seq(Instruction), NEW seq, seq = Append(instructions, ins)
  PROVE  /\ seq \in Seq(Instruction) /\ Len(seq) = Len(instructions) + 1
         /\ seq[Len(instructions) + 1] = ins
         /\ \A k \in 1 .. Len(instructions) : seq[k] = instructions[k]
OBVIOUS

LEMMA OldInstruction ==
  ASSUME Built, Unlinked, NEW ins \in Instruction, instructions' = Append(instructions, ins), symbols' = symbols, NEW V,
         Behind(RefNames, patchWork, patchWork', Len(instructions), V), NEW j \in Indices
  PROVE  Written(j)' /\ (HasImmediate(j)' /\ Patched(j)' => instructions'[j + 1].ii = Offset(symbols', Last(j)'))
<1> DEFINE n == Len(instructions)
           m == Len(patchWork)
           m2 == Len(patchWork')
<1>1. instructions \in Seq(Instruction) /\ patchWork \in Seq(Nat \X RefNames)
  BY DEF Built
<1>2. n \in Nat /\ m \in Nat /\ DOMAIN patchWork = 1 .. m /\ j \in 0 .. n - 1
  BY <1>1 DEF Indices
<1>3. instructions'[j + 1] = instructions[j + 1]
  <2>1. j + 1 \in 1 .. Len(instructions)
    BY <1>2
  <2> QED
    BY <1>1, <2>1, AppendedIns
<1>4. /\ patchWork' \in Seq(Nat \X RefNames) /\ m2 >= m
      /\ \A k \in 1 .. m : patchWork'[k] = patchWork[k]
      /\ \A k \in 1 .. m2 : k > m => patchWork'[k][1] = n
  BY DEF Behind
<1>5. m2 \in Nat /\ DOMAIN patchWork' = 1 .. m2
  BY <1>4
<1> HIDE DEF n, m, m2
<1>6. ASSUME NEW k \in DOMAIN patchWork', patchWork'[k][1] = j
      PROVE  k \in DOMAIN patchWork /\ patchWork'[k] = patchWork[k]
  <2>1. k \in 1 .. m2
    BY <1>5
  <2>2. ~ (k > m)
    BY <1>2, <1>4, <1>6, <2>1
  <2>3. k \in 1 .. m
    BY <1>2, <1>5, <2>1, <2>2
  <2> QED
    BY <1>2, <1>4, <2>3
<1>7. ASSUME NEW k \in DOMAIN patchWork
      PROVE  k \in DOMAIN patchWork' /\ patchWork'[k] = patchWork[k]
  <2>1. k \in 1 .. m /\ k \in 1 .. m2
    BY <1>2, <1>4, <1>5
  <2> QED
    BY <1>4, <1>5, <2>1
<1>8. Patched(j)' <=> Patched(j)
  BY <1>6, <1>7, Zenon DEF Patched
<1>9. Last(j)' = Last(j)
  BY <1>3 DEF Last
<1>10. OneReference(j) => OneReference(j)'
  BY <1>6, <1>9, Zenon DEF OneReference
<1>11. HasImmediate(j)' <=> HasImmediate(j)
  BY <1>3, <1>9 DEF HasImmediate
<1>12. Written(j) /\ (HasImmediate(j) /\ Patched(j) => instructions[j + 1].ii = Offset(symbols, Last(j)))
  BY DEF Built, Unlinked
<1>13. Written(j)'
  BY <1>3, <1>8, <1>9, <1>10, <1>11, <1>12 DEF Written
<1> QED
  BY <1>3, <1>8, <1>9, <1>11, <1>12, <1>13

LEMMA CleanOutcome ==
  ASSUME NEW a, Outcome(a)
  PROVE  [a EXCEPT !.late = {}, !.errs = 0].errs = 0
<1>1. DOMAIN a = {"res", "ins", "reg", "late", "errs"}
  BY DEF Outcome
<1> QED
  BY <1>1

(* Each of the two operands counts at most one error. *)
LEMMA ErrorsCounted ==
  ASSUME NEW os
  PROVE  AfterFirst(os).errs \in {0, 1} /\ AfterSecond(os, AfterFirst(os)).errs \in {0, 1}
<1> DEFINE a == AfterFirst(os)
           b == AfterSecond(os, a)
<1>1. Outcome(a)
  <2>1. CASE Len(os) = 0
    <3>1. 0 \in {0, 1}
      OBVIOUS
    <3> QED
      BY <2>1, <3>1, OutcomeParsed, Zenon DEF AfterFirst
  <2>2. CASE Len(os) # 0
    BY <2>2, OutcomeOfOperand, FirstOperandKeeps, Zenon DEF AfterFirst, Kept
  <2> QED
    BY <2>1, <2>2
<1> HIDE DEF a
<1>2. b.errs \in {0, 1}
  <2>1. [a EXCEPT !.late = {}, !.errs = 0].errs = 0
    BY <1>1, CleanOutcome, Zenon
  <2>2. ASSUME NEW p, p = SecondOperand(Assembler_parse_instruction_arg(a.ins, os[2], TRUE), os[2]) PROVE Outcome(p)
    BY <2>2, OutcomeOfOperand, SecondOperandKeeps, Zenon DEF Kept
  <2>3. \/ b = [a EXCEPT !.late = {}, !.errs = 0]
        \/ b = SecondOperand(Assembler_parse_instruction_arg(a.ins, os[2], TRUE), os[2])
    BY Zenon DEF AfterSecond
  <2> HIDE DEF b
  <2>4. CASE b = [a EXCEPT !.late = {}, !.errs = 0]
    BY <2>1, <2>4
  <2>5. CASE b = SecondOperand(Assembler_parse_instruction_arg(a.ins, os[2], TRUE), os[2])
    <3>1. Outcome(b)
      BY <2>2, <2>5, Zenon
    <3> QED
      BY <3>1 DEF Outcome
  <2> QED
    BY <2>3, <2>4, <2>5
<1>3. a.errs \in {0, 1}
  BY <1>1 DEF Outcome
<1> QED
  BY <1>2, <1>3 DEF a, b

LEMMA NamesOf ==
  ASSUME NEW os \in Statements, NEW l1, NEW l2, NEW ins, Stated(os, l1, l2, ins)
  PROVE  MayWait(RefNames, l1) /\ MayWait(RefNames, l2)
<1>1. os \in Seq({os[k] : k \in DOMAIN os}) /\ Len(os) \in {0, 1, 2}
  BY SourceAssumption, StatementIs
<1>2. DOMAIN os = 1 .. Len(os)
  BY <1>1
<1>3. ASSUME NEW k \in DOMAIN os PROVE os[k].val \in RefNames
  <2>1. os[k] \in UNION {{t[m] : m \in DOMAIN t} : t \in Statements}
    OBVIOUS
  <2> QED
    BY <2>1, Zenon DEF RefNames
<1>4. /\ l1 \in {{}, {os[1].val}} /\ (Len(os) = 0 => l1 = {})
      /\ l2 \in {{}, {os[2].val}} /\ (Len(os) < 2 => l2 = {})
  BY DEF Stated
<1>5. MayWait(RefNames, l1)
  <2>1. CASE l1 = {}
    BY <2>1 DEF MayWait
  <2>2. CASE l1 # {}
    <3>1. l1 = {os[1].val} /\ 1 \in DOMAIN os
      BY <1>1, <1>2, <1>4, <2>2
    <3> QED
      BY <1>3, <3>1, Zenon DEF MayWait
  <2> QED
    BY <2>1, <2>2
<1>6. MayWait(RefNames, l2)
  <2>1. CASE l2 = {}
    BY <2>1 DEF MayWait
  <2>2. CASE l2 # {}
    <3>1. l2 = {os[2].val} /\ 2 \in DOMAIN os
      BY <1>1, <1>2, <1>4, <2>2
    <3> QED
      BY <1>3, <3>1, Zenon DEF MayWait
  <2> QED
    BY <2>1, <2>2
<1> QED
  BY <1>5, <1>6

LEMMA NewInstruction ==
  ASSUME Built, NEW os \in Statements, NEW l1, NEW l2, NEW ins, Stated(os, l1, l2, ins), NEW n, n = Len(instructions),
         instructions' = Append(instructions, ins), symbols' = symbols,
         Behind(RefNames, patchWork, patchWork', n, l1 \cup l2),
         LongerBy(patchWork, patchWork', l1, l2)
  PROVE  Written(n)' /\ (HasImmediate(n)' /\ Patched(n)' => instructions'[n + 1].ii = Offset(symbols', Last(n)'))
<1> DEFINE m == Len(patchWork)
           m2 == Len(patchWork')
           o == os[Len(os)]
<1>1. instructions \in Seq(Instruction) /\ patchWork \in Seq(Nat \X RefNames) /\ ins \in Instruction
  BY DEF Built, Stated
<1>2. n \in Nat /\ m \in Nat /\ DOMAIN patchWork = 1 .. m
  BY <1>1
<1>3. instructions'[n + 1] = ins
  BY <1>1, AppendedIns
<1>4. /\ patchWork' \in Seq(Nat \X RefNames)
      /\ \A k \in 1 .. m : patchWork'[k] = patchWork[k]
      /\ \A k \in 1 .. m2 : k > m => patchWork'[k][1] = n /\ patchWork'[k][2] \in l1 \cup l2
  BY DEF Behind
<1>5. m2 \in Nat /\ DOMAIN patchWork' = 1 .. m2
  BY <1>4
<1>6. m2 = m + (IF l1 = {} THEN 0 ELSE 1) + (IF l2 = {} THEN 0 ELSE 1)
  BY DEF LongerBy
<1> HIDE DEF m, m2, o
<1>7. ASSUME NEW k \in DOMAIN patchWork', patchWork'[k][1] = n PROVE k \in 1 .. m2 /\ k > m
  <2> SUFFICES ASSUME ~ (k > m) PROVE FALSE
    BY <1>5
  <2>1. k \in 1 .. m
    BY <1>2, <1>5
  <2>2. patchWork[k][1] \in Indices
    BY <1>2, <2>1 DEF Built
  <2>3. patchWork[k][1] = n
    BY <1>4, <1>7, <2>1
  <2> QED
    BY <1>2, <2>2, <2>3 DEF Indices
<1>8. Last(n)' = o
  BY <1>3 DEF Last, o, Stated
<1>9. HasImmediate(n)' <=> HasImm(os)
  BY <1>3, <1>8 DEF HasImmediate, HasImm, o, Stated
<1>10. ImmWidth(ins) \in Nat /\ InstrSize(ins) = ins.osz + ImmWidth(ins)
  BY DEF Stated
<1>11. CASE ~HasImm(os)
  BY <1>3, <1>9, <1>10, <1>11 DEF Written
<1>12. ASSUME HasImm(os), l1 = {}, l2 = {}, Direct(symbols, ins, o)
       PROVE  Written(n)' /\ ~Patched(n)'
  <2>1. m2 = m
    BY <1>2, <1>6, <1>12
  <2>2. ASSUME NEW k \in DOMAIN patchWork' PROVE patchWork'[k][1] # n
    BY <1>2, <1>7, <2>1
  <2>3. ~Patched(n)' /\ OneReference(n)'
    BY <2>2, Zenon DEF OneReference, Patched
  <2>4. (ins.rmd = amImm \/ ins.iea = TRUE) /\ ins.ims \in Widths
    BY <1>12 DEF Stated
  <2> QED
    BY <1>3, <1>8, <1>10, <1>12, <2>3, <2>4 DEF Written
<1>13. ASSUME HasImm(os), (l1 = {o.val} /\ l2 = {}) \/ (l1 = {} /\ l2 = {o.val}),
              Waits(symbols, ins, o), ins.ii = Offset(symbols, o)
       PROVE  Written(n)' /\ Patched(n)'
  <2>1. m2 = m + 1 /\ l1 \cup l2 = {o.val}
    <3>1. {o.val} # {}
      OBVIOUS
    <3>2. CASE l1 = {o.val} /\ l2 = {}
      BY <1>2, <1>6, <3>1, <3>2, SMTT(40)
    <3>3. CASE l1 = {} /\ l2 = {o.val}
      BY <1>2, <1>6, <3>1, <3>3
    <3> QED
      BY <1>13, <3>2, <3>3
  <2>2. m + 1 \in 1 .. m2 /\ m + 1 > m
    BY <1>2, <2>1
  <2>3. Patched(n)'
    BY <1>4, <1>5, <2>2 DEF Patched
  <2>4. ASSUME NEW k \in DOMAIN patchWork', patchWork'[k][1] = n PROVE k = m + 1 /\ patchWork'[k][2] = o.val
    <3>1. k \in 1 .. m2 /\ k > m
      BY <1>7, <2>4
    <3>2. patchWork'[k][2] \in l1 \cup l2
      BY <1>4, <3>1
    <3> QED
      BY <1>2, <2>1, <3>1, <3>2
  <2>5. OneReference(n)'
    BY <1>8, <2>4, Zenon DEF OneReference
  <2>6. (ins.rmd = amImm \/ ins.iea = TRUE) /\ ins.ims \in Widths
    BY <1>13 DEF Stated
  <2> QED
    BY <1>3, <1>8, <1>10, <1>13, <2>3, <2>5, <2>6 DEF Written
<1>14. HasImm(os) =>
         \/ l1 = {} /\ l2 = {} /\ Direct(symbols, ins, o)
         \/ /\ (l1 = {o.val} /\ l2 = {}) \/ (l1 = {} /\ l2 = {o.val})
            /\ Waits(symbols, ins, o) /\ ins.ii = Offset(symbols, o)
  BY DEF Stated, o
<1> QED
  BY <1>3, <1>8, <1>9, <1>11, <1>12, <1>13, <1>14

LEMMA PatchesOf ==
  ASSUME NEW N, NEW pw \in Seq(Nat \X N), NEW n \in Nat, NEW l1, MayWait(N, l1), NEW l2, MayWait(N, l2),
         NEW late, late = Appended(Appended(pw, LateOf(n, l1)), LateOf(n, l2))
  PROVE  Behind(N, pw, late, n, l1 \cup l2) /\ LongerBy(pw, late, l1, l2)
BY LatePatches, Zenon

LEMMA InstructionInv ==
  ASSUME IInv, NEW os \in Statements, Assembler_parse_instruction(os)
  PROVE  IInv'
<1> DEFINE a == AfterFirst(os)
           b == AfterSecond(os, a)
           late == Appended(Appended(patchWork, Patches(a)), Patches(b))
<1>n. PICK n : n = Len(instructions)
  OBVIOUS
<1>1. phase = "parse" /\ errors \in Nat /\ (errors = 0 => Built /\ Unlinked)
  BY DEF IInv, Assembler_parse_instruction, Parsing
<1>2. CASE cynAbort
  BY <1>2, EndedInv DEF cynAbort
<1>3. CASE errors' = errors + 1 /\ UNCHANGED phase
  BY <1>1, <1>3, FailInv
<1>4. CASE /\ b.res = "ok"
           /\ instructions' = Append(instructions, b.ins)
           /\ patchWork' = late /\ errors' = errors + a.errs + b.errs
           /\ UNCHANGED <<symbols, constants, main, phase>>
  <2>1. a.errs \in {0, 1} /\ b.errs \in {0, 1}
    BY ErrorsCounted, Zenon
  <2>2. patchWork' = Appended(Appended(patchWork, LateOf(n, a.late)), LateOf(n, b.late))
    BY <1>4, <1>n, Zenon DEF Patches, LateOf
  <2>3. /\ b.res = "ok" /\ instructions' = Append(instructions, b.ins) /\ errors' = errors + a.errs + b.errs
        /\ symbols' = symbols /\ constants' = constants /\ phase' = phase
    BY <1>4
  <2>4. ASSUME a.errs = 0, b.errs = 0, SymbolsOK(symbols) PROVE Stated(os, a.late, b.late, b.ins)
    BY <2>3, <2>4, InstructionParsed, Zenon
  <2> HIDE DEF a, b, late
  <2>5. errors' \in Nat /\ (errors' = 0 => errors = 0 /\ a.errs = 0 /\ b.errs = 0)
    BY <1>1, <2>1, <2>3
  <2>6. ASSUME errors' = 0 PROVE Built' /\ Unlinked'
    <3>1. Built /\ Unlinked
      BY <1>1, <2>5, <2>6
    <3>2. /\ instructions \in Seq(Instruction) /\ patchWork \in Seq(Nat \X RefNames)
          /\ constants \in Nat /\ SymbolsOK(symbols)
          /\ \A x \in DOMAIN symbols : symbols[x].tag = "label" => symbols[x].id <= n
          /\ \A k \in DOMAIN patchWork : patchWork[k][1] \in Indices
      BY <1>n, <3>1 DEF Built
    <3>3. Stated(os, a.late, b.late, b.ins)
      BY <2>4, <2>5, <2>6, <3>2
    <3>4. b.ins \in Instruction /\ n \in Nat /\ n = Len(instructions)
      BY <1>n, <3>2, <3>3 DEF Stated
    <3>5. MayWait(RefNames, a.late) /\ MayWait(RefNames, b.late)
      BY <3>3, NamesOf
    <3>6. Behind(RefNames, patchWork, patchWork', n, a.late \cup b.late) /\ LongerBy(patchWork, patchWork', a.late, b.late)
      BY <2>2, <3>2, <3>4, <3>5, PatchesOf, Zenon
    <3>7. instructions' \in Seq(Instruction) /\ Len(instructions') = n + 1
      BY <2>3, <3>2, <3>4, AppendedIns
    <3>8. Indices' = Indices \cup {n}
      BY <3>4, <3>7 DEF Indices
    <3>9. ASSUME NEW j \in Indices
          PROVE  Written(j)' /\ (HasImmediate(j)' /\ Patched(j)' => instructions'[j + 1].ii = Offset(symbols', Last(j)'))
      BY <2>3, <3>1, <3>4, <3>6, OldInstruction
    <3>10. Written(n)' /\ (HasImmediate(n)' /\ Patched(n)' => instructions'[n + 1].ii = Offset(symbols', Last(n)'))
      BY <2>3, <3>1, <3>3, <3>4, <3>6, NewInstruction
    <3>11. patchWork' \in Seq(Nat \X RefNames) /\ \A k \in DOMAIN patchWork' : patchWork'[k][1] \in Indices'
      <4> DEFINE m == Len(patchWork)
                 m2 == Len(patchWork')
      <4>1. /\ patchWork' \in Seq(Nat \X RefNames)
            /\ \A k \in 1 .. m : patchWork'[k] = patchWork[k]
            /\ \A k \in 1 .. m2 : k > m => patchWork'[k][1] = n
        BY <3>6 DEF Behind
      <4>2. m \in Nat /\ m2 \in Nat /\ DOMAIN patchWork = 1 .. m /\ DOMAIN patchWork' = 1 .. m2
        BY <3>2, <4>1
      <4> HIDE DEF m, m2
      <4>3. ASSUME NEW k \in DOMAIN patchWork' PROVE patchWork'[k][1] \in Indices \cup {n}
        <5>1. CASE k > m
          BY <4>1, <4>2, <5>1
        <5>2. CASE ~ (k > m)
          <6>1. k \in 1 .. m
            BY <4>2, <5>2
          <6> QED
            BY <3>2, <4>1, <4>2, <6>1
        <5> QED
          BY <5>1, <5>2
      <4> QED
        BY <3>8, <4>1, <4>3
    <3>12. \A x \in DOMAIN symbols' : symbols'[x].tag = "label" => symbols'[x].id <= Len(instructions')
      <4>1. ASSUME NEW x \in DOMAIN symbols, symbols[x].tag = "label" PROVE symbols[x].id <= n + 1
        <5>1. symbols[x].id \in Nat /\ symbols[x].id <= n
          BY <3>2, <4>1 DEF SymbolsOK
        <5> QED
          BY <3>4, <5>1
      <4> QED
        BY <2>3, <3>7, <4>1
    <3>13. \A j \in Indices' :
             Written(j)' /\ (HasImmediate(j)' /\ Patched(j)' => instructions'[j + 1].ii = Offset(symbols', Last(j)'))
      BY <3>8, <3>9, <3>10
    <3>14. Built'
      BY <2>3, <3>2, <3>7, <3>11, <3>12, <3>13 DEF Built
    <3>15. Unlinked'
      BY <3>13 DEF Unlinked
    <3> QED
      BY <3>14, <3>15
  <2> QED
    BY <1>1, <2>3, <2>5, <2>6, ParsingInv
<1> QED
  BY <1>2, <1>3, <1>4, Zenon DEF Assembler_parse_instruction

-----------------------------------------------------------------------------
(* The linker. *)
LEMMA SourceKept ==
  ASSUME UNCHANGED <<symbols, instructions, patchWork, constants>>
  PROVE  (Built => Built') /\ (Unlinked => Unlinked')
<1>1. Indices' = Indices
  BY DEF Indices
<1>2. ASSUME NEW j
      PROVE  /\ Last(j)' = Last(j) /\ (HasImmediate(j)' <=> HasImmediate(j)) /\ (Patched(j)' <=> Patched(j))
             /\ (OneReference(j)' <=> OneReference(j))
  BY DEF Last, HasImmediate, Patched, OneReference
<1>3. ASSUME NEW j PROVE Written(j) => Written(j)'
  BY <1>2 DEF Written
<1> QED
  BY <1>1, <1>2, <1>3 DEF Built, Unlinked

LEMMA EndOfFileInv ==
  ASSUME IInv, EndOfFile
  PROVE  IInv'
<1>1. errors \in Nat /\ (errors = 0 => Built /\ Unlinked)
  BY DEF IInv, EndOfFile
<1>2. UNCHANGED <<symbols, instructions, patchWork, constants>> /\ errors' = errors
  BY DEF EndOfFile, source
<1>3. CASE errors > 0
  BY <1>3, EndedInv DEF EndOfFile
<1>4. CASE ~ (errors > 0)
  <2>1. errors = 0 /\ phase' = "collect"
    BY <1>1, <1>4 DEF EndOfFile
  <2>2. Built' /\ Unlinked'
    BY <1>1, <1>2, <2>1, SourceKept
  <2> QED
    BY <1>2, <2>1, <2>2 DEF IInv
<1> QED
  BY <1>3, <1>4

LEMMA OpenInv ==
  ASSUME IInv, Open
  PROVE  IInv'
<1>1. errors \in Nat /\ errors = 0 /\ Built /\ Unlinked
  BY DEF IInv, Open
<1>2. UNCHANGED <<symbols, instructions, patchWork, constants>> /\ errors' = errors /\ phase' = "parse"
  BY DEF Open, source
<1>3. Built' /\ Unlinked'
  BY <1>1, <1>2, SourceKept
<1> QED
  BY <1>1, <1>2, <1>3 DEF IInv

LEMMA MalformedInv ==
  ASSUME IInv, Malformed
  PROVE  IInv'
BY FailInv DEF Malformed, Parsing, Fail

(* How often an instruction is among the references to a label. *)
LEMMA TimesIs ==
  ASSUME Built, NEW id, NEW j
  PROVE  Times(id, j) \in Nat /\ (~Patched(j) => Times(id, j) = 0)
<1> DEFINE K == {k \in DOMAIN patchWork : WaitsFor(k, id) /\ patchWork[k][1] = j}
<1>1. Times(id, j) = Cardinality(K)
  BY DEF Times
<1>2. patchWork \in Seq(Nat \X RefNames)
  BY DEF Built
<1>3. Len(patchWork) \in Nat /\ DOMAIN patchWork = 1 .. Len(patchWork)
  BY <1>2
<1>4. IsFiniteSet(1 .. Len(patchWork))
  BY <1>3, FS_Interval
<1>5. K \in SUBSET (1 .. Len(patchWork))
  BY <1>3
<1>6. IsFiniteSet(K)
  BY <1>4, <1>5, FS_Subset, Zenon
<1>7. Cardinality(K) \in Nat
  BY <1>6, FS_CardinalityType
<1>8. ~Patched(j) => K = {}
  BY DEF Patched
<1> HIDE DEF K
<1> QED
  BY <1>1, <1>7, <1>8, FS_EmptySet

LEMMA TimesOfLabel ==
  ASSUME Built, NEW id, NEW j \in Indices, HasImmediate(j), Patched(j), symbols[Last(j).val].tag = "label"
  PROVE  Times(id, j) = IF symbols[Last(j).val].id = id THEN 1 ELSE 0
<1> DEFINE K == {k \in DOMAIN patchWork : WaitsFor(k, id) /\ patchWork[k][1] = j}
<1>1. Times(id, j) = Cardinality(K)
  BY DEF Times
<1>2. OneReference(j)
  BY DEF Built, Written
<1>3. PICK p \in DOMAIN patchWork : patchWork[p][1] = j
  BY DEF Patched
<1>4. /\ \A k \in DOMAIN patchWork : patchWork[k][1] = j => k = p
      /\ patchWork[p][2] = Last(j).val
  BY <1>2, <1>3, Zenon DEF OneReference
<1>5. CASE symbols[Last(j).val].id = id
  <2>1. K = {p}
    BY <1>3, <1>4, <1>5 DEF WaitsFor
  <2> HIDE DEF K
  <2> QED
    BY <1>1, <1>5, <2>1, FS_Singleton
<1>6. CASE symbols[Last(j).val].id # id
  <2>1. K = {}
    BY <1>3, <1>4, <1>6 DEF WaitsFor
  <2> HIDE DEF K
  <2> QED
    BY <1>1, <1>6, <2>1, FS_EmptySet
<1> QED
  BY <1>5, <1>6

LEMMA CollectInv ==
  ASSUME IInv, CollectRefs
  PROVE  IInv'
<1>1. errors = 0 /\ Built /\ Unlinked
  BY DEF IInv, CollectRefs
<1>2. UNCHANGED <<symbols, instructions, patchWork, constants>>
  BY DEF CollectRefs
<1>3. CASE phase' = "failed"
  BY <1>3, EndedInv
<1>4. CASE Undefined = {} /\ phase' = "link"
  <2>1. errors' = 0
    BY <1>1, <1>4, FS_EmptySet DEF CollectRefs
  <2>2. Built' /\ Unlinked'
    BY <1>1, <1>2, SourceKept
  <2>3. refs' = RefsOf /\ i' = 0 /\ ip' = HeaderSize + constants
    BY <1>4, Zenon DEF CollectRefs, RefsOf, Indices
  <2>4. RefsOf' = RefsOf
    BY <1>2 DEF RefsOf, Indices, WaitsFor, Times
  <2>5. \A k \in DOMAIN patchWork' : patchWork'[k][2] \in DOMAIN symbols'
    BY <1>2, <1>4 DEF Undefined
  <2>6. constants \in Nat /\ instructions \in Seq(Instruction) /\ SymbolsOK(symbols)
    BY <1>1 DEF Built
  <2>7. Len(instructions) \in Nat /\ ip' \in Int
    BY <2>3, <2>6 DEF HeaderSize
  <2>8. ASSUME NEW f, Layout(f)' PROVE ip' = f[i'] /\ Halves(f)'
    <3>1. f[0] = HeaderSize + constants
      BY <1>2, <2>8 DEF Layout, Sums
    <3>2. ASSUME NEW j \in Indices', HasImmediate(j)', Patched(j)', IsLabel(Last(j))'
          PROVE  instructions'[j + 1].ii =
                   Offset(symbols', Last(j)') + Half(f, symbols[Last(j).val].id)' - Half(f, j)'
      <4>1. instructions'[j + 1].ii = Offset(symbols', Last(j)')
        BY <2>2, <3>2 DEF Unlinked
      <4>2. j \in 0 .. Len(instructions) - 1 /\ instructions'[j + 1] = instructions[j + 1]
        BY <1>2 DEF Indices
      <4>3. instructions[j + 1] \in Instruction
        BY <2>6, <2>7, <4>2
      <4>4. instructions'[j + 1].ii \in Int
        BY <4>2, <4>3 DEF Instruction
      <4>5. Half(f, j)' = 0
        BY <2>3, <2>7, <4>2 DEF Half
      <4>6. symbols'[Last(j)'.val].id \in Nat
        <5>1. OneReference(j)'
          BY <2>2, <3>2 DEF Built, Written
        <5>2. PICK k \in DOMAIN patchWork' : patchWork'[k][1] = j
          BY <3>2 DEF Patched
        <5>3. patchWork'[k][2] = Last(j)'.val
          BY <5>1, <5>2 DEF OneReference
        <5> QED
          BY <1>2, <2>5, <2>6, <5>3 DEF SymbolsOK
      <4>7. Half(f, symbols[Last(j).val].id)' = 0
        BY <2>3, <4>6 DEF Half
      <4> QED
        BY <4>1, <4>4, <4>5, <4>7
    <3> QED
      BY <2>3, <3>1, <3>2 DEF Halves
  <2>9. Linked'
    BY <1>2, <2>3, <2>4, <2>5, <2>7, <2>8 DEF Linked
  <2> QED
    BY <1>4, <2>1, <2>2, <2>9 DEF IInv
<1> QED
  BY <1>3, <1>4 DEF CollectRefs

(* The linker changes nothing of an instruction but its immediate. *)
LEMMA Repatched ==
  ASSUME NEW ins \in Instruction, NEW d \in Int, NEW new, new = [ins EXCEPT !.ii = @ + d]
  PROVE  /\ new \in Instruction /\ new.src = ins.src /\ new.osz = ins.osz /\ new.rmd = ins.rmd
         /\ new.ims = ins.ims /\ new.iea = ins.iea /\ new.ra = ins.ra /\ new.ii = ins.ii + d
         /\ ImmWidth(new) = ImmWidth(ins) /\ InstrSize(new) = InstrSize(ins)
<1>1. /\ new \in Instruction /\ new.src = ins.src /\ new.osz = ins.osz /\ new.rmd = ins.rmd
      /\ new.ims = ins.ims /\ new.iea = ins.iea /\ new.ra = ins.ra /\ new.ii = ins.ii + d
  BY DEF Instruction
<1> QED
  BY <1>1 DEF ImmWidth, InstrSize

LEMMA PatchIsInt ==
  ASSUME Built, Linked, NEW j \in Indices
  PROVE  /\ PatchOf(j) \in Int
         /\ ~Patched(j) => PatchOf(j) = 0
<1>1. i \in DOMAIN refs => refs[i][j] \in Nat /\ (~Patched(j) => refs[i][j] = 0)
  <2>1. refs = RefsOf
    BY DEF Linked
  <2>2. i \in DOMAIN refs => refs[i][j] = Times(i, j)
    BY <2>1 DEF RefsOf
  <2> QED
    BY <2>2, TimesIs
<1>2. ip \in Int
  BY DEF Linked
<1>3. CASE i \in DOMAIN refs
  <2>1. PICK r : r = refs[i][j]
    OBVIOUS
  <2>2. r \in Nat /\ (~Patched(j) => r = 0) /\ ip * r \in Int
    BY <1>1, <1>2, <1>3, <2>1
  <2>3. PatchOf(j) = ip * r - (IF j = i /\ Patched(j) THEN ip ELSE 0)
    BY <1>3, <2>1 DEF PatchOf
  <2>4. r = 0 => ip * r = 0
    BY <1>2
  <2> QED
    BY <1>2, <2>2, <2>3, <2>4
<1>4. CASE i \notin DOMAIN refs
  BY <1>2, <1>4 DEF PatchOf
<1> QED
  BY <1>3, <1>4

(* The halves meet: what the loop adds to a reference at instruction i. *)
LEMMA PatchOfLabel ==
  ASSUME Built, Linked, NEW j \in Indices, HasImmediate(j), Patched(j), IsLabel(Last(j)), NEW t, t = symbols[Last(j).val].id
  PROVE  PatchOf(j) = (IF t = i THEN ip ELSE 0) - (IF j = i THEN ip ELSE 0) /\ t \in Nat
<1>1. symbols[Last(j).val].tag = "label"
  BY DEF IsLabel
<1>2. /\ ip \in Int /\ i \in 0 .. Len(instructions) /\ refs = RefsOf
      /\ \A k \in DOMAIN patchWork : patchWork[k][2] \in DOMAIN symbols
  BY DEF Linked
<1>3. PICK p \in DOMAIN patchWork : patchWork[p][1] = j
  BY DEF Patched
<1>4. patchWork[p][2] = Last(j).val
  <2>1. OneReference(j)
    BY DEF Built, Written
  <2> QED
    BY <1>3, <2>1 DEF OneReference
<1>5. t \in Nat
  BY <1>2, <1>4 DEF Built, SymbolsOK
<1>6. CASE t = i
  <2>1. WaitsFor(p, i)
    BY <1>1, <1>4, <1>6 DEF WaitsFor
  <2>2. i \in DOMAIN refs /\ refs[i][j] = Times(i, j)
    BY <1>2, <1>3, <2>1 DEF RefsOf
  <2>3. refs[i][j] = 1
    BY <1>1, <1>6, <2>2, TimesOfLabel
  <2> QED
    BY <1>2, <1>5, <1>6, <2>2, <2>3 DEF PatchOf
<1>7. CASE t # i
  <2>1. CASE i \in DOMAIN refs
    <3>1. refs[i][j] = Times(i, j)
      BY <1>2, <2>1 DEF RefsOf
    <3>2. refs[i][j] = 0
      BY <1>1, <1>7, <3>1, TimesOfLabel
    <3> QED
      BY <1>2, <1>5, <1>7, <2>1, <3>2 DEF PatchOf
  <2>2. CASE i \notin DOMAIN refs
    BY <1>2, <1>5, <1>7, <2>2 DEF PatchOf
  <2> QED
    BY <2>1, <2>2
<1> QED
  BY <1>6, <1>7

(* The arithmetic of one step of the loop. *)
HalvesAt(f, t, j, at, o, v) == v = o + (IF t < at THEN f[t] ELSE 0) - (IF j < at THEN f[j] ELSE 0)

StepAt(f, t, j, at, d) == d = (IF t = at THEN f[at] ELSE 0) - (IF j = at THEN f[at] ELSE 0)

LEMMA HalvesMeet ==
  ASSUME NEW n \in Int, NEW t \in Nat, NEW j \in Nat, NEW f \in [0 .. n -> Int], NEW at \in 0 .. n, t <= n, j <= n,
         NEW v, NEW o \in Int, HalvesAt(f, t, j, at, o, v), NEW d, StepAt(f, t, j, at, d)
  PROVE  HalvesAt(f, t, j, at + 1, o, v + d)
<1>1. at \in Int /\ f[t] \in Int /\ f[j] \in Int /\ f[at] \in Int
  OBVIOUS
<1>2. ASSUME NEW k \in Nat, k <= n
      PROVE  (IF k < at + 1 THEN f[k] ELSE 0) = (IF k < at THEN f[k] ELSE 0) + (IF k = at THEN f[at] ELSE 0)
  <2>1. f[k] \in Int
    BY <1>2
  <2>2. CASE k < at
    BY <1>1, <2>1, <2>2
  <2>3. CASE k = at
    BY <1>1, <2>1, <2>3
  <2>4. CASE k > at
    BY <1>1, <2>1, <2>4
  <2> QED
    BY <1>1, <2>2, <2>3, <2>4
<1>3. ASSUME NEW a \in Int, NEW b \in Int, NEW a2 \in Int, NEW b2 \in Int
      PROVE  (o + a - b) + (a2 - b2) = o + (a + a2) - (b + b2)
  OBVIOUS
<1>4. /\ (IF t < at THEN f[t] ELSE 0) \in Int /\ (IF j < at THEN f[j] ELSE 0) \in Int
      /\ (IF t = at THEN f[at] ELSE 0) \in Int /\ (IF j = at THEN f[at] ELSE 0) \in Int
  BY <1>1
<1> QED
  BY <1>2, <1>3, <1>4 DEF HalvesAt, StepAt

(* The last operand of an instruction in a source. *)
LEMMA LastOperand ==
  ASSUME Built, NEW j \in Indices, HasImmediate(j)
  PROVE  /\ IsOperand(Last(j), FALSE) \/ IsOperand(Last(j), TRUE)
         /\ Last(j).ea.kind = "int" => Last(j).ea.val \in Nat
<1>1. instructions[j + 1] \in Instruction
  <2>1. instructions \in Seq(Instruction)
    BY DEF Built
  <2>2. j + 1 \in 1 .. Len(instructions)
    BY <2>1 DEF Indices
  <2> QED
    BY <2>1, <2>2
<1>2. PICK os : os = instructions[j + 1].src
  OBVIOUS
<1>3. os \in Statements /\ Last(j) = os[Len(os)] /\ Len(os) > 0
  BY <1>1, <1>2 DEF Instruction, Last, HasImmediate
<1>4. Len(os) \in {0, 1, 2} /\ (Len(os) >= 1 => IsOperand(os[1], FALSE)) /\ (Len(os) = 2 => IsOperand(os[2], TRUE))
  BY <1>3, StatementIs
<1>5. IsOperand(Last(j), FALSE) \/ IsOperand(Last(j), TRUE)
  <2>1. CASE Len(os) = 1
    <3>1. Len(os) >= 1
      BY <2>1
    <3>2. IsOperand(os[1], FALSE)
      BY <1>4, <3>1, Zenon
    <3> QED
      BY <1>3, <2>1, <3>2, Zenon
  <2>2. CASE Len(os) = 2
    BY <1>3, <1>4, <2>2, Zenon
  <2>3. Len(os) \in {1, 2}
    BY <1>3, <1>4
  <2> QED
    BY <2>1, <2>2, <2>3
<1> QED
  BY <1>5 DEF IsOperand

LEMMA SeqOfFunction ==
  ASSUME NEW S, NEW n \in Nat, NEW s, s \in [1 .. n -> S]
  PROVE  s \in Seq(S) /\ Len(s) = n
OBVIOUS

LEMMA LayoutSizes ==
  ASSUME Built
  PROVE  Len(instructions) \in Nat /\ SizesOf(instructions) \in [1 .. Len(instructions) -> Int]
<1>1. instructions \in Seq(Instruction)
  BY DEF Built
<1>2. Len(instructions) \in Nat
  BY <1>1
<1>3. ASSUME NEW k \in 1 .. Len(instructions) PROVE InstrSize(instructions[k]) \in Int
  <2>1. PICK j : j = k - 1
    OBVIOUS
  <2>2. j \in Indices /\ j + 1 = k
    BY <1>2, <2>1 DEF Indices
  <2>3. ImmWidth(instructions[k]) \in Nat /\ InstrSize(instructions[k]) = instructions[k].osz + ImmWidth(instructions[k])
    BY <2>2 DEF Built, Written
  <2>4. instructions[k] \in Instruction
    BY <1>1
  <2>5. instructions[k].osz \in Nat
    BY <2>4 DEF Instruction
  <2> QED
    BY <2>3, <2>5
<1> QED
  BY <1>2, <1>3 DEF SizesOf

LEMMA LinkInv ==
  ASSUME IInv, LinkStep
  PROVE  IInv'
<1>1. errors = 0 /\ Built /\ Linked /\ phase = "link" /\ i < Len(instructions)
  BY DEF IInv, LinkStep
<1>2. /\ UNCHANGED <<symbols, patchWork, constants, errors, phase, refs>>
      /\ i' = i + 1 /\ ip' = ip + InstrSize(instructions[i + 1])
      /\ instructions' = [k \in 1 .. Len(instructions) |-> [instructions[k] EXCEPT !.ii = @ + PatchOf(k - 1)]]
  BY DEF LinkStep
<1>3. PICK n : n = Len(instructions)
  OBVIOUS
<1>4. /\ instructions \in Seq(Instruction) /\ n \in Nat /\ Indices = 0 .. n - 1
      /\ i \in 0 .. n /\ ip \in Int
  BY <1>1, <1>3 DEF Built, Linked, Indices
<1>5. ASSUME NEW j \in Indices
      PROVE  /\ instructions'[j + 1] = [instructions[j + 1] EXCEPT !.ii = @ + PatchOf(j)]
             /\ instructions[j + 1] \in Instruction /\ PatchOf(j) \in Int /\ j + 1 \in 1 .. n
  <2>1. j + 1 \in 1 .. n /\ (j + 1) - 1 = j
    BY <1>4
  <2>2. instructions'[j + 1] = [instructions[j + 1] EXCEPT !.ii = @ + PatchOf((j + 1) - 1)]
    BY <1>2, <1>3, <2>1
  <2>3. instructions[j + 1] \in Instruction
    BY <1>3, <1>4, <2>1
  <2>4. PatchOf(j) \in Int
    BY <1>1, PatchIsInt
  <2> QED
    BY <2>1, <2>2, <2>3, <2>4
<1>6. ASSUME NEW j \in Indices
      PROVE  /\ instructions'[j + 1] \in Instruction /\ instructions'[j + 1].src = instructions[j + 1].src
             /\ instructions'[j + 1].osz = instructions[j + 1].osz /\ instructions'[j + 1].rmd = instructions[j + 1].rmd
             /\ instructions'[j + 1].ims = instructions[j + 1].ims /\ instructions'[j + 1].iea = instructions[j + 1].iea
             /\ instructions'[j + 1].ii = instructions[j + 1].ii + PatchOf(j)
             /\ ImmWidth(instructions'[j + 1]) = ImmWidth(instructions[j + 1])
             /\ InstrSize(instructions'[j + 1]) = InstrSize(instructions[j + 1])
  <2>1. PICK ins, new, d : ins = instructions[j + 1] /\ new = instructions'[j + 1] /\ d = PatchOf(j)
    OBVIOUS
  <2>2. new = [ins EXCEPT !.ii = @ + d] /\ ins \in Instruction /\ d \in Int
    BY <1>5, <2>1
  <2>3. /\ new \in Instruction /\ new.src = ins.src /\ new.osz = ins.osz /\ new.rmd = ins.rmd
        /\ new.ims = ins.ims /\ new.iea = ins.iea /\ new.ra = ins.ra /\ new.ii = ins.ii + d
        /\ ImmWidth(new) = ImmWidth(ins) /\ InstrSize(new) = InstrSize(ins)
    BY <2>2, Repatched
  <2> QED
    BY <2>1, <2>3
<1>7. ASSUME NEW k \in 1 .. n PROVE k - 1 \in Indices /\ (k - 1) + 1 = k
  BY <1>4
<1>8. instructions' \in [1 .. n -> Instruction]
  <2>1. \A k \in 1 .. n : instructions'[k] \in Instruction
    <3> SUFFICES ASSUME NEW k \in 1 .. n PROVE instructions'[k] \in Instruction
      OBVIOUS
    <3>1. instructions'[(k - 1) + 1] \in Instruction
      BY <1>6, <1>7
    <3> QED
      BY <1>7, <3>1
  <2>2. PICK g : g = instructions'
    OBVIOUS
  <2>3. g = [k \in 1 .. n |-> g[k]]
    BY <1>2, <1>3, <2>2
  <2> QED
    BY <2>1, <2>2, <2>3
<1>9. instructions' \in Seq(Instruction) /\ Len(instructions') = n
  BY <1>4, <1>8, SeqOfFunction
<1>10. Indices' = Indices
  BY <1>4, <1>9 DEF Indices
<1>11. ASSUME NEW j \in Indices
       PROVE  /\ Last(j)' = Last(j) /\ (HasImmediate(j)' <=> HasImmediate(j)) /\ (Patched(j)' <=> Patched(j))
              /\ (OneReference(j)' <=> OneReference(j)) /\ (IsLabel(Last(j))' <=> IsLabel(Last(j)))
  <2>1. instructions'[j + 1].src = instructions[j + 1].src
    BY <1>6
  <2>2. Last(j)' = Last(j)
    BY <2>1 DEF Last
  <2>3. HasImmediate(j)' <=> HasImmediate(j)
    BY <2>1, <2>2 DEF HasImmediate
  <2>4. (Patched(j)' <=> Patched(j)) /\ (OneReference(j)' <=> OneReference(j))
    BY <1>2, <2>2 DEF Patched, OneReference
  <2>5. IsLabel(Last(j))' <=> IsLabel(Last(j))
    BY <1>2, <2>2 DEF IsLabel
  <2> QED
    BY <2>2, <2>3, <2>4, <2>5
<1>12. ASSUME NEW j \in Indices PROVE Written(j)'
  <2> DEFINE ins == instructions[j + 1]
             new == instructions'[j + 1]
  <2>1. Written(j)
    BY <1>1 DEF Built
  <2>2. /\ new.osz = ins.osz /\ new.rmd = ins.rmd /\ new.ims = ins.ims /\ new.iea = ins.iea
        /\ new.ii = ins.ii + PatchOf(j) /\ ins.ii \in Int /\ PatchOf(j) \in Int
        /\ ImmWidth(new) = ImmWidth(ins) /\ InstrSize(new) = InstrSize(ins)
    BY <1>5, <1>6 DEF Instruction
  <2>3. ~Patched(j) => new.ii = ins.ii
    <3>1. ~Patched(j) => PatchOf(j) = 0
      BY <1>1, PatchIsInt
    <3> QED
      BY <2>2, <3>1
  <2>4. /\ HasImmediate(j) /\ ~Patched(j) => Direct(symbols, new, Last(j))
        /\ HasImmediate(j) /\ Patched(j) => Waits(symbols, new, Last(j))
    <3>1. /\ HasImmediate(j) /\ ~Patched(j) => Direct(symbols, ins, Last(j))
          /\ HasImmediate(j) /\ Patched(j) => Waits(symbols, ins, Last(j))
      BY <2>1 DEF Written
    <3> HIDE DEF new, ins
    <3>2. HasImmediate(j) /\ ~Patched(j) => Direct(symbols, new, Last(j))
      BY <2>2, <2>3, <3>1 DEF Direct
    <3>3. HasImmediate(j) /\ Patched(j) => Waits(symbols, new, Last(j))
      BY <2>2, <3>1 DEF Waits
    <3> QED
      BY <3>2, <3>3
  <2> QED
    BY <1>2, <1>11, <2>1, <2>2, <2>4 DEF Written
<1>13. Built'
  BY <1>1, <1>2, <1>3, <1>9, <1>10, <1>12 DEF Built
<1>14. SizesOf(instructions)' = SizesOf(instructions)
  <2>1. ASSUME NEW k \in 1 .. n PROVE InstrSize(instructions'[k]) = InstrSize(instructions[k])
    <3>1. InstrSize(instructions'[(k - 1) + 1]) = InstrSize(instructions[(k - 1) + 1])
      BY <1>6, <1>7
    <3> QED
      BY <1>7, <3>1
  <2> QED
    BY <1>3, <1>9, <2>1 DEF SizesOf
<1>15. RefsOf' = RefsOf
  BY <1>2, <1>3, <1>9, <1>10 DEF RefsOf, WaitsFor, Times
<1>16. ASSUME NEW f, Layout(f)' PROVE ip' = f[i'] /\ Halves(f)'
  <2>1. Layout(f)
    BY <1>2, <1>3, <1>9, <1>14, <1>16 DEF Layout
  <2>2. ip = f[i] /\ Halves(f)
    BY <1>1, <2>1 DEF Linked
  <2>3. f \in [0 .. n -> Int] /\ \A k \in 1 .. n : f[k] = f[k - 1] + SizesOf(instructions)[k]
    BY <1>3, <2>1 DEF Layout, Sums
  <2>4. ip' = f[i']
    <3>1. i + 1 \in 1 .. n /\ (i + 1) - 1 = i
      BY <1>1, <1>3, <1>4
    <3>2. SizesOf(instructions)[i + 1] = InstrSize(instructions[i + 1])
      BY <1>3, <3>1 DEF SizesOf
    <3>3. f[i + 1] = f[(i + 1) - 1] + SizesOf(instructions)[i + 1]
      BY <2>3, <3>1
    <3> QED
      BY <1>2, <2>2, <3>1, <3>2, <3>3
  <2>5. ASSUME NEW j \in Indices, HasImmediate(j), Patched(j), IsLabel(Last(j))
        PROVE  instructions'[j + 1].ii =
                 Offset(symbols, Last(j)) + Half(f, symbols[Last(j).val].id)' - Half(f, j)'
    <3>1. PICK t, o : t = symbols[Last(j).val].id /\ o = Offset(symbols, Last(j))
      OBVIOUS
    <3>2. PatchOf(j) = (IF t = i THEN ip ELSE 0) - (IF j = i THEN ip ELSE 0) /\ t \in Nat
      BY <1>1, <2>5, <3>1, PatchOfLabel
    <3>3. instructions[j + 1].ii = o + (IF t < i THEN f[t] ELSE 0) - (IF j < i THEN f[j] ELSE 0)
      BY <2>2, <2>5, <3>1 DEF Halves, Half
    <3>4. instructions'[j + 1].ii = instructions[j + 1].ii + PatchOf(j)
      BY <1>6
    <3>5. t <= n /\ j <= n /\ j \in Nat
      <4>1. OneReference(j)
        BY <1>1, <2>5 DEF Built, Written
      <4>2. PICK k \in DOMAIN patchWork : patchWork[k][1] = j
        BY <2>5 DEF Patched
      <4>3. Last(j).val \in DOMAIN symbols
        BY <1>1, <4>1, <4>2 DEF OneReference, Linked
      <4>4. t <= n
        BY <1>1, <1>3, <2>5, <3>1, <4>3 DEF Built, IsLabel
      <4> QED
        BY <1>4, <4>4
    <3>6. o \in Int
      <4>1. KnownEA(symbols, Last(j)) /\ Refers(Last(j))
        BY <1>1, <2>5 DEF Built, Written, Waits
      <4>2. Last(j).ea.kind = "int" => Last(j).ea.val \in Nat
        BY <1>1, <2>5, LastOperand
      <4>3. SymbolsOK(symbols)
        BY <1>1 DEF Built
      <4> QED
        BY <3>1, <4>1, <4>2, <4>3 DEF Offset, KnownEA, SymbolsOK, Signed
    <3>7. /\ Half(f, symbols[Last(j).val].id)' = (IF t < i + 1 THEN f[t] ELSE 0)
          /\ Half(f, j)' = (IF j < i + 1 THEN f[j] ELSE 0)
      <4>1. symbols'[Last(j)'.val].id = t
        BY <1>2, <1>11, <3>1
      <4> QED
        BY <1>2, <4>1 DEF Half
    <3>8. PICK v, d, at : v = instructions[j + 1].ii /\ d = PatchOf(j) /\ at = i
      OBVIOUS
    <3>9. HalvesAt(f, t, j, at, o, v) /\ StepAt(f, t, j, at, d)
      BY <2>2, <3>2, <3>3, <3>8 DEF HalvesAt, StepAt
    <3>10. n \in Int /\ at \in 0 .. n
      BY <1>4, <3>8
    <3>11. HalvesAt(f, t, j, at + 1, o, v + d)
      BY <2>3, <3>2, <3>5, <3>6, <3>9, <3>10, HalvesMeet, Zenon
    <3> QED
      BY <3>1, <3>4, <3>7, <3>8, <3>11 DEF HalvesAt
  <2>6. Halves(f)'
    BY <1>2, <1>10, <1>11, <2>5 DEF Halves
  <2> QED
    BY <2>4, <2>6
<1>17. i' \in 0 .. Len(instructions') /\ ip' \in Int
  <2>1. ASSUME NEW k \in 1 .. n PROVE InstrSize(instructions[k]) \in Int
    BY <1>1, <1>3, LayoutSizes DEF SizesOf
  <2>2. i + 1 \in 1 .. n
    BY <1>1, <1>3, <1>4
  <2> QED
    BY <1>2, <1>4, <1>9, <2>1, <2>2
<1>18. Linked'
  BY <1>1, <1>2, <1>15, <1>16, <1>17 DEF Linked
<1> QED
  BY <1>1, <1>2, <1>13, <1>18 DEF IInv

LEMMA LinkedKept ==
  ASSUME Linked, UNCHANGED <<symbols, instructions, patchWork, constants, refs, i, ip>>
  PROVE  Linked'
<1>1. Indices' = Indices
  BY DEF Indices
<1>2. ASSUME NEW j
      PROVE  /\ Last(j)' = Last(j) /\ (HasImmediate(j)' <=> HasImmediate(j)) /\ (Patched(j)' <=> Patched(j))
             /\ (IsLabel(Last(j))' <=> IsLabel(Last(j)))
  BY DEF Last, HasImmediate, Patched, IsLabel
<1>3. RefsOf' = RefsOf
  BY DEF RefsOf, Indices, WaitsFor, Times
<1>4. ASSUME NEW f PROVE (Layout(f)' <=> Layout(f)) /\ (Halves(f) => Halves(f)')
  <2>1. Layout(f)' <=> Layout(f)
    BY DEF Layout, SizesOf
  <2>2. ASSUME NEW k PROVE Half(f, k)' = Half(f, k)
    BY DEF Half
  <2>3. Halves(f) => Halves(f)'
    BY <1>1, <1>2 DEF Halves, Half
  <2> QED
    BY <2>1, <2>3
<1> QED
  BY <1>3, <1>4 DEF Linked

LEMMA EmitInv ==
  ASSUME IInv, EmitCode
  PROVE  IInv'
<1>1. errors = 0 /\ Built /\ Linked
  BY DEF IInv, EmitCode
<1>2. /\ UNCHANGED <<symbols, instructions, patchWork, constants, errors, refs, i, ip>>
      /\ phase' = "done" /\ i = Len(instructions)
  BY DEF EmitCode, source
<1>3. Built' /\ Linked'
  BY <1>1, <1>2, SourceKept, LinkedKept
<1>4. PICK n, db, at, w :
        /\ n = Len(instructions) /\ w = SizesOf(instructions)
        /\ db = HeaderSize + constants /\ at = VM_code_append(db)
  OBVIOUS
<1>5. n \in Nat /\ w \in [1 .. n -> Int] /\ db \in Int /\ constants \in Nat /\ instructions \in Seq(Instruction)
  <2>1. constants \in Nat /\ instructions \in Seq(Instruction)
    BY <1>1 DEF Built
  <2> QED
    BY <1>1, <1>4, <2>1, LayoutSizes DEF HeaderSize
<1>6. ASSUME NEW k \in 1 .. n
      PROVE  /\ instructions[k].osz \in Int /\ ImmWidth(instructions[k]) \in Int
             /\ w[k] = instructions[k].osz + ImmWidth(instructions[k])
  <2>1. PICK j : j = k - 1
    OBVIOUS
  <2>2. j \in Indices /\ j + 1 = k
    BY <1>4, <1>5, <2>1 DEF Indices
  <2>3. ImmWidth(instructions[k]) \in Nat /\ InstrSize(instructions[k]) = instructions[k].osz + ImmWidth(instructions[k])
    BY <1>1, <2>2 DEF Built, Written
  <2>4. instructions[k] \in Instruction
    BY <1>4, <1>5
  <2>5. instructions[k].osz \in Nat
    BY <2>4 DEF Instruction
  <2>6. w[k] = InstrSize(instructions[k])
    BY <1>4 DEF SizesOf
  <2> QED
    BY <2>3, <2>5, <2>6
<1>7. Sums(at, n, w, db)
  BY <1>4, <1>5, <1>6, AppendIs
<1>8. at \in [0 .. n -> Int]
  BY <1>7 DEF Sums
<1>9. code' = [size |-> at[n], db |-> db, main |-> db + main, at |-> [k \in 0 .. n |-> at[k]],
               imm |-> [k \in 0 .. n - 1 |-> ReadBack(instructions[k + 1].ii, ImmWidth(instructions[k + 1]))]]
  BY <1>4, Zenon DEF EmitCode
<1>10. [k \in 0 .. n |-> at[k]] = at
  BY <1>8
<1>11. /\ code'.size = at[n] /\ code'.at = at
       /\ code'.imm = [k \in 0 .. n - 1 |-> ReadBack(instructions[k + 1].ii, ImmWidth(instructions[k + 1]))]
  BY <1>9, <1>10
<1>12. Layout(code.at)'
  BY <1>2, <1>4, <1>7, <1>11 DEF Layout, SizesOf
<1>13. Emitted'
  BY <1>2, <1>4, <1>11, <1>12 DEF Emitted, Indices
<1> QED
  BY <1>1, <1>2, <1>3, <1>13 DEF IInv

LEMMA StutterInv ==
  ASSUME IInv, UNCHANGED vars
  PROVE  IInv'
<1>1. UNCHANGED <<symbols, instructions, patchWork, constants, errors, phase, refs, i, ip, code>>
  BY DEF vars
<1>2. (Built => Built') /\ (Unlinked => Unlinked') /\ (Linked => Linked')
  BY <1>1, SourceKept, LinkedKept
<1>3. Emitted => Emitted'
  BY <1>1 DEF Emitted, Indices, Layout, SizesOf
<1> QED
  BY <1>1, <1>2, <1>3 DEF IInv

LEMMA NextInv ==
  ASSUME IInv, [Next]_vars
  PROVE  IInv'
<1>1. CASE Open
  BY <1>1, OpenInv
<1>2. CASE OpenFails
  BY <1>2, EndedInv DEF OpenFails
<1>3. CASE Malformed
  BY <1>3, MalformedInv
<1>4. ASSUME NEW l \in Labels, Assembler_parse_label(l) PROVE IInv'
  BY <1>4, LabelInv
<1>5. ASSUME NEW x \in Vars, NEW init \in Initializers, Assembler_parse_var_decl(x, init) PROVE IInv'
  BY <1>5, DeclarationInv
<1>6. ASSUME NEW os \in Statements, Assembler_parse_instruction(os) PROVE IInv'
  BY <1>6, InstructionInv
<1>7. CASE EndOfFile
  BY <1>7, EndOfFileInv
<1>8. CASE CollectRefs
  BY <1>8, CollectInv
<1>9. CASE LinkStep
  BY <1>9, LinkInv
<1>10. CASE EmitCode
  BY <1>10, EmitInv
<1>11. CASE Write
  BY <1>11, EndedInv DEF Write, Cleanup
<1>12. CASE ReportErrors
  BY <1>12, EndedInv DEF ReportErrors, Cleanup
<1>13. CASE UNCHANGED vars
  BY <1>13, StutterInv
<1> QED
  BY <1>1, <1>2, <1>3, <1>4, <1>5, <1>6, <1>7, <1>8, <1>9, <1>10, <1>11, <1>12, <1>13 DEF Next

(* The invariant of the assembler: as long as no error was counted, every
   instruction that Assembler_parse_instruction appended has the size that
   VM_code_append_ writes, waits for one name at most and otherwise holds the
   value its last operand stands for; in the loop of Assembler_link it has the
   halves the loop has got to, and ip is its address. *)
THEOREM AssemblerInvariant == Spec => []IInv
BY InitInv, NextInv, PTL DEF Spec

-----------------------------------------------------------------------------
(* What the invariant says of a linked program. *)
LEMMA Laid ==
  ASSUME IInv, Done
  PROVE  LayoutAgrees
<1>1. Built /\ Linked /\ Emitted
  BY DEF IInv, Done
<1>2. ip = code.size
  BY <1>1 DEF Linked, Emitted
<1>3. ASSUME NEW k \in 1 .. Len(instructions) PROVE code.at[k] - code.at[k - 1] = InstrSize(instructions[k])
  <2>1. /\ code.at \in [0 .. Len(instructions) -> Int]
        /\ code.at[k] = code.at[k - 1] + SizesOf(instructions)[k]
    BY <1>1 DEF Emitted, Layout, Sums
  <2>2. Len(instructions) \in Nat /\ SizesOf(instructions)[k] \in Int
    BY <1>1, LayoutSizes
  <2>3. SizesOf(instructions)[k] = InstrSize(instructions[k])
    BY DEF SizesOf
  <2>4. code.at[k] \in Int /\ code.at[k - 1] \in Int
    BY <2>1, <2>2
  <2> QED
    BY <2>1, <2>2, <2>3, <2>4
<1> QED
  BY <1>2, <1>3 DEF LayoutAgrees

(* The immediate that the machine reads of instruction j. *)
LEMMA ImmediateRead ==
  ASSUME IInv, Done, NEW j \in DOMAIN code.imm, HasImmediate(j), NEW ins, ins = instructions[j + 1]
  PROVE  /\ j \in Indices /\ ins \in Instruction /\ ins.ims \in Widths
         /\ code.imm[j] = ReadBack(ins.ii, ins.ims)
<1>1. Built /\ Emitted
  BY DEF IInv, Done
<1>2. j \in Indices /\ code.imm[j] = ReadBack(ins.ii, ImmWidth(ins))
  BY <1>1 DEF Emitted
<1>3. ins \in Instruction
  <2>1. instructions \in Seq(Instruction)
    BY <1>1 DEF Built
  <2>2. j + 1 \in 1 .. Len(instructions)
    BY <1>2, <2>1 DEF Indices
  <2> QED
    BY <2>1, <2>2
<1>4. /\ ImmWidth(ins) \in Nat /\ InstrSize(ins) = ins.osz + ImmWidth(ins)
      /\ ins.rmd = amImm \/ ins.iea = TRUE
      /\ ins.ims \in Widths
  BY <1>1, <1>2 DEF Built, Written
<1>5. ins.osz \in Nat /\ ins.ims \in Nat
  BY <1>3 DEF Instruction
<1>6. InstrSize(ins) = ins.osz + ins.ims
  BY <1>4 DEF InstrSize
<1>7. ImmWidth(ins) = ins.ims
  BY <1>4, <1>5, <1>6
<1> QED
  BY <1>2, <1>3, <1>4, <1>7

LEMMA AddedIs ==
  ASSUME NEW o, KnownEA(symbols, o), o.hash \in BOOLEAN
  PROVE  Added(o) = Offset(symbols, o)
<1>1. CASE o.ea.kind = "int"
  BY <1>1 DEF Added, Offset
<1>2. CASE o.ea.kind = "name"
  <2>1. ~o.hash => Place(o.ea.val) = symbols[o.ea.val].id
    BY <1>2 DEF Place, KnownEA
  <2> QED
    BY <1>2, <2>1 DEF Added, Offset
<1>3. CASE o.ea.kind = "none"
  BY <1>3 DEF Added, Offset
<1> QED
  BY <1>1, <1>2, <1>3 DEF KnownEA

LEMMA ValueIs ==
  ASSUME NEW o, Known(symbols, o), o.hash \in BOOLEAN
  PROVE  Value(o) = Base(symbols, o)
<1>1. CASE o.kind = "Int"
  <2>1. ~IsRegister(o)
    BY <1>1 DEF IsRegister
  <2> QED
    BY <1>1, <2>1 DEF Value, Base
<1>2. CASE o.kind # "Int" /\ o.kind # "name"
  <2>1. ~IsRegister(o)
    BY <1>2 DEF IsRegister
  <2> QED
    BY <1>2, <2>1 DEF Value, Base
<1>3. CASE o.kind = "name" /\ IsRegister(o)
  BY <1>3 DEF Value, Base
<1>4. CASE o.kind = "name" /\ ~IsRegister(o)
  <2>1. Value(o) = (IF o.hash THEN symbols[o.val].size ELSE Place(o.val)) - o.minus
    BY <1>4 DEF Value
  <2>2. ~o.hash => Place(o.val) = symbols[o.val].id
    BY <1>4 DEF Place, Known
  <2> QED
    BY <1>4, <2>1, <2>2 DEF Base
<1> QED
  BY <1>1, <1>2, <1>3, <1>4

LEMMA JumpsLand ==
  ASSUME IInv
  PROVE  JumpsResolve
<1> SUFFICES ASSUME Done, NEW j \in DOMAIN code.imm, HasImmediate(j), IsLabel(Last(j)),
                    symbols[Last(j).val].id < Len(instructions)
             PROVE  LET ea == Last(j).ea
                        v == Place(Last(j).val) + Added(Last(j)) - code.at[j]
                    IN  code.imm[j] = v \/ (ea.kind = "int" /\ ~Fits(v, VM_integer_size(ea.val)))
  BY DEF JumpsResolve
<1>1. Built /\ Linked /\ Emitted
  BY DEF IInv, Done
<1>2. PICK ins, o, f, t : ins = instructions[j + 1] /\ o = Last(j) /\ f = code.at /\ t = symbols[o.val].id
  OBVIOUS
<1>3. j \in Indices /\ ins \in Instruction /\ ins.ims \in Widths /\ code.imm[j] = ReadBack(ins.ii, ins.ims)
  BY <1>2, ImmediateRead
<1>4. Written(j)
  BY <1>1, <1>3 DEF Built
<1>5. Patched(j)
  <2> SUFFICES ASSUME ~Patched(j) PROVE FALSE
    OBVIOUS
  <2>1. Known(symbols, o)
    BY <1>2, <1>4 DEF Written, Direct
  <2> QED
    BY <1>2, <2>1 DEF Known, IsLabel, Refers
<1>6. Waits(symbols, ins, o)
  BY <1>2, <1>4, <1>5 DEF Written
<1>7. Layout(f) /\ i = Len(instructions)
  BY <1>1, <1>2 DEF Emitted
<1>8. ins.ii = Offset(symbols, o) + Half(f, t) - Half(f, j)
  BY <1>1, <1>2, <1>3, <1>5, <1>7 DEF Linked, Halves
<1>9. Half(f, t) = f[t] /\ Half(f, j) = f[j]
  <2>1. j < i /\ t < i
    BY <1>1, <1>2, <1>3, <1>7 DEF Indices, Linked
  <2> QED
    BY <2>1 DEF Half
<1>10. t \in Nat
  <2>1. PICK k \in DOMAIN patchWork : patchWork[k][1] = j
    BY <1>5 DEF Patched
  <2>2. patchWork[k][2] = o.val
    BY <1>2, <1>4, <2>1 DEF Written, OneReference
  <2> QED
    BY <1>1, <1>2, <2>1, <2>2 DEF Built, SymbolsOK, Linked
<1>11. f[t] \in Int /\ f[j] \in Int
  <2>1. f \in [0 .. Len(instructions) -> Int]
    BY <1>7 DEF Layout, Sums
  <2>2. t \in 0 .. Len(instructions) /\ j \in 0 .. Len(instructions)
    <3>1. instructions \in Seq(Instruction)
      BY <1>1 DEF Built
    <3>2. Len(instructions) \in Nat
      BY <3>1
    <3> QED
      BY <1>2, <1>3, <1>10, <3>2 DEF Indices
  <2> QED
    BY <2>1, <2>2
<1>12. Place(o.val) = f[t]
  BY <1>2 DEF Place, IsLabel
<1>13. Added(o) = Offset(symbols, o)
  <2>1. IsOperand(o, FALSE) \/ IsOperand(o, TRUE)
    BY <1>1, <1>2, <1>3, LastOperand
  <2>2. o.hash \in BOOLEAN
    BY <2>1 DEF IsOperand
  <2> QED
    BY <1>6, <2>2, AddedIs DEF Waits
<1>14. Offset(symbols, o) \in Int
  <2>1. KnownEA(symbols, o)
    BY <1>6 DEF Waits
  <2>2. o.ea.kind = "int" => o.ea.val \in Nat
    BY <1>1, <1>2, <1>3, LastOperand
  <2>3. SymbolsOK(symbols)
    BY <1>1 DEF Built
  <2> QED
    BY <2>1, <2>2, <2>3 DEF Offset, KnownEA, SymbolsOK, Signed
<1>15. ins.ii = Place(o.val) + Added(o) - f[j] /\ ins.ii \in Int
  <2>1. PICK z : z = Offset(symbols, o)
    OBVIOUS
  <2>2. ins.ii = z + f[t] - f[j] /\ z \in Int
    BY <1>8, <1>9, <1>14, <2>1
  <2>3. ins.ii = f[t] + z - f[j] /\ ins.ii \in Int
    BY <1>11, <2>2
  <2> QED
    BY <1>12, <1>13, <2>1, <2>3
<1>16. CASE Fits(ins.ii, ins.ims)
  <2>1. ReadBack(ins.ii, ins.ims) = ins.ii
    BY <1>3, <1>15, <1>16, ReadBackIs
  <2> QED
    BY <1>2, <1>3, <1>15, <2>1
<1>17. CASE ~Fits(ins.ii, ins.ims)
  <2>1. ~ (ins.ims >= 4)
    BY <1>17 DEF Fits
  <2>2. o.ea.kind = "int" /\ ins.ims = VM_integer_size(o.ea.val)
    BY <1>6, <2>1 DEF Waits
  <2> QED
    BY <1>2, <1>15, <1>17, <2>2
<1> QED
  BY <1>16, <1>17

LEMMA OperandsArrive ==
  ASSUME IInv
  PROVE  OperandsSurvive
<1> SUFFICES ASSUME Done, NEW j \in DOMAIN code.imm, HasImmediate(j), ~Patched(j)
             PROVE  LET v == Value(Last(j)) + Added(Last(j))
                    IN  Narrow(Last(j), v) \/ code.imm[j] = v
  BY DEF OperandsSurvive
<1>1. Built
  BY DEF IInv, Done
<1>2. PICK ins, o : ins = instructions[j + 1] /\ o = Last(j)
  OBVIOUS
<1>3. j \in Indices /\ ins \in Instruction /\ ins.ims \in Widths /\ code.imm[j] = ReadBack(ins.ii, ins.ims)
  BY <1>2, ImmediateRead
<1>4. Direct(symbols, ins, o)
  BY <1>1, <1>2, <1>3 DEF Built, Written
<1>5. o.hash \in BOOLEAN
  <2>1. IsOperand(o, FALSE) \/ IsOperand(o, TRUE)
    BY <1>1, <1>2, <1>3, LastOperand
  <2> QED
    BY <2>1 DEF IsOperand
<1>6. Value(o) = Base(symbols, o)
  BY <1>4, <1>5, ValueIs DEF Direct
<1>7. Added(o) = Offset(symbols, o)
  BY <1>4, <1>5, AddedIs DEF Direct
<1>8. ins.ii = Value(o) + Added(o)
  BY <1>4, <1>6, <1>7 DEF Direct
<1>9. ins.ii \in Int
  BY <1>3 DEF Instruction
<1>10. CASE Fits(ins.ii, ins.ims)
  <2>1. ReadBack(ins.ii, ins.ims) = ins.ii
    BY <1>3, <1>9, <1>10, ReadBackIs
  <2> QED
    BY <1>2, <1>3, <1>8, <2>1
<1>11. CASE Narrow(o, ins.ii)
  BY <1>2, <1>8, <1>11
<1> QED
  BY <1>4, <1>10, <1>11 DEF Direct

(* The addresses Assembler_link adds up to patch with are those at which
   VM_code_append_ writes the instructions, for every source. *)
THEOREM LayoutSafe == Spec => []LayoutAgrees
<1>1. IInv => LayoutAgrees
  BY Laid DEF LayoutAgrees
<1> QED
  BY <1>1, AssemblerInvariant, PTL

(* Every jump and call that Assembler_link patches lands on the instruction
   behind its label: the halves -ip and +ip, added by different steps of the
   loop in either order, meet. *)
THEOREM LinksSafe == Spec => []JumpsResolve
BY JumpsLand, AssemblerInvariant, PTL

(* What Assembler_parse_instruction_arg reads and the linker leaves alone is
   what VM_fetch reads back: the operand survives its encoding. *)
THEOREM OperandsSafe == Spec => []OperandsSurvive
BY OperandsArrive, AssemblerInvariant, PTL

-----------------------------------------------------------------------------
(***************************************************************************)
(* What is put off is what the source names.                               *)
(***************************************************************************)

(* Only a name without a # is put off. *)
IsArg(p, ins, o) ==
  \/ p = Assembler_parse_instruction_arg(ins, o, FALSE)
  \/ p = Assembler_parse_instruction_arg(ins, o, TRUE)

LEMMA LateRefers ==
  ASSUME NEW ins, NEW o, o.hash \in BOOLEAN, NEW p, p.late # {}, IsArg(p, ins, o)
  PROVE  Refers(o) /\ p.late = {o.val}
<1> DEFINE q == ParseIdentifier(ins, o)
<1>1. o.kind # "name" => ParseNumber(ins, o).late = {}
  <2> DEFINE char == [ins EXCEPT !.rmd = amImm, !.ims = 4, !.ii = o.val]
             int == [ins EXCEPT !.rmd = amImm, !.ims = VM_integer_size(o.val), !.ii = Signed(o.sign, o.val)]
             t == ParseNumber(ins, o)
  <2>1. t = CASE o.kind = "Char" -> Parsed(char, 0, {}, 0)
              [] o.kind = "Int" -> Parsed(int, 0, {}, 0)
              [] OTHER -> IF Token_get(o.kind, "Float") THEN Failed ELSE [Failed EXCEPT !.res = "abort"]
    BY Zenon DEF ParseNumber
  <2> HIDE DEF char, int, t
  <2>2. t \in {Parsed(char, 0, {}, 0), Parsed(int, 0, {}, 0), Failed, [Failed EXCEPT !.res = "abort"]}
    BY <2>1
  <2>3. Parsed(char, 0, {}, 0).late = {} /\ Parsed(int, 0, {}, 0).late = {}
    BY DEF Parsed
  <2>4. Failed.late = {} /\ [Failed EXCEPT !.res = "abort"].late = {}
    BY DEF Failed
  <2>5. t.late = {}
    BY <2>2, <2>3, <2>4
  <2> QED
    BY <2>5 DEF t
<1>2. /\ o.kind = "name" => p = EffectiveAddress(q, o) \/ p = q
      /\ o.kind # "name" => p = ParseNumber(ins, o)
  BY Zenon DEF Assembler_parse_instruction_arg, IsArg
<1>3. o.kind = "name"
  BY <1>1, <1>2
<1>4. q.late # {} => Refers(o) /\ q.late = {o.val}
  <2> DEFINE regs == Vm_get_register_from_str(o.val)
             vals == IF o.hash THEN Assembler_get_variable_size(o.val)
                     ELSE Assembler_add_symbol_reference(o.val, TRUE)
             iu == CHOOSE v \in vals : TRUE
             late == IF ~o.hash /\ PutOff(o.val) THEN {o.val} ELSE {}
             rest == iu = 0 /\ o.minus > 0
             size == IF iu = 0 THEN 4 ELSE VM_integer_size(IF o.minus > 0 THEN o.minus ELSE iu)
             new == [ins EXCEPT !.rmd = amImm, !.ii = iu - o.minus, !.ims = size]
             r == Parsed(new, 0, late, IF rest THEN 1 ELSE 0)
             reg == [ins EXCEPT !.rmd = amReg]
             t == ParseIdentifier(ins, o)
  <2>1. t = IF o.sign # "" \/ (regs # {} /\ o.hash) \/ (regs = {} /\ vals = {}) THEN Failed
            ELSE IF regs # {}
            THEN Parsed(reg, CHOOSE x \in regs : TRUE, {}, 0)
            ELSE IF rest /\ o.mem THEN [r EXCEPT !.res = "fail"] ELSE r
    BY Zenon DEF ParseIdentifier
  <2>2. Failed.late = {} /\ \A x, y : Parsed(x, y, {}, 0).late = {}
    BY DEF Failed, Parsed
  <2>3. r.late = late /\ [r EXCEPT !.res = "fail"].late = late
    BY DEF Parsed
  <2>4. late # {} => ~o.hash /\ late = {o.val}
    OBVIOUS
  <2>5. regs = {} => o.val \notin DOMAIN Registers
    BY DEF Vm_get_register_from_str
  <2> HIDE DEF t, r, reg, rest, late, regs, vals
  <2>6. t.late # {} => regs = {} /\ t.late = late
    BY <2>1, <2>2, <2>3
  <2>7. t.late # {} => Refers(o) /\ t.late = {o.val}
    BY <1>3, <2>4, <2>5, <2>6 DEF Refers, IsRegister
  <2> QED
    BY <2>7 DEF t
<1>5. EffectiveAddress(q, o).late = q.late
  <2>1. Outcome(q)
    BY IdentifierOutcome
  <2> DEFINE with == [q.ins EXCEPT !.iea = TRUE]
             vals == IF o.ea.kind = "size" THEN {}
                     ELSE IF o.hash THEN Assembler_get_variable_size(o.ea.val)
                     ELSE Assembler_add_symbol_reference(o.ea.val, FALSE)
             int == [with EXCEPT !.ims = VM_integer_size(o.ea.val), !.ii = @ + Signed(o.ea.sign, o.ea.val)]
             name == [with EXCEPT !.ims = 8, !.ii = @ + CHOOSE v \in vals : TRUE]
             r == EffectiveAddress(q, o)
  <2> HIDE DEF q
  <2>2. r = IF q.res # "ok" THEN q ELSE
        CASE o.ea.kind = "none" -> q
        [] o.ea.kind = "int" -> [q EXCEPT !.ins = int]
        [] o.ea.kind \in {"name", "size"} ->
             IF o.ea.sign # "" \/ vals = {} THEN [q EXCEPT !.res = "fail"] ELSE [q EXCEPT !.ins = name]
        [] OTHER -> [q EXCEPT !.ins = with, !.errs = 1]
    BY Zenon DEF EffectiveAddress
  <2> HIDE DEF int, name, with, vals, r
  <2>3. r \in {q, [q EXCEPT !.ins = int], [q EXCEPT !.res = "fail"], [q EXCEPT !.ins = name],
               [q EXCEPT !.ins = with, !.errs = 1]}
    <3>1. CASE q.res # "ok"
      BY <2>2, <3>1
    <3>2. CASE q.res = "ok" /\ o.ea.kind = "none"
      BY <2>2, <3>2
    <3>3. CASE q.res = "ok" /\ o.ea.kind = "int"
      BY <2>2, <3>3
    <3>4. CASE q.res = "ok" /\ o.ea.kind \in {"name", "size"}
      BY <2>2, <3>4
    <3>5. CASE q.res = "ok" /\ o.ea.kind \notin {"none", "int", "name", "size"}
      BY <2>2, <3>5
    <3> QED
      BY <3>1, <3>2, <3>3, <3>4, <3>5
  <2>4. DOMAIN q = {"res", "ins", "reg", "late", "errs"}
    BY <2>1 DEF Outcome
  <2>5. /\ [q EXCEPT !.ins = int].late = q.late /\ [q EXCEPT !.res = "fail"].late = q.late
        /\ [q EXCEPT !.ins = name].late = q.late /\ [q EXCEPT !.ins = with, !.errs = 1].late = q.late
    BY <2>4
  <2>6. r.late = q.late
    BY <2>3, <2>5
  <2> QED
    BY <2>6 DEF r
<1>6. p.late = q.late
  <2> HIDE DEF q
  <2> QED
    BY <1>2, <1>3, <1>5
<1> QED
  BY <1>4, <1>6

(* What the two operands of a statement put off. *)
LEMMA StatementRefers ==
  ASSUME NEW os \in Statements, NEW a, a = AfterFirst(os), NEW b, b = AfterSecond(os, a)
  PROVE  /\ a.late # {} => 1 \in DOMAIN os /\ Refers(os[1]) /\ a.late = {os[1].val}
         /\ b.late # {} => 2 \in DOMAIN os /\ Refers(os[2]) /\ b.late = {os[2].val}
<1>1. /\ Len(os) \in {0, 1, 2} /\ (Len(os) >= 1 => IsOperand(os[1], FALSE))
      /\ (Len(os) = 2 => IsOperand(os[2], TRUE)) /\ DOMAIN os = 1 .. Len(os)
  <2>1. os \in Seq({os[k] : k \in DOMAIN os})
    BY SourceAssumption
  <2>2. DOMAIN os = 1 .. Len(os)
    BY <2>1
  <2> QED
    BY <2>2, StatementIs
<1> DEFINE p == Assembler_parse_instruction_arg(Blank(os), os[1], FALSE)
           q == Assembler_parse_instruction_arg(a.ins, os[2], TRUE)
<1>2. a = IF Len(os) = 0 THEN Parsed(Blank(os), 0, {}, 0) ELSE FirstOperand(p, os[1])
  BY Zenon DEF AfterFirst
<1>3. \/ b = [a EXCEPT !.late = {}, !.errs = 0]
      \/ ~(Len(os) < 2) /\ b = SecondOperand(q, os[2])
  BY Zenon DEF AfterSecond
<1>4. ASSUME a.late # {} PROVE 1 \in DOMAIN os /\ Refers(os[1]) /\ a.late = {os[1].val}
  <2>1. Parsed(Blank(os), 0, {}, 0).late = {}
    BY DEF Parsed
  <2>2. Kept(p, FirstOperand(p, os[1]))
    BY OutcomeOfOperand, FirstOperandKeeps, Zenon
  <2>3. Len(os) # 0 /\ a = FirstOperand(p, os[1])
    <3> HIDE DEF p
    <3> QED
      BY <1>2, <1>4, <2>1
  <2>4. p.late = a.late
    <3> HIDE DEF p
    <3> QED
      BY <2>2, <2>3 DEF Kept
  <2>5. Len(os) >= 1 /\ 1 \in DOMAIN os
    BY <1>1, <2>3
  <2>6. os[1].hash \in BOOLEAN
    BY <1>1, <2>5 DEF IsOperand
  <2>7. Refers(os[1]) /\ p.late = {os[1].val}
    <3>1. p.late # {}
      BY <1>4, <2>4
    <3>2. IsArg(p, Blank(os), os[1])
      BY Zenon DEF IsArg
    <3> HIDE DEF p
    <3> QED
      BY <2>6, <3>1, <3>2, LateRefers
  <2> QED
    BY <2>4, <2>5, <2>7
<1>5. ASSUME b.late # {} PROVE 2 \in DOMAIN os /\ Refers(os[2]) /\ b.late = {os[2].val}
  <2>1. Outcome(a)
    <3>1. 0 \in {0, 1}
      OBVIOUS
    <3>2. Outcome(Parsed(Blank(os), 0, {}, 0))
      BY <3>1, OutcomeParsed, Zenon
    <3>3. Kept(p, FirstOperand(p, os[1]))
      BY OutcomeOfOperand, FirstOperandKeeps, Zenon
    <3> HIDE DEF p
    <3> QED
      BY <1>2, <3>2, <3>3 DEF Kept
  <2>2. [a EXCEPT !.late = {}, !.errs = 0].late = {}
    <3>1. DOMAIN a = {"res", "ins", "reg", "late", "errs"}
      BY <2>1 DEF Outcome
    <3> QED
      BY <3>1
  <2>3. Kept(q, SecondOperand(q, os[2]))
    BY OutcomeOfOperand, SecondOperandKeeps, Zenon
  <2>4. ~(Len(os) < 2) /\ b = SecondOperand(q, os[2])
    <3> HIDE DEF q
    <3> QED
      BY <1>3, <1>5, <2>2
  <2>5. q.late = b.late
    <3> HIDE DEF q
    <3> QED
      BY <2>3, <2>4 DEF Kept
  <2>6. Len(os) = 2 /\ 2 \in DOMAIN os
    BY <1>1, <2>4
  <2>7. os[2].hash \in BOOLEAN
    BY <1>1, <2>6 DEF IsOperand
  <2>8. Refers(os[2]) /\ q.late = {os[2].val}
    <3>1. q.late # {}
      BY <1>5, <2>5
    <3>2. IsArg(q, a.ins, os[2])
      BY Zenon DEF IsArg
    <3> HIDE DEF q
    <3> QED
      BY <2>7, <3>1, <3>2, LateRefers
  <2> QED
    BY <2>5, <2>6, <2>8
<1> QED
  BY <1>4, <1>5

(* The invariant: while no error was counted every patch is meant. *)
MeantAt(k) ==
  /\ patchWork[k][1] < Len(instructions)
  /\ LET os == instructions[patchWork[k][1] + 1].src
     IN  \E n \in DOMAIN os : Refers(os[n]) /\ os[n].val = patchWork[k][2]

Meant == \A k \in DOMAIN patchWork : MeantAt(k)

MInv == phase \in {"open", "parse", "collect", "link", "done"} /\ errors = 0 => Meant

LEMMA MeantKept ==
  ASSUME Meant, UNCHANGED <<instructions, patchWork>>
  PROVE  Meant'
BY DEF Meant, MeantAt

(* A step that leaves instructions and patches alone. *)
LEMMA MeantStep ==
  ASSUME IInv, MInv, phase \in {"open", "parse", "collect", "link", "done"},
         errors' = 0 => errors = 0, UNCHANGED <<instructions, patchWork>>
  PROVE  MInv'
BY MeantKept DEF MInv

LEMMA MeantFail ==
  ASSUME IInv, phase = "parse", NEW n \in {0, 1}, errors' = errors + 1 + n
  PROVE  MInv'
<1>1. errors \in Nat
  BY DEF IInv
<1>2. errors' # 0
  BY <1>1
<1> QED
  BY <1>2 DEF MInv

LEMMA MeantInstruction ==
  ASSUME IInv, MInv, NEW os \in Statements, Assembler_parse_instruction(os)
  PROVE  MInv'
<1> DEFINE a == AfterFirst(os)
           b == AfterSecond(os, a)
           late == Appended(Appended(patchWork, Patches(a)), Patches(b))
<1>n. PICK n : n = Len(instructions)
  OBVIOUS
<1>1. phase = "parse" /\ errors \in Nat /\ (errors = 0 => Built /\ Meant)
  BY DEF IInv, MInv, Assembler_parse_instruction, Parsing
<1>2. CASE cynAbort
  BY <1>2 DEF cynAbort, MInv
<1>3. CASE errors' = errors + 1
  BY <1>1, <1>3 DEF MInv
<1>4. CASE /\ b.res = "ok"
           /\ instructions' = Append(instructions, b.ins)
           /\ patchWork' = late /\ errors' = errors + a.errs + b.errs
           /\ UNCHANGED <<symbols, constants, main, phase>>
  <2>1. a.errs \in {0, 1} /\ b.errs \in {0, 1}
    BY ErrorsCounted, Zenon
  <2>2. patchWork' = Appended(Appended(patchWork, LateOf(n, a.late)), LateOf(n, b.late))
    BY <1>4, <1>n, Zenon DEF Patches, LateOf
  <2>3. b.res = "ok" /\ instructions' = Append(instructions, b.ins) /\ errors' = errors + a.errs + b.errs
    BY <1>4
  <2>4. ASSUME a.errs = 0, b.errs = 0, SymbolsOK(symbols) PROVE Stated(os, a.late, b.late, b.ins)
    BY <2>3, <2>4, InstructionParsed, Zenon
  <2>5. /\ a.late # {} => 1 \in DOMAIN os /\ Refers(os[1]) /\ a.late = {os[1].val}
        /\ b.late # {} => 2 \in DOMAIN os /\ Refers(os[2]) /\ b.late = {os[2].val}
    BY StatementRefers, Zenon
  <2> HIDE DEF a, b, late
  <2>6. errors' = 0 => errors = 0 /\ a.errs = 0 /\ b.errs = 0
    BY <1>1, <2>1, <2>3
  <2>7. ASSUME errors' = 0 PROVE Meant'
    <3>1. Built /\ Meant
      BY <1>1, <2>6, <2>7
    <3>2. /\ instructions \in Seq(Instruction) /\ patchWork \in Seq(Nat \X RefNames)
          /\ SymbolsOK(symbols)
          /\ \A k \in DOMAIN patchWork : patchWork[k][1] \in Indices
      BY <3>1 DEF Built
    <3>3. Stated(os, a.late, b.late, b.ins)
      BY <2>4, <2>6, <2>7, <3>2
    <3>4. b.ins \in Instruction /\ n \in Nat /\ n = Len(instructions) /\ b.ins.src = os
      BY <1>n, <3>2, <3>3 DEF Stated
    <3>5. MayWait(RefNames, a.late) /\ MayWait(RefNames, b.late)
      BY <3>3, NamesOf
    <3>6. Behind(RefNames, patchWork, patchWork', n, a.late \cup b.late)
      BY <2>2, <3>2, <3>4, <3>5, PatchesOf, Zenon
    <3>7. /\ instructions' \in Seq(Instruction) /\ Len(instructions') = n + 1
          /\ instructions'[n + 1] = b.ins
          /\ \A k \in 1 .. n : instructions'[k] = instructions[k]
      BY <2>3, <3>2, <3>4, AppendOne
    <3> DEFINE m == Len(patchWork)
               m2 == Len(patchWork')
    <3>8. /\ patchWork' \in Seq(Nat \X RefNames)
          /\ \A k \in 1 .. m : patchWork'[k] = patchWork[k]
          /\ \A k \in 1 .. m2 : k > m => patchWork'[k][1] = n /\ patchWork'[k][2] \in a.late \cup b.late
      BY <3>6 DEF Behind
    <3>9. m \in Nat /\ m2 \in Nat /\ DOMAIN patchWork = 1 .. m /\ DOMAIN patchWork' = 1 .. m2
      BY <3>2, <3>8
    <3> HIDE DEF m, m2
    <3>10. ASSUME NEW k \in DOMAIN patchWork' PROVE MeantAt(k)'
      <4>1. CASE k > m
        <5>1. patchWork'[k][1] = n /\ patchWork'[k][2] \in a.late \cup b.late
          BY <3>8, <3>9, <4>1
        <5>2. \E x \in DOMAIN os : Refers(os[x]) /\ os[x].val = patchWork'[k][2]
          BY <2>5, <5>1
        <5>3. patchWork'[k][1] < Len(instructions') /\ instructions'[patchWork'[k][1] + 1].src = os
          BY <3>4, <3>7, <5>1
        <5> QED
          BY <5>2, <5>3 DEF MeantAt, Refers, IsRegister
      <4>2. CASE ~ (k > m)
        <5>1. k \in DOMAIN patchWork /\ patchWork'[k] = patchWork[k]
          BY <3>8, <3>9, <4>2
        <5>2. MeantAt(k) /\ patchWork[k][1] \in Indices
          BY <3>1, <3>2, <5>1 DEF Meant
        <5>3. patchWork[k][1] + 1 \in 1 .. n /\ patchWork[k][1] < n + 1
          BY <3>4, <5>2 DEF Indices
        <5>4. instructions'[patchWork[k][1] + 1] = instructions[patchWork[k][1] + 1]
          BY <3>7, <5>3
        <5> QED
          BY <3>7, <5>1, <5>2, <5>3, <5>4 DEF MeantAt
      <4> QED
        BY <4>1, <4>2
    <3> QED
      BY <3>10 DEF Meant
  <2> QED
    BY <2>7 DEF MInv
<1> QED
  BY <1>2, <1>3, <1>4, Zenon DEF Assembler_parse_instruction

LEMMA MeantLink ==
  ASSUME IInv, MInv, LinkStep
  PROVE  MInv'
<1>1. Built /\ Meant
  BY DEF IInv, MInv, LinkStep
<1>2. patchWork' = patchWork
  BY DEF LinkStep
<1>3. /\ instructions \in Seq(Instruction)
      /\ \A k \in DOMAIN patchWork : patchWork[k][1] \in Indices
  BY <1>1 DEF Built
<1>4. PICK n : n = Len(instructions) /\ n \in Nat
  BY <1>3
<1>5. instructions' = [k \in 1 .. n |-> [instructions[k] EXCEPT !.ii = @ + PatchOf(k - 1)]]
  BY <1>4 DEF LinkStep
<1>6. Len(instructions') = n
  <2>1. ASSUME NEW f, f = [k \in 1 .. n |-> [instructions[k] EXCEPT !.ii = @ + PatchOf(k - 1)]] PROVE Len(f) = n
    BY <1>4, <2>1, SeqOfFunction
  <2> QED
    BY <1>5, <2>1
<1>7. ASSUME NEW k \in 1 .. n PROVE instructions'[k].src = instructions[k].src
  <2>1. instructions[k] \in Instruction
    BY <1>3, <1>4
  <2>2. \A v : [instructions[k] EXCEPT !.ii = v].src = instructions[k].src
    BY <2>1 DEF Instruction
  <2>3. \E v : instructions'[k] = [instructions[k] EXCEPT !.ii = v]
    BY <1>5, Zenon
  <2> QED
    BY <2>2, <2>3
<1>8. ASSUME NEW k \in DOMAIN patchWork' PROVE MeantAt(k)'
  <2>1. MeantAt(k) /\ patchWork[k][1] \in Indices
    BY <1>1, <1>2, <1>3 DEF Meant
  <2>2. patchWork[k][1] + 1 \in 1 .. n
    BY <1>4, <2>1 DEF Indices
  <2>3. instructions'[patchWork[k][1] + 1].src = instructions[patchWork[k][1] + 1].src
    BY <1>7, <2>2
  <2> QED
    BY <1>2, <1>4, <1>6, <2>1, <2>3 DEF MeantAt, Refers, IsRegister
<1> QED
  BY <1>8 DEF Meant, MInv

LEMMA MeantNext ==
  ASSUME IInv, MInv, [Next]_vars
  PROVE  MInv'
<1>a. phase = "parse" => errors \in Nat
  BY DEF IInv
<1>1. CASE Open
  BY <1>1, MeantStep DEF Open, source
<1>2. CASE OpenFails
  BY <1>2 DEF OpenFails, MInv
<1>3. CASE Malformed
  BY <1>3, <1>a DEF Malformed, Parsing, Fail, MInv
<1>4. ASSUME NEW l \in Labels, Assembler_parse_label(l) PROVE MInv'
  <2>1. phase = "parse" /\ UNCHANGED <<instructions, patchWork>> /\ (errors' = errors \/ errors' = errors + 1)
    BY <1>4 DEF Assembler_parse_label, Parsing, Fail
  <2> QED
    BY <1>a, <2>1, MeantStep
<1>5. ASSUME NEW x \in Vars, NEW init \in Initializers, Assembler_parse_var_decl(x, init) PROVE MInv'
  <2>1. phase = "parse"
    BY <1>5 DEF Assembler_parse_var_decl, Parsing
  <2>2. UNCHANGED <<instructions, patchWork>> /\ (errors' = errors \/ errors' = errors + 1 \/ errors' = errors + 0)
    BY <1>5 DEF Assembler_parse_var_decl, cynAbort, source, Fail
  <2> QED
    BY <1>a, <2>1, <2>2, MeantStep
<1>6. ASSUME NEW os \in Statements, Assembler_parse_instruction(os) PROVE MInv'
  BY <1>6, MeantInstruction
<1>7. CASE EndOfFile
  BY <1>7, MeantStep DEF EndOfFile, source
<1>8. CASE CollectRefs
  <2>1. phase = "collect" /\ errors = 0 /\ UNCHANGED <<instructions, patchWork>>
    BY <1>8 DEF CollectRefs, IInv
  <2> QED
    BY <2>1, MeantStep
<1>9. CASE LinkStep
  BY <1>9, MeantLink
<1>10. CASE EmitCode
  BY <1>10, MeantStep DEF EmitCode, source
<1>11. CASE Write
  BY <1>11 DEF Write, MInv
<1>12. CASE ReportErrors
  BY <1>12 DEF ReportErrors, MInv
<1>13. CASE UNCHANGED vars
  BY <1>13, MeantKept DEF vars, MInv
<1> QED
  BY <1>1, <1>2, <1>3, <1>4, <1>5, <1>6, <1>7, <1>8, <1>9, <1>10, <1>11, <1>12, <1>13 DEF Next

(* Assembler_link patches what the source names and nothing else: no reference
   that a failed statement left behind reaches it, though
   Assembler_parse_instruction puts names off before it knows that it will
   append an instruction. *)
THEOREM PatchesSafe == Spec => []PatchesAreMeant
<1>1. Init => MInv
  BY DEF Init, MInv, Meant
<1>2. IInv /\ MInv /\ [Next]_vars => MInv'
  BY MeantNext
<1>3. IInv /\ MInv => PatchesAreMeant
  BY DEF IInv, MInv, Meant, MeantAt, PatchesAreMeant
<1> QED
  BY <1>1, <1>2, <1>3, AssemblerInvariant, PTL DEF Spec
=============================================================================
