------------------------------ MODULE VMStack ------------------------------
(***************************************************************************)
(* The stack of the virtual machine and its calling convention: VM_pushn   *)
(* and VM_popn (vm.h), the stack instructions of VM_execute, VM_returnx    *)
(* and the prologue of VM_run (vm.c).                                      *)
(*                                                                         *)
(* Addresses count 8-byte words: ram.size, ram.sb and sp are multiples of  *)
(* 8.  The stack grows down from `size'; `ram' holds the words from sp on, *)
(* as nothing below sp is read before it is written (a word reserved by    *)
(* alloca holds anything).  A called frame looks like this, bp pointing at *)
(* the lowest of the words above the operands:                             *)
(*                                                                         *)
(*    operands of the caller | arguments | nargs | ip | bp | operands      *)
(*                                                                         *)
(* The guest is a program that keeps to its own frame: it pops, writes and *)
(* returns only what it pushed, and before a call it pushes the arguments  *)
(* and their number.  Nothing in the machine enforces that.  Straight-line *)
(* progress of ip is left out: ip changes at jumps, calls and returns.     *)
(***************************************************************************)
EXTENDS Integers, Sequences, Builtins

CONSTANTS size, sb,     \* ram.size and ram.sb
          CB,           \* a count parameter is a u8: it is taken modulo CB
          Code, len,    \* instruction addresses; Vector_len(code)
          entry,        \* header->db, where execution starts
          Vals,         \* the values a guest pushes
          Argc,         \* the numbers of command line arguments
          PopCounts,    \* operands of popn
          RetCounts,    \* operands of ret
          AllocaReqs,   \* alloca: n units of 2^mode bytes
          NativeFns     \* the native functions the guest calls

ASSUME StackAssumption ==
  /\ size \in Nat /\ sb \in Nat /\ sb < size
  /\ CB \in Nat \ {0}
  /\ Code \subseteq Nat /\ len \in Nat /\ \A c \in Code : c < len
  /\ entry \in Code
  /\ Vals \subseteq Nat /\ Argc \subseteq Nat
  /\ PopCounts \subseteq Nat /\ RetCounts \subseteq Nat
  /\ AllocaReqs \subseteq [n : Nat, mode : 0 .. 3]
  /\ NativeFns \subseteq Natives

VARIABLES ram,          \* the words of the stack, from sp on
          sp, bp, ip,
          status,       \* "boot", "run", "halt" (flags has eflHalt) or "abort"
          sys           \* what the last instruction passed to the system

vars == <<ram, sp, bp, ip, status, sys>>

Init ==
  /\ sp = size /\ bp = size /\ ip = entry
  /\ ram = [a \in {} |-> 0]
  /\ status = "boot" /\ sys = <<>>

Running == status = "run" /\ ip < len

(* Fault: the boundary itself may be overwritten. *)
PushFitsOnBoundary(p, n) == p - n >= sb

(* VM_pushn and VM_popn abort on a collision with the heap boundary and on
   leaving the memory.  (Where sp - size would be negative it wraps in the
   code, passes the test, and MEM aborts on the address.) *)
PushFits(p, n) == p - n > sb

PopFits(p, n) == p + n <= size

(* The stack with `words' pushed below p, words[1] first; what is below p is
   overwritten, what is above stays. *)
Pushed(p, words) ==
  [a \in (p - Len(words)) .. (size - 1) |->
     IF a < p THEN words[p - a] ELSE ram[a]]

Popped(p) == [a \in p .. (size - 1) |-> ram[a]]

(* The words from lo up to hi, in the order they were pushed. *)
Words(lo, hi) == [i \in 1 .. (hi - lo) |-> ram[hi - i]]

VM_abort == status' = "abort" /\ UNCHANGED <<ram, sp, bp, ip, sys>>

-----------------------------------------------------------------------------
(* The prologue of VM_run: the command line arguments (their copies on the
   heap; VM_cstring_dup aborts when the heap is full), argc, the length of
   the code as the address to return to, bp. *)
VM_run ==
  /\ status = "boot"
  /\ \E argc \in Argc : \E argv \in [1 .. argc -> Vals] :
       \/ /\ PushFits(sp, argc + 3)
          /\ ram' = Pushed(sp, argv \o <<argc, len, bp>>)
          /\ sp' = sp - (argc + 3)
          /\ bp' = sp'
          /\ status' = "run"
          /\ UNCHANGED <<ip, sys>>
       \/ VM_abort

Push(v) ==
  /\ Running
  /\ \/ /\ PushFits(sp, 1)
        /\ ram' = Pushed(sp, <<v>>)
        /\ sp' = sp - 1 /\ sys' = <<>>
        /\ UNCHANGED <<bp, ip, status>>
     \/ ~ PushFits(sp, 1) /\ VM_abort

(* The guest pops no more than its frame holds. *)
Owned(n) == n <= bp - sp

(* Pop and Popn. *)
Popn(n) ==
  LET count == n % CB IN
  /\ Running /\ Owned(n)
  /\ PopFits(sp, count)
  /\ ram' = Popped(sp + count)
  /\ sp' = sp + count /\ sys' = <<>>
  /\ UNCHANGED <<bp, ip, status>>

(* Alloca turns the request into words by a shift, VM_pushn takes them as u8.
   The address that it leaves in a general register, sp - 8 before the push, is
   not followed: like what Pop reads, it is a value of the guest. *)
AllocaWords(req) == (req.n \div 2 ^ (3 - req.mode)) % CB

Alloca(req) ==
  LET count == AllocaWords(req) IN
  /\ Running
  /\ \/ /\ PushFits(sp, count)
        /\ \E junk \in [1 .. count -> Vals] : ram' = Pushed(sp, junk)
        /\ sp' = sp - count /\ sys' = <<>>
        /\ UNCHANGED <<bp, ip, status>>
     \/ ~ PushFits(sp, count) /\ VM_abort

(* Mov and the like through memory: to an operand or an argument. *)
Store(a, v) ==
  /\ Running
  /\ a \in sp .. (bp - 1) \/ a \in (bp + 3) .. (bp + 2 + ram[bp + 2])
  /\ ram' = [ram EXCEPT ![a] = v] /\ sys' = <<>>
  /\ UNCHANGED <<sp, bp, ip, status>>

Jmp(target) ==
  /\ Running
  /\ ip' = target /\ sys' = <<>>
  /\ UNCHANGED <<ram, sp, bp, status>>

(* The guest pushed the arguments and their number. *)
ArgumentsPushed == Owned(1) /\ sp < size /\ Owned(1 + ram[sp])

Call(target) ==
  /\ Running /\ ArgumentsPushed
  /\ \/ /\ PushFits(sp, 2)
        /\ ram' = Pushed(sp, <<ip, bp>>)
        /\ sp' = sp - 2 /\ bp' = sp'
        /\ ip' = target /\ sys' = <<>>
        /\ UNCHANGED status
     \/ ~ PushFits(sp, 2) /\ VM_abort

(* memcpy of n words from src to dst, both upwards.  Where they overlap any
   source word may land in an overlapped word. *)
Copies(src, dst, n) ==
  LET right == Words(src, src + n)
  IN  IF dst < src + n
      THEN {[i \in 1 .. n |-> right[c[i]]] : c \in [1 .. n -> 1 .. n]}
      ELSE {right}

(* Where the frame with base b began: above its saved registers, the count of
   its arguments (a u8 for VM_popn) and the arguments. *)
FrameTop(b) == b + 3 + (ram[b + 2] % CB)

(* Fault: the results are pushed before the frame is unwound. *)
RetFitsWound(n) == PopFits(bp, 3) /\ PushFits(sp, (n % CB) + 1)

(* None of the pops and pushes of Ret aborts. *)
RetFits(n) ==
  LET t == FrameTop(bp)
  IN  /\ PopFits(sp, n % CB) /\ PopFits(bp, 3) /\ PopFits(t, 0)
      /\ PushFits(t, (n % CB) + 1)

(* Ret of n results: they are popped, the frame is unwound, the results are
   pushed again in place of the arguments, and their number. *)
Ret(n) ==
  LET count == n % CB
      t == FrameTop(bp)
  IN  /\ Running /\ Owned(n)
      /\ \/ /\ RetFits(n)
            /\ \E results \in Copies(sp, t - count, count) :
                 ram' = Pushed(t, results \o <<n>>)
            /\ sp' = t - count - 1
            /\ bp' = ram[bp] /\ ip' = ram[bp + 1]
            /\ sys' = <<>>
            /\ UNCHANGED status
         \/ ~ RetFits(n) /\ VM_abort

(* Fault: args[0] is taken for the word right above the count. *)
ArgvReversed(f) ==
  LET nargs == ram[sp] IN [i \in 1 .. Reads(f, nargs) |-> ram[sp + i]]

(* The arguments f reads: args[0] is the word nargs words above sp (the first
   one pushed), args[-i] the i-th below it.  With no arguments args is NULL
   and nothing is read. *)
Argv(f) ==
  LET nargs == ram[sp] IN [i \in 1 .. Reads(f, nargs) |-> ram[sp + nargs - (i - 1)]]

(* Ncall of a builtin: the frame is set up like Call's, the function checks
   the number of its arguments and runs, and VM_returnx unwinds the frame and
   pushes its result r and their number. *)
Ncall(f, r) ==
  LET nargs == ram[sp]
      t == FrameTop(sp - 2)
      fits == PushFits(sp, 2) /\ Accepts(f, nargs)
  IN  /\ Running /\ ArgumentsPushed
      /\ \/ /\ fits
            /\ sys' = <<f, Argv(f)>>
            /\ ram' = Pushed(t, <<r, 1>>)
            /\ sp' = t - 2
            /\ UNCHANGED <<bp, ip, status>>
         \/ ~ fits /\ VM_abort

Halt == Running /\ status' = "halt" /\ UNCHANGED <<ram, sp, bp, ip, sys>>

Next ==
  \/ VM_run
  \/ \E v \in Vals : Push(v)
  \/ \E n \in PopCounts : Popn(n)
  \/ \E req \in AllocaReqs : Alloca(req)
  \/ \E a \in sp .. (size - 1), v \in Vals : Store(a, v)
  \/ \E target \in Code \cup {len} : Jmp(target)
  \/ \E target \in Code : Call(target)
  \/ \E n \in RetCounts : Ret(n)
  \/ \E f \in NativeFns, r \in Vals : Ncall(f, r)
  \/ Halt

Spec == Init /\ [][Next]_vars
-----------------------------------------------------------------------------
(***************************************************************************)
(* Correctness.                                                            *)
(***************************************************************************)

(* The stack stays above the boundary the heap ends below, and the operands
   of a frame below its base. *)
StackClearOfHeap == sb < sp /\ sp <= bp /\ bp <= size

(* A call that was admitted can return: whatever a frame pushed and however
   many of those words it returns, unwinding leaves room for the results, so
   Ret never aborts. *)
ReturnNeverAborts == \A n \in RetCounts : Running /\ Owned(n) => RetFits(n)

(* The frame with base b, whose operands start at lo. *)
FrameAt(b, lo) ==
  [ret |-> IF b = size THEN 0 ELSE ram[b + 1],
   args |-> IF b = size THEN <<>> ELSE Words(b + 3, FrameTop(b)),
   opnds |-> Words(lo, b)]

(* The frames above the one with base b, the host's first, found by following
   the saved bp. *)
Callers[b \in 0 .. size] ==
  IF b = size \/ ram[b] \notin (b + 1) .. size
  THEN <<>>
  ELSE Append(Callers[ram[b]], FrameAt(ram[b], FrameTop(b)))

Frames == Append(Callers[bp], FrameAt(bp, sp))

Abstract ==
  INSTANCE CallSpec WITH frames <- Frames, Calls <- Accepts

(* Words, saved registers and counts implement procedure calls: a callee
   finds its arguments, a return resumes the caller where it called with the
   results on top of its operands, none of which was disturbed, and a native
   function is given the arguments in order. *)
ImplementsCallSpec == Abstract!Spec
=============================================================================
