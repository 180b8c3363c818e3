--------------------------- MODULE VMStackProofs ---------------------------
(***************************************************************************)
(* Proofs about the stack and calls of the virtual machine, VMStack.  The  *)
(* saved base pointers form a chain from bp to the end of the memory in    *)
(* which every frame ends, with its arguments, below the frame it returns  *)
(* to.  The guest writes only between the bases, so the chain survives     *)
(* every instruction, and unwinding a frame finds the room it needs.  The  *)
(* words of that memory implement the frames of CallSpec.                  *)
(***************************************************************************)
EXTENDS VMStack, SequenceTheorems, WellFoundedInduction, TLAPS

TypeOK ==
  /\ sp \in 0 .. size /\ bp \in 0 .. size
  /\ ram \in [sp .. (size - 1) -> Nat]
  /\ ip \in Code \cup {len}
  /\ status \in {"boot", "run", "halt", "abort"}

(* S holds the bases of the frames in memory m: each one's saved bp is the
   next of them, which the frame with its arguments does not reach, and the
   saved ip an address to return to, the end of the code for the host. *)
Chain(m, S) ==
  \A b \in S \ {size} :
    /\ m[b] \in S /\ b + 3 <= m[b] /\ b + 3 + m[b + 2] <= m[b]
    /\ \A c \in S : c <= b \/ m[b] <= c
    /\ m[b + 1] \in Code \cup {len}
    /\ m[b] = size => m[b + 1] = len

Chained(m, base) ==
  \E S \in SUBSET (base .. size) : base \in S /\ size \in S /\ Chain(m, S)

FramesChained == Chained(ram, bp)

(* Nothing runs once the host's frame is the current one. *)
HostWaits == bp = size /\ status = "run" => ip = len

IInv == TypeOK /\ StackClearOfHeap /\ FramesChained /\ HostWaits

(* A count is taken modulo the size of its type. *)
LEMMA CutCount ==
  ASSUME NEW n \in Nat
  PROVE  n % CB \in Nat /\ n % CB <= n
BY StackAssumption

(* The units of 2^mode bytes in a word. *)
LEMMA UnitsInWord ==
  ASSUME NEW m \in 0 .. 3
  PROVE  2 ^ (3 - m) \in Nat \ {0}
<1>1. \A k \in {0, 1, 2, 3} : 2 ^ k \in Nat \ {0}
  <2> SUFFICES ASSUME NEW k \in {0, 1, 2, 3} PROVE 2 ^ k \in Nat \ {0}
    OBVIOUS
  <2>1. k = 0 => 2 ^ k = 1
    BY SMT
  <2>2. k = 1 => 2 ^ k = 2
    BY SMT
  <2>3. k = 2 => 2 ^ k = 4
    BY SMT
  <2>4. k = 3 => 2 ^ k = 8
    BY SMT
  <2> QED
    BY <2>1, <2>2, <2>3, <2>4
<1>2. 3 - m \in {0, 1, 2, 3}
  OBVIOUS
<1> QED
  BY <1>1, <1>2, Zenon

(* The number of words Alloca reserves. *)
LEMMA AllocaCount ==
  ASSUME NEW req \in AllocaReqs
  PROVE  AllocaWords(req) \in Nat
<1>1. req.n \in Nat /\ req.mode \in 0 .. 3
  BY StackAssumption
<1>2. 2 ^ (3 - req.mode) \in Nat \ {0}
  BY <1>1, UnitsInWord
<1>3. req.n \div 2 ^ (3 - req.mode) \in Nat
  BY <1>1, <1>2
<1> QED
  BY <1>3, CutCount DEF AllocaWords

(* What pushing leaves in the memory. *)
LEMMA PushedWords ==
  ASSUME TypeOK, NEW p \in sp .. size, NEW w \in Seq(Nat), Len(w) <= p
  PROVE  /\ Pushed(p, w) \in [(p - Len(w)) .. (size - 1) -> Nat]
         /\ \A a \in p .. (size - 1) : Pushed(p, w)[a] = ram[a]
         /\ \A i \in 1 .. Len(w) : Pushed(p, w)[p - i] = w[i]
<1>1. size \in Nat /\ sp \in Nat /\ p \in Nat /\ Len(w) \in Nat
  BY StackAssumption DEF TypeOK
<1>2. \A a \in (p - Len(w)) .. (size - 1) :
         (IF a < p THEN w[p - a] ELSE ram[a]) \in Nat
  BY <1>1 DEF TypeOK
<1> QED
  BY <1>1, <1>2 DEF Pushed

LEMMA PoppedWords ==
  ASSUME TypeOK, NEW p \in sp .. size
  PROVE  /\ Popped(p) \in [p .. (size - 1) -> Nat]
         /\ \A a \in p .. (size - 1) : Popped(p)[a] = ram[a]
<1>1. size \in Nat /\ sp \in Nat
  BY StackAssumption DEF TypeOK
<1> QED
  BY <1>1 DEF Popped, TypeOK

(* The numbers the invariant is about. *)
LEMMA Numbers ==
  ASSUME IInv
  PROVE  /\ size \in Nat /\ sb \in Nat /\ sp \in Nat /\ bp \in Nat
         /\ sb < sp /\ sp <= bp /\ bp <= size
         /\ \A a \in sp .. (size - 1) : ram[a] \in Nat
BY StackAssumption DEF IInv, TypeOK, StackClearOfHeap

(* The words a frame in the chain keeps its caller in. *)
LEMMA FrameInMemory ==
  ASSUME IInv, NEW S \in SUBSET (bp .. size), Chain(ram, S), NEW b \in S \ {size}
  PROVE  /\ b \in bp .. size /\ b + 2 \in bp .. (size - 1) /\ b + 1 \in bp .. (size - 1)
         /\ b \in bp .. (size - 1)
         /\ ram[b] \in Nat /\ ram[b + 2] \in Nat /\ b + 3 + ram[b + 2] <= ram[b]
         /\ ram[b] \in S /\ ram[b] <= size /\ b < ram[b]
<1>1. b \in bp .. size /\ b < size /\ ram[b] \in bp .. size /\ ram[b] \in S
      /\ b + 3 <= ram[b] /\ b + 3 + ram[b + 2] <= ram[b]
  BY Numbers DEF Chain
<1>2. ram[b] \in Nat
  BY <1>1, Numbers
<1>3. ram[b + 2] \in Nat
  BY <1>1, <1>2, Numbers
<1> QED
  BY <1>1, <1>2, <1>3, Numbers

(* The frames stay chained when only operands and the arguments of the
   current frame are written. *)
LEMMA ChainKept ==
  ASSUME IInv, NEW m,
         \A a \in bp .. (size - 1) :
           m[a] = ram[a] \/ a \in (bp + 3) .. (bp + 2 + ram[bp + 2])
  PROVE  Chained(m, bp)
<1>1. PICK S \in SUBSET (bp .. size) : bp \in S /\ size \in S /\ Chain(ram, S)
  BY DEF IInv, FramesChained, Chained
<1>2. ASSUME NEW b \in S \ {size}
      PROVE  m[b] = ram[b] /\ m[b + 1] = ram[b + 1] /\ m[b + 2] = ram[b + 2]
  <2>1. /\ b \in bp .. (size - 1) /\ b + 1 \in bp .. (size - 1) /\ b + 2 \in bp .. (size - 1)
        /\ bp \in Nat
    BY <1>1, FrameInMemory, Numbers
  <2>2. CASE b = bp
    BY <2>1, <2>2
  <2>3. CASE b # bp
    <3>1. bp \in S \ {size}
      BY <1>1, <2>1
    <3>2. ram[bp] <= b /\ bp + 3 + ram[bp + 2] <= ram[bp] /\ ram[bp] \in Nat /\ ram[bp + 2] \in Nat
      BY <1>1, <2>1, <2>3, <3>1, FrameInMemory DEF Chain
    <3> QED
      BY <2>1, <3>2
  <2> QED
    BY <2>2, <2>3
<1>3. Chain(m, S)
  BY <1>1, <1>2 DEF Chain
<1> QED
  BY <1>1, <1>3 DEF Chained

(* A frame whose words are pushed below the current one joins the chain. *)
LEMMA FrameEntered ==
  ASSUME IInv, NEW m, NEW b \in Nat, b + 3 <= bp, m[b] = bp,
         b + 3 + m[b + 2] <= bp,
         m[b + 1] \in Code \cup {len}, bp = size => m[b + 1] = len,
         \A a \in bp .. (size - 1) : m[a] = ram[a]
  PROVE  Chained(m, b)
<1>1. PICK S \in SUBSET (bp .. size) : bp \in S /\ size \in S /\ Chain(ram, S)
  BY DEF IInv, FramesChained, Chained
<1> DEFINE T == S \cup {b}
<1>2. T \in SUBSET (b .. size) /\ b \in T /\ size \in T /\ b < bp
  BY <1>1, Numbers
<1>3. ASSUME NEW c \in S \ {size}
      PROVE  /\ m[c] = ram[c] /\ m[c + 1] = ram[c + 1] /\ m[c + 2] = ram[c + 2]
             /\ ram[c] \in S /\ c + 3 <= ram[c] /\ c + 3 + ram[c + 2] <= ram[c]
             /\ b <= c
  BY <1>1, <1>2, FrameInMemory, Numbers DEF Chain
<1>4. Chain(m, T)
  <2> SUFFICES ASSUME NEW c \in T \ {size}
               PROVE  /\ m[c] \in T /\ c + 3 <= m[c] /\ c + 3 + m[c + 2] <= m[c]
                      /\ \A d \in T : d <= c \/ m[c] <= d
                      /\ m[c + 1] \in Code \cup {len}
                      /\ m[c] = size => m[c + 1] = len
    BY DEF Chain
  <2>1. CASE c = b
    <3>1. \A d \in S : bp <= d
      BY <1>1, Numbers
    <3> QED
      BY <1>1, <1>2, <2>1, <3>1
  <2>2. CASE c \in S
    <3>1. c \in S \ {size}
      BY <2>2
    <3>2. b <= c /\ m[c] = ram[c] /\ m[c + 1] = ram[c + 1] /\ m[c + 2] = ram[c + 2]
          /\ ram[c] \in S
      BY <1>3, <3>1
    <3>3. \A d \in S : d <= c \/ ram[c] <= d
      BY <1>1, <3>1 DEF Chain
    <3> QED
      BY <1>1, <1>3, <3>1, <3>2, <3>3 DEF Chain
  <2> QED
    BY <2>1, <2>2
<1> QED
  BY <1>2, <1>4 DEF Chained

(* Without its innermost frame the chain begins at the saved bp. *)
LEMMA FrameLeft ==
  ASSUME IInv, bp # size, NEW m, \A a \in ram[bp] .. (size - 1) : m[a] = ram[a]
  PROVE  Chained(m, ram[bp])
<1>1. PICK S \in SUBSET (bp .. size) : bp \in S /\ size \in S /\ Chain(ram, S)
  BY DEF IInv, FramesChained, Chained
<1> DEFINE n == ram[bp]
           T == {c \in S : n <= c}
<1>2. n \in Nat /\ n \in S /\ n <= size /\ size \in Nat
  BY <1>1, FrameInMemory, Numbers
<1>3. T \in SUBSET (n .. size) /\ n \in T /\ size \in T
  <2>1. \A c \in S : c \in Nat /\ c <= size
    BY <1>1, Numbers
  <2>2. \A c \in T : c \in n .. size
    BY <1>2, <2>1
  <2>3. n \in T /\ size \in T
    BY <1>1, <1>2
  <2> QED
    BY <2>2, <2>3
<1>4. ASSUME NEW c \in T \ {size}
      PROVE  /\ m[c] = ram[c] /\ m[c + 1] = ram[c + 1] /\ m[c + 2] = ram[c + 2]
             /\ ram[c] \in T
  BY <1>1, <1>2, FrameInMemory, Numbers
<1>5. Chain(m, T)
  BY <1>1, <1>4 DEF Chain
<1> QED
  BY <1>3, <1>5 DEF Chained
(* A step that leaves the frames alone: words w are pushed at p, which is at
   most bp, over operands that are given up. *)
LEMMA OperandsPushed ==
  ASSUME IInv, NEW p \in sp .. bp, NEW w \in Seq(Nat), p - Len(w) > sb,
         ram' = Pushed(p, w), sp' = p - Len(w),
         bp' = bp, ip' = ip, status' = status
  PROVE  IInv'
<1>1. p \in Nat /\ p \in sp .. size /\ p <= bp /\ Len(w) \in Nat /\ Len(w) <= p
  BY Numbers
<1>2. /\ ram' \in [sp' .. (size - 1) -> Nat]
      /\ \A a \in p .. (size - 1) : ram'[a] = ram[a]
  BY <1>1, PushedWords DEF IInv
<1>3. sp' \in 0 .. size /\ sb < sp' /\ sp' <= bp'
  BY <1>1, Numbers
<1>4. TypeOK' /\ StackClearOfHeap'
  BY <1>2, <1>3, Numbers DEF IInv, TypeOK, StackClearOfHeap
<1>5. \A a \in bp .. (size - 1) : ram'[a] = ram[a]
  BY <1>1, <1>2, Numbers
<1>6. Chained(ram', bp)
  BY <1>5, ChainKept
<1> QED
  BY <1>4, <1>6 DEF IInv, FramesChained, Chained, Chain, HostWaits

(* A machine that stops, or does not start, keeps its memory. *)
LEMMA Stopped ==
  ASSUME IInv, status' \in {"abort", "halt"}, UNCHANGED <<ram, sp, bp, ip, sys>>
  PROVE  IInv'
BY DEF IInv, TypeOK, StackClearOfHeap, FramesChained, Chained, Chain, HostWaits

LEMMA PushKept ==
  ASSUME IInv, NEW v \in Vals, Push(v)
  PROVE  IInv'
<1>1. CASE ~ PushFits(sp, 1) /\ VM_abort
  BY <1>1, Stopped DEF VM_abort
<1>2. CASE PushFits(sp, 1) /\ ram' = Pushed(sp, <<v>>) /\ sp' = sp - 1
           /\ UNCHANGED <<bp, ip, status>>
  <2>1. <<v>> \in Seq(Nat) /\ Len(<<v>>) = 1
    BY StackAssumption
  <2>2. sp \in sp .. bp
    BY Numbers
  <2> QED
    BY <1>2, <2>1, <2>2, OperandsPushed DEF PushFits
<1> QED
  BY <1>1, <1>2 DEF Push

LEMMA PopnKept ==
  ASSUME IInv, NEW n \in PopCounts, Popn(n)
  PROVE  IInv'
<1> DEFINE p == sp + (n % CB)
<1>1. n \in Nat /\ n % CB \in Nat /\ n % CB <= n
  BY StackAssumption, CutCount
<1>2. /\ ram' = Popped(p) /\ sp' = p /\ bp' = bp /\ ip' = ip /\ status' = status
      /\ n <= bp - sp
  BY DEF Popn, Owned
<1>3. p \in Nat /\ p \in sp .. size /\ p <= bp
  BY <1>1, <1>2, Numbers
<1>4. /\ ram' \in [sp' .. (size - 1) -> Nat]
      /\ \A a \in p .. (size - 1) : ram'[a] = ram[a]
  BY <1>2, <1>3, PoppedWords DEF IInv
<1>5. TypeOK' /\ StackClearOfHeap'
  BY <1>2, <1>3, <1>4, Numbers DEF IInv, TypeOK, StackClearOfHeap
<1>6. \A a \in bp .. (size - 1) : ram'[a] = ram[a]
  BY <1>3, <1>4, Numbers
<1>7. Chained(ram', bp)
  BY <1>6, ChainKept
<1> QED
  BY <1>2, <1>5, <1>7 DEF IInv, FramesChained, Chained, Chain, HostWaits

LEMMA AllocaKept ==
  ASSUME IInv, NEW req \in AllocaReqs, Alloca(req)
  PROVE  IInv'
<1> DEFINE count == AllocaWords(req)
<1>1. CASE ~ PushFits(sp, count) /\ VM_abort
  BY <1>1, Stopped DEF VM_abort
<1>2. CASE /\ PushFits(sp, count)
           /\ \E junk \in [1 .. count -> Vals] : ram' = Pushed(sp, junk)
           /\ sp' = sp - count /\ UNCHANGED <<bp, ip, status>>
  <2>1. PICK junk \in [1 .. count -> Vals] : ram' = Pushed(sp, junk)
    BY <1>2
  <2>2. count \in Nat
    BY AllocaCount
  <2> HIDE DEF count
  <2>3. junk \in Seq(Nat) /\ Len(junk) = count
    <3>1. junk \in [1 .. count -> Nat]
      BY StackAssumption
    <3> QED
      BY <2>2, <3>1
  <2>4. sp \in sp .. bp
    BY Numbers
  <2> QED
    BY <1>2, <2>1, <2>3, <2>4, OperandsPushed DEF PushFits
<1> QED
  BY <1>1, <1>2 DEF Alloca
LEMMA StoreKept ==
  ASSUME IInv, NEW a \in sp .. (size - 1), NEW v \in Vals, Store(a, v)
  PROVE  IInv'
<1>1. /\ ram' = [ram EXCEPT ![a] = v] /\ sp' = sp /\ bp' = bp /\ ip' = ip /\ status' = status
      /\ a \in sp .. (bp - 1) \/ a \in (bp + 3) .. (bp + 2 + ram[bp + 2])
  BY DEF Store
<1>2. v \in Nat
  BY StackAssumption
<1>3. TypeOK' /\ StackClearOfHeap'
  BY <1>1, <1>2 DEF IInv, TypeOK, StackClearOfHeap
<1>4. \A x \in bp .. (size - 1) :
         ram'[x] = ram[x] \/ x \in (bp + 3) .. (bp + 2 + ram[bp + 2])
  BY <1>1, Numbers DEF IInv, TypeOK
<1>5. Chained(ram', bp)
  BY <1>4, ChainKept
<1> QED
  BY <1>1, <1>3, <1>5 DEF IInv, FramesChained, Chained, Chain, HostWaits

(* Only the host's frame ends at the end of the memory, so the guest that
   runs has a frame below it. *)
LEMMA GuestHasFrame ==
  ASSUME IInv, Running
  PROVE  /\ bp # size /\ bp < size
         /\ ram[bp] \in Nat /\ ram[bp] <= size
         /\ ram[bp + 1] \in Code \cup {len}
         /\ ram[bp + 2] \in Nat /\ bp + 3 + ram[bp + 2] <= ram[bp]
         /\ ram[bp] = size => ram[bp + 1] = len
<1>1. bp # size
  <2>1. ip < len /\ status = "run" /\ len \in Nat
    BY StackAssumption DEF Running
  <2> QED
    BY <2>1 DEF IInv, HostWaits
<1>2. PICK S \in SUBSET (bp .. size) : bp \in S /\ size \in S /\ Chain(ram, S)
  BY DEF IInv, FramesChained, Chained
<1>3. bp \in S \ {size}
  BY <1>1, <1>2
<1> QED
  BY <1>1, <1>2, <1>3, FrameInMemory, Numbers DEF Chain

LEMMA JmpKept ==
  ASSUME IInv, NEW target \in Code \cup {len}, Jmp(target)
  PROVE  IInv'
<1>1. ip' = target /\ ram' = ram /\ sp' = sp /\ bp' = bp /\ status' = status /\ Running
  BY DEF Jmp
<1>2. bp # size
  BY <1>1, GuestHasFrame
<1> QED
  BY <1>1, <1>2
     DEF IInv, TypeOK, StackClearOfHeap, FramesChained, Chained, Chain, HostWaits

(* The words a call pushes: the return address and bp, on top of the count
   the caller left there. *)
LEMMA CallKept ==
  ASSUME IInv, NEW target \in Code, Call(target)
  PROVE  IInv'
<1>1. CASE ~ PushFits(sp, 2) /\ VM_abort
  BY <1>1, Stopped DEF VM_abort
<1>2. CASE /\ PushFits(sp, 2)
           /\ ram' = Pushed(sp, <<ip, bp>>)
           /\ sp' = sp - 2 /\ bp' = sp' /\ ip' = target /\ UNCHANGED status
  <2> DEFINE w == <<ip, bp>>
             b == sp - 2
  <2>1. /\ Running /\ 1 <= bp - sp /\ 1 + ram[sp] <= bp - sp /\ sp < size
    BY DEF Call, ArgumentsPushed, Owned
  <2>2. /\ sb < b /\ b \in Nat /\ ram[sp] \in Nat /\ bp # size /\ ip \in Nat
        /\ ip \in Code \cup {len}
    BY <1>2, <2>1, Numbers, GuestHasFrame, StackAssumption DEF PushFits, IInv, TypeOK
  <2>3. w \in Seq(Nat) /\ Len(w) = 2 /\ w[1] = ip /\ w[2] = bp
    BY <2>2, Numbers
  <2>4. sp \in sp .. size /\ Len(w) <= sp
    BY <2>2, <2>3, Numbers
  <2>5. /\ ram' \in [b .. (size - 1) -> Nat]
        /\ \A x \in sp .. (size - 1) : ram'[x] = ram[x]
        /\ ram'[sp - 1] = ip /\ ram'[sp - 2] = bp
    <3>1. /\ Pushed(sp, w) \in [(sp - Len(w)) .. (size - 1) -> Nat]
          /\ \A x \in sp .. (size - 1) : Pushed(sp, w)[x] = ram[x]
          /\ \A i \in 1 .. Len(w) : Pushed(sp, w)[sp - i] = w[i]
      BY <2>3, <2>4, PushedWords DEF IInv
    <3>2. 1 \in 1 .. Len(w) /\ 2 \in 1 .. Len(w)
      BY <2>3
    <3> HIDE DEF w
    <3>3. Pushed(sp, w)[sp - 1] = ip /\ Pushed(sp, w)[sp - 2] = bp
      BY <2>3, <3>1, <3>2
    <3> QED
      BY <1>2, <2>3, <3>1, <3>3 DEF w
  <2>6. ram'[b] = bp /\ ram'[b + 1] = ip /\ ram'[b + 2] = ram[sp]
    <3>1. b + 1 = sp - 1 /\ b + 2 = sp /\ sp \in sp .. (size - 1)
      BY <2>1, Numbers
    <3> QED
      BY <2>5, <3>1
  <2>7. Chained(ram', b)
    <3>1. b + 3 <= bp /\ b + 3 + ram'[b + 2] <= bp
      BY <2>1, <2>2, <2>6, Numbers
    <3>2. \A a \in bp .. (size - 1) : ram'[a] = ram[a]
      BY <2>5, Numbers
    <3> HIDE DEF b
    <3> QED
      BY <2>2, <2>6, <3>1, <3>2, FrameEntered
  <2>8. TypeOK' /\ StackClearOfHeap'
    <3>1. sp' \in 0 .. size /\ bp' \in 0 .. size /\ sb < sp' /\ sp' <= bp' /\ bp' <= size
      BY <1>2, <2>2, Numbers
    <3>2. ram' \in [sp' .. (size - 1) -> Nat] /\ ip' \in Code \cup {len} /\ status' = status
      BY <1>2, <2>5
    <3> QED
      BY <3>1, <3>2 DEF IInv, TypeOK, StackClearOfHeap
  <2>9. bp' # size
    BY <1>2, <2>1, Numbers
  <2> QED
    BY <1>2, <2>7, <2>8, <2>9 DEF IInv, FramesChained, Chained, Chain, HostWaits
<1> QED
  BY <1>1, <1>2 DEF Call

(* A sequence appended to another, index by index. *)
LEMMA ConcatAt ==
  ASSUME NEW v \in Seq(Nat), NEW u \in Seq(Nat), NEW j \in 1 .. Len(u)
  PROVE  (v \o u)[Len(v) + j] = u[j]
OBVIOUS

LEMMA ConcatLen ==
  ASSUME NEW v \in Seq(Nat), NEW u \in Seq(Nat)
  PROVE  Len(v \o u) = Len(v) + Len(u)
OBVIOUS

(* Three words pushed after others. *)
LEMMA ThreeMore ==
  ASSUME NEW v \in Seq(Nat), NEW u \in Seq(Nat), Len(u) = 3
  PROVE  /\ v \o u \in Seq(Nat) /\ Len(v \o u) = Len(v) + 3
         /\ (v \o u)[Len(v) + 1] = u[1]
         /\ (v \o u)[Len(v) + 2] = u[2]
         /\ (v \o u)[Len(v) + 3] = u[3]
<1>1. v \o u \in Seq(Nat)
  OBVIOUS
<1>2. Len(v \o u) = Len(v) + 3
  BY ConcatLen, Zenon
<1>3. 1 \in 1 .. Len(u) /\ 2 \in 1 .. Len(u) /\ 3 \in 1 .. Len(u)
  OBVIOUS
<1>4. \A j \in 1 .. Len(u) : (v \o u)[Len(v) + j] = u[j]
  BY ConcatAt, Zenon
<1> QED
  BY <1>1, <1>2, <1>3, <1>4, Zenon

LEMMA VM_runKept ==
  ASSUME IInv, VM_run
  PROVE  IInv'
<1>1. PICK argc \in Argc : \E argv \in [1 .. argc -> Vals] :
       \/ /\ PushFits(sp, argc + 3)
          /\ ram' = Pushed(sp, argv \o <<argc, len, bp>>)
          /\ sp' = sp - (argc + 3) /\ bp' = sp'
          /\ status' = "run" /\ UNCHANGED <<ip, sys>>
       \/ VM_abort
  BY DEF VM_run
<1>2. PICK argv \in [1 .. argc -> Vals] :
       \/ /\ PushFits(sp, argc + 3)
          /\ ram' = Pushed(sp, argv \o <<argc, len, bp>>)
          /\ sp' = sp - (argc + 3) /\ bp' = sp'
          /\ status' = "run" /\ UNCHANGED <<ip, sys>>
       \/ VM_abort
  BY <1>1
<1>3. CASE VM_abort
  BY <1>3, Stopped DEF VM_abort
<1>4. CASE /\ PushFits(sp, argc + 3)
           /\ ram' = Pushed(sp, argv \o <<argc, len, bp>>)
           /\ sp' = sp - (argc + 3) /\ bp' = sp'
           /\ status' = "run" /\ UNCHANGED <<ip, sys>>
  <2> DEFINE u == <<argc, len, bp>>
             w == argv \o u
             b == sp - (argc + 3)
  <2>1. argc \in Nat /\ sb < b /\ b \in Nat /\ len \in Nat
    BY <1>4, Numbers, StackAssumption DEF PushFits
  <2>2. argv \in Seq(Nat) /\ Len(argv) = argc
    <3>1. argv \in [1 .. argc -> Nat]
      BY StackAssumption
    <3> QED
      BY <2>1, <3>1
  <2>3. u \in Seq(Nat) /\ Len(u) = 3 /\ u[1] = argc /\ u[2] = len /\ u[3] = bp
    BY <2>1, Numbers
  <2> HIDE DEF u
  <2>4. w \in Seq(Nat) /\ Len(w) = argc + 3
        /\ w[argc + 1] = argc /\ w[argc + 2] = len /\ w[argc + 3] = bp
    <3>1. /\ argv \o u \in Seq(Nat) /\ Len(argv \o u) = Len(argv) + 3
          /\ (argv \o u)[Len(argv) + 1] = u[1]
          /\ (argv \o u)[Len(argv) + 2] = u[2]
          /\ (argv \o u)[Len(argv) + 3] = u[3]
      BY <2>2, <2>3, ThreeMore, Zenon
    <3> QED
      BY <2>2, <2>3, <3>1, Zenon
  <2> HIDE DEF w
  <2>5. sp \in sp .. size /\ Len(w) <= sp
    BY <2>1, <2>4, Numbers
  <2>6. /\ Pushed(sp, w) \in [(sp - Len(w)) .. (size - 1) -> Nat]
        /\ \A x \in sp .. (size - 1) : Pushed(sp, w)[x] = ram[x]
        /\ \A i \in 1 .. Len(w) : Pushed(sp, w)[sp - i] = w[i]
    BY <2>4, <2>5, PushedWords DEF IInv
  <2>7. ram' = Pushed(sp, w)
    BY <1>4 DEF w, u
  <2>8. /\ ram' \in [b .. (size - 1) -> Nat]
        /\ \A x \in sp .. (size - 1) : ram'[x] = ram[x]
        /\ ram'[b] = bp /\ ram'[b + 1] = len /\ ram'[b + 2] = argc
    <3>1. /\ argc + 1 \in 1 .. Len(w) /\ argc + 2 \in 1 .. Len(w) /\ argc + 3 \in 1 .. Len(w)
      BY <2>1, <2>4
    <3>2. Pushed(sp, w)[sp - (argc + 1)] = argc /\ Pushed(sp, w)[sp - (argc + 2)] = len
          /\ Pushed(sp, w)[sp - (argc + 3)] = bp
      BY <2>4, <2>6, <3>1
    <3>3. b + 1 = sp - (argc + 2) /\ b + 2 = sp - (argc + 1)
      BY <2>1, Numbers
    <3> QED
      BY <2>4, <2>6, <2>7, <3>2, <3>3
  <2>9. Chained(ram', b)
    <3>1. b + 3 <= bp /\ b + 3 + ram'[b + 2] <= bp
      BY <2>1, <2>8, Numbers
    <3>2. \A a \in bp .. (size - 1) : ram'[a] = ram[a]
      BY <2>8, Numbers
    <3> HIDE DEF b
    <3> QED
      BY <2>1, <2>8, <3>1, <3>2, FrameEntered
  <2>10. TypeOK' /\ StackClearOfHeap'
    <3>1. sp' \in 0 .. size /\ bp' \in 0 .. size /\ sb < sp' /\ sp' <= bp' /\ bp' <= size
      BY <1>4, <2>1, Numbers
    <3>2. ram' \in [sp' .. (size - 1) -> Nat] /\ ip' = ip /\ status' = "run"
      BY <1>4, <2>8
    <3> QED
      BY <3>1, <3>2 DEF IInv, TypeOK, StackClearOfHeap
  <2>11. bp' # size
    BY <1>4, <2>1, Numbers
  <2> QED
    BY <1>4, <2>9, <2>10, <2>11 DEF IInv, FramesChained, Chained, Chain, HostWaits
<1> QED
  BY <1>2, <1>3, <1>4

(* A return of n words the frame owns: where they are copied to, and that
   none of the pops and pushes fails. *)
LEMMA ReturnFits ==
  ASSUME IInv, Running, NEW n \in Nat, Owned(n)
  PROVE  LET t == FrameTop(bp) IN
         /\ RetFits(n)
         /\ n % CB \in Nat /\ sp + (n % CB) <= bp
         /\ t \in Nat /\ bp + 3 <= t /\ t <= ram[bp]
         /\ sb < t - (n % CB) - 1
<1> DEFINE t == FrameTop(bp)
           count == n % CB
<1>1. count \in Nat /\ count <= n /\ n <= bp - sp
  BY CutCount DEF Owned
<1>2. ram[bp + 2] % CB \in Nat /\ ram[bp + 2] % CB <= ram[bp + 2]
  BY GuestHasFrame, CutCount
<1>3. t \in Nat /\ bp + 3 <= t /\ t <= ram[bp]
  BY <1>2, GuestHasFrame, Numbers DEF FrameTop
<1> HIDE DEF t, count
<1>4. sp + count <= bp /\ bp + 3 <= size /\ t <= size /\ sb < t - count - 1
  BY <1>1, <1>3, GuestHasFrame, Numbers
<1>5. RetFits(n)
  BY <1>1, <1>3, <1>4, Numbers DEF RetFits, PopFits, PushFits, t, count
<1> QED
  BY <1>1, <1>3, <1>4, <1>5 DEF t, count

(* The words memcpy leaves, whatever order it copies them in. *)
LEMMA CopiedWords ==
  ASSUME TypeOK, NEW n \in Nat, sp + n <= size, NEW dst \in Int,
         NEW w \in Copies(sp, dst, n)
  PROVE  w \in Seq(Nat) /\ Len(w) = n
<1> DEFINE right == Words(sp, sp + n)
<1>1. right \in [1 .. n -> Nat]
  BY StackAssumption DEF Words, TypeOK
<1>2. w \in [1 .. n -> Nat]
  <2>1. CASE dst < sp + n
    <3>1. PICK c \in [1 .. n -> 1 .. n] : w = [i \in 1 .. n |-> right[c[i]]]
      BY <2>1 DEF Copies
    <3> HIDE DEF right
    <3> QED
      BY <1>1, <3>1
  <2>2. CASE ~(dst < sp + n)
    BY <1>1, <2>2 DEF Copies
  <2> QED
    BY <2>1, <2>2
<1> QED
  BY <1>2

LEMMA RetKept ==
  ASSUME IInv, NEW n \in RetCounts, Ret(n)
  PROVE  IInv'
<1> DEFINE t == FrameTop(bp)
           count == n % CB
<1>1. n \in Nat /\ Running /\ Owned(n)
  BY StackAssumption DEF Ret
<1>2. /\ RetFits(n) /\ count \in Nat /\ sp + count <= bp
      /\ t \in Nat /\ bp + 3 <= t /\ t <= ram[bp] /\ sb < t - count - 1
  BY <1>1, ReturnFits
<1>3. /\ \E results \in Copies(sp, t - count, count) : ram' = Pushed(t, results \o <<n>>)
      /\ sp' = t - count - 1 /\ bp' = ram[bp] /\ ip' = ram[bp + 1] /\ status' = status
  BY <1>2 DEF Ret
<1> HIDE DEF t, count
<1>4. PICK results \in Copies(sp, t - count, count) : ram' = Pushed(t, results \o <<n>>)
  BY <1>3
<1>5. results \in Seq(Nat) /\ Len(results) = count
  BY <1>2, <1>4, CopiedWords, Numbers DEF IInv
<1> DEFINE w == results \o <<n>>
<1>6. w \in Seq(Nat) /\ Len(w) = count + 1
  BY <1>1, <1>2, <1>5
<1> HIDE DEF w
<1>7. t \in sp .. size /\ Len(w) <= t /\ ram[bp] \in Nat /\ ram[bp] <= size
      /\ sp' = t - Len(w) /\ bp < size
  <2>1. ram[bp] \in Nat /\ ram[bp] <= size /\ bp < size
    BY <1>1, GuestHasFrame
  <2>2. sp' = t - Len(w)
    BY <1>2, <1>3, <1>6
  <2> QED
    BY <1>2, <1>6, <2>1, <2>2, Numbers, SMTT(40)
<1>8. /\ ram' \in [sp' .. (size - 1) -> Nat]
      /\ \A a \in t .. (size - 1) : ram'[a] = ram[a]
  <2>1. ram' = Pushed(t, w)
    BY <1>4 DEF w
  <2> QED
    BY <1>6, <1>7, <2>1, PushedWords DEF IInv
<1>9. \A a \in ram[bp] .. (size - 1) : ram'[a] = ram[a]
  BY <1>2, <1>7, <1>8
<1>10. Chained(ram', ram[bp])
  BY <1>1, <1>9, FrameLeft, GuestHasFrame
<1>11. TypeOK' /\ StackClearOfHeap'
  <2>1. sp' \in 0 .. size /\ sb < sp' /\ sp' <= bp' /\ bp' \in 0 .. size /\ bp' <= size
    BY <1>2, <1>3, <1>7, Numbers, SMTT(40)
  <2>2. ip' \in Code \cup {len}
    BY <1>1, <1>3, GuestHasFrame
  <2> QED
    BY <1>3, <1>8, <2>1, <2>2 DEF IInv, TypeOK, StackClearOfHeap
<1>12. HostWaits'
  BY <1>1, <1>3, GuestHasFrame DEF HostWaits
<1> QED
  BY <1>3, <1>10, <1>11, <1>12 DEF IInv, FramesChained, Chained, Chain

LEMMA NcallKept ==
  ASSUME IInv, NEW f \in NativeFns, NEW r \in Vals, Ncall(f, r)
  PROVE  IInv'
<1> DEFINE nargs == ram[sp]
           t == FrameTop(sp - 2)
           fits == PushFits(sp, 2) /\ Accepts(f, nargs)
<1>1. CASE ~fits /\ VM_abort
  BY <1>1, Stopped DEF VM_abort
<1>2. CASE fits /\ ram' = Pushed(t, <<r, 1>>) /\ sp' = t - 2 /\ UNCHANGED <<bp, ip, status>>
  <2>1. /\ Running /\ 1 <= bp - sp /\ 1 + nargs <= bp - sp /\ sp < size
    BY DEF Ncall, ArgumentsPushed, Owned
  <2>2. nargs \in Nat /\ nargs % CB \in Nat /\ nargs % CB <= nargs
    BY <2>1, Numbers, CutCount
  <2>3. t = sp + 1 + (nargs % CB)
    <3>1. sp - 2 + 2 = sp /\ sp - 2 + 3 = sp + 1
      BY Numbers
    <3> QED
      BY <2>2, <3>1, Numbers DEF FrameTop
  <2>4. sb < sp - 2
    BY <1>2 DEF PushFits
  <2>5. <<r, 1>> \in Seq(Nat) /\ Len(<<r, 1>>) = 2
    BY StackAssumption
  <2> HIDE DEF t, nargs
  <2>6. t \in sp .. bp /\ t - 2 > sb
    BY <2>1, <2>2, <2>3, <2>4, Numbers
  <2> QED
    BY <1>2, <2>5, <2>6, OperandsPushed
<1> QED
  BY <1>1, <1>2 DEF Ncall

LEMMA Initially == Init => IInv
<1> SUFFICES ASSUME Init PROVE IInv
  OBVIOUS
<1>1. TypeOK /\ StackClearOfHeap /\ HostWaits
  BY StackAssumption DEF Init, TypeOK, StackClearOfHeap, HostWaits
<1>2. {size} \in SUBSET (bp .. size) /\ Chain(ram, {size})
  BY StackAssumption DEF Init, Chain
<1>3. bp \in {size} /\ size \in {size}
  BY DEF Init
<1> QED
  BY <1>1, <1>2, <1>3 DEF IInv, FramesChained, Chained

LEMMA Inductive == IInv /\ [Next]_vars => IInv'
<1> SUFFICES ASSUME IInv, [Next]_vars PROVE IInv'
  OBVIOUS
<1>1. CASE VM_run
  BY <1>1, VM_runKept
<1>2. ASSUME NEW v \in Vals, Push(v) PROVE IInv'
  BY <1>2, PushKept
<1>3. ASSUME NEW n \in PopCounts, Popn(n) PROVE IInv'
  BY <1>3, PopnKept
<1>4. ASSUME NEW req \in AllocaReqs, Alloca(req) PROVE IInv'
  BY <1>4, AllocaKept
<1>5. ASSUME NEW a \in sp .. (size - 1), NEW v \in Vals, Store(a, v) PROVE IInv'
  BY <1>5, StoreKept
<1>6. ASSUME NEW target \in Code \cup {len}, Jmp(target) PROVE IInv'
  BY <1>6, JmpKept
<1>7. ASSUME NEW target \in Code, Call(target) PROVE IInv'
  BY <1>7, CallKept
<1>8. ASSUME NEW n \in RetCounts, Ret(n) PROVE IInv'
  BY <1>8, RetKept
<1>9. ASSUME NEW f \in NativeFns, NEW r \in Vals, Ncall(f, r) PROVE IInv'
  BY <1>9, NcallKept
<1>10. CASE Halt
  BY <1>10, Stopped DEF Halt
<1>11. CASE UNCHANGED vars
  BY <1>11 DEF vars, IInv, TypeOK, StackClearOfHeap, FramesChained, Chained, Chain, HostWaits
<1> QED
  BY <1>1, <1>2, <1>3, <1>4, <1>5, <1>6, <1>7, <1>8, <1>9, <1>10, <1>11 DEF Next

(* Registers and stack words keep their types, ip is always an instruction or
   the end of the code, and the saved base pointers chain every frame to the
   one it returns to. *)
THEOREM StackInvariant == Spec => []IInv
BY Initially, Inductive, PTL DEF Spec

(* Whatever the guest pushes, allocates, calls and returns, for every size of
   memory and every count, sp stays above the heap and below the frame. *)
THEOREM StackSafe == Spec => []StackClearOfHeap
<1>1. IInv => StackClearOfHeap
  BY DEF IInv
<1> QED
  BY <1>1, StackInvariant, PTL

(* Ret never aborts for a guest that returns only words it pushed: the frame
   it unwinds makes room for the results and their count. *)
THEOREM ReturnsSafe == Spec => []ReturnNeverAborts
<1>1. IInv => ReturnNeverAborts
  BY ReturnFits, StackAssumption DEF ReturnNeverAborts
<1> QED
  BY <1>1, StackInvariant, PTL

(***************************************************************************)
(* The refinement.  The frames a memory m holds, stated for m as a         *)
(* parameter to speak of the memory before and after a step.               *)
(***************************************************************************)
WordsIn(m, lo, hi) == [i \in 1 .. (hi - lo) |-> m[hi - i]]
TopIn(m, b) == b + 3 + (m[b + 2] % CB)
FrameIn(m, b, lo) ==
  [ret |-> IF b = size THEN 0 ELSE m[b + 1],
   args |-> IF b = size THEN <<>> ELSE WordsIn(m, b + 3, TopIn(m, b)),
   opnds |-> WordsIn(m, lo, b)]

(* f gives the frames above each base. *)
Above(m, f, b) ==
  IF b = size \/ m[b] \notin (b + 1) .. size
  THEN <<>>
  ELSE Append(f[m[b]], FrameIn(m, m[b], TopIn(m, b)))
Climbs(m, f) == f = [b \in 0 .. size |-> Above(m, f, b)]
CallersIn(m) == CHOOSE f : Climbs(m, f)
FramesIn(m, b, lo) == Append(CallersIn(m)[b], FrameIn(m, b, lo))

LEMMA FramesAre == Frames = FramesIn(ram, bp, sp) /\ Frames' = FramesIn(ram', bp', sp')
<1>1. Callers = CallersIn(ram)
  BY Zenon DEF Callers, CallersIn, Climbs, Above, FrameIn, FrameAt, WordsIn, Words, TopIn, FrameTop
<1>2. Callers' = CallersIn(ram')
  BY Zenon DEF Callers, CallersIn, Climbs, Above, FrameIn, FrameAt, WordsIn, Words, TopIn, FrameTop
<1>3. FrameAt(bp, sp) = FrameIn(ram, bp, sp) /\ FrameAt(bp, sp)' = FrameIn(ram', bp', sp')
  BY Zenon DEF FrameIn, FrameAt, WordsIn, Words, TopIn, FrameTop
<1> QED
  BY <1>1, <1>2, <1>3, Zenon DEF Frames, FramesIn

LEMMA NatLeast ==
  ASSUME NEW T, T \subseteq Nat, T # {}
  PROVE  \E x \in T : \A y \in T : x <= y
<1>1. PICK x \in T : \A y \in T : ~ (<<y, x>> \in OpToRel(<, Nat))
  BY NatLessThanWellFounded, WFMin
<1>2. \A y \in T : ~ (<<y, x>> \in {ss \in Nat \X Nat : ss[1] < ss[2]})
  BY <1>1 DEF OpToRel
<1>3. ASSUME NEW y \in T PROVE x <= y
  <2>1. x \in Nat /\ y \in Nat
    OBVIOUS
  <2>2. y < x => <<y, x>> \in {ss \in Nat \X Nat : ss[1] < ss[2]}
    BY <2>1
  <2> QED
    BY <1>2, <2>1, <2>2
<1> QED
  BY <1>3

(* What holds of a base when it holds of all above it holds of every base. *)
LEMMA FromTheHost ==
  ASSUME NEW B, B \subseteq 0 .. size, NEW T,
         \A b \in B : (\A c \in B : b < c => c \in T) => b \in T
  PROVE  B \subseteq T
<1> DEFINE Bad == {b \in B : b \notin T}
           R == {size - b : b \in Bad}
<1> SUFFICES ASSUME Bad # {} PROVE FALSE
  OBVIOUS
<1>1. size \in Nat /\ \A b \in B : b \in Nat /\ b <= size
  BY StackAssumption
<1>2. R \subseteq Nat /\ R # {}
  <2>1. \A b \in Bad : size - b \in Nat
    BY <1>1
  <2>2. PICK b \in Bad : TRUE
    OBVIOUS
  <2>3. size - b \in R
    BY <2>2
  <2> QED
    BY <2>1, <2>3
<1>3. PICK x \in R : \A y \in R : x <= y
  BY <1>2, NatLeast
<1>4. PICK b \in Bad : x = size - b
  OBVIOUS
<1>5. PICK c \in B : b < c /\ c \notin T
  BY <1>4
<1>6. size - c \in R
  BY <1>5
<1>7. size - b <= size - c
  BY <1>3, <1>4, <1>6
<1> QED
  BY <1>1, <1>4, <1>5, <1>7

(* The recursion that finds the frames is defined: it goes up. *)
ClimbsFrom(m, f, p) == \A b \in p .. size : f[b] = Above(m, f, b)

LEMMA AboveSame ==
  ASSUME NEW m, NEW f, NEW g, NEW b, m[b] \in (b + 1) .. size => f[m[b]] = g[m[b]]
  PROVE  Above(m, f, b) = Above(m, g, b)
BY Zenon DEF Above

LEMMA ClimbsFurther ==
  ASSUME NEW m, NEW p \in 0 .. size, NEW f, ClimbsFrom(m, f, p + 1)
  PROVE  \E g : ClimbsFrom(m, g, p)
<1>0. size \in Nat /\ p \in Nat
  BY StackAssumption
<1>1. PICK g : g = [b \in 0 .. size |-> IF b > p THEN f[b] ELSE Above(m, f, b)]
  OBVIOUS
<1>2. ASSUME NEW b \in (p + 1) .. size PROVE g[b] = f[b]
  BY <1>0, <1>1
<1>3. ASSUME NEW b \in p .. size PROVE g[b] = Above(m, g, b)
  <2>1. g[b] = Above(m, f, b)
    <3>1. CASE b = p
      BY <1>0, <1>1, <3>1
    <3>2. CASE b # p
      <4>1. b \in (p + 1) .. size
        BY <1>0, <3>2
      <4> QED
        BY <1>2, <4>1 DEF ClimbsFrom
    <3> QED
      BY <3>1, <3>2
  <2>2. m[b] \in (b + 1) .. size => f[m[b]] = g[m[b]]
    <3> SUFFICES ASSUME m[b] \in (b + 1) .. size PROVE f[m[b]] = g[m[b]]
      OBVIOUS
    <3>1. m[b] \in (p + 1) .. size
      BY <1>0
    <3> QED
      BY <1>2, <3>1
  <2>3. Above(m, f, b) = Above(m, g, b)
    BY <2>2, AboveSame
  <2> QED
    BY <2>1, <2>3
<1> QED
  BY <1>3 DEF ClimbsFrom

LEMMA CallersExist ==
  ASSUME NEW m
  PROVE  \E f : Climbs(m, f)
<1>0. size \in Nat
  BY StackAssumption
<1> DEFINE T == {p \in 0 .. size : \E f : ClimbsFrom(m, f, p)}
<1>1. ASSUME NEW p \in 0 .. size, \A c \in 0 .. size : p < c => c \in T PROVE p \in T
  <2>1. \E f : ClimbsFrom(m, f, p + 1)
    <3>1. CASE p = size
      <4>1. ClimbsFrom(m, {}, p + 1)
        BY <1>0, <3>1 DEF ClimbsFrom
      <4> QED
        BY <4>1
    <3>2. CASE p # size
      <4>1. p + 1 \in 0 .. size /\ p < p + 1
        BY <1>0, <3>2
      <4> QED
        BY <1>1, <4>1
    <3> QED
      BY <3>1, <3>2
  <2>2. \E g : ClimbsFrom(m, g, p)
    BY <2>1, ClimbsFurther
  <2> QED
    BY <2>2
<1> HIDE DEF T
<1>2. 0 .. size \subseteq T
  BY <1>1, FromTheHost
<1>3. 0 \in T
  BY <1>0, <1>2
<1>4. PICK f : ClimbsFrom(m, f, 0)
  BY <1>3 DEF T
<1>5. PICK g : g = [b \in 0 .. size |-> f[b]]
  OBVIOUS
<1>6. \A b \in 0 .. size : g[b] = f[b]
  BY <1>5
<1>7. ASSUME NEW b \in 0 .. size PROVE g[b] = Above(m, g, b)
  <2>1. m[b] \in (b + 1) .. size => f[m[b]] = g[m[b]]
    <3> SUFFICES ASSUME m[b] \in (b + 1) .. size PROVE f[m[b]] = g[m[b]]
      OBVIOUS
    <3>1. m[b] \in 0 .. size
      BY <1>0
    <3> QED
      BY <1>6, <3>1
  <2>2. Above(m, f, b) = Above(m, g, b)
    BY <2>1, AboveSame
  <2> QED
    BY <1>4, <1>6, <2>2 DEF ClimbsFrom
<1>8. g = [b \in 0 .. size |-> Above(m, g, b)]
  BY <1>5, <1>7, Zenon
<1> QED
  BY <1>8 DEF Climbs

LEMMA CallersAre ==
  ASSUME NEW m, NEW b \in 0 .. size
  PROVE  CallersIn(m)[b] = Above(m, CallersIn(m), b)
<1> DEFINE F == CallersIn(m)
<1>1. Climbs(m, F)
  BY CallersExist, Zenon DEF CallersIn
<1> HIDE DEF F
<1>2. F[b] = Above(m, F, b)
  BY <1>1, Zenon DEF Climbs
<1> QED
  BY <1>2 DEF F

(* The frames of a memory that holds the words from lo on, S its bases. *)
FrameSet == [ret : Nat, args : Seq(Nat), opnds : Seq(Nat)]
Held(m, lo, S) ==
  /\ lo \in 0 .. size /\ m \in [lo .. (size - 1) -> Nat]
  /\ S \subseteq lo .. size /\ size \in S /\ Chain(m, S)

LEMMA HeldFrame ==
  ASSUME NEW m, NEW lo, NEW S, Held(m, lo, S), NEW b \in S \ {size}
  PROVE  /\ size \in Nat /\ lo \in Nat /\ b \in Nat /\ lo <= b /\ b + 2 < size
         /\ m[b] \in S /\ m[b] \in Nat /\ m[b] \in (b + 1) .. size
         /\ m[b + 1] \in Nat /\ m[b + 2] \in Nat
         /\ TopIn(m, b) \in Nat /\ b + 3 <= TopIn(m, b) /\ TopIn(m, b) <= m[b]
<1>1. /\ size \in Nat /\ lo \in Nat /\ lo <= size /\ \A a \in lo .. (size - 1) : m[a] \in Nat
      /\ \A c \in S : c \in Nat /\ lo <= c /\ c <= size
  BY StackAssumption DEF Held
<1>2. m[b] \in S /\ b + 3 <= m[b] /\ b + 3 + m[b + 2] <= m[b]
  BY DEF Held, Chain
<1>3. /\ b \in Nat /\ lo <= b /\ m[b] \in Nat /\ m[b] <= size
  BY <1>1, <1>2
<1>4. b + 2 < size /\ m[b] \in (b + 1) .. size
  BY <1>1, <1>2, <1>3
<1>5. m[b + 1] \in Nat /\ m[b + 2] \in Nat
  BY <1>1, <1>3, <1>4
<1>6. m[b + 2] % CB \in Nat /\ m[b + 2] % CB <= m[b + 2]
  BY <1>5, CutCount
<1>7. TopIn(m, b) \in Nat /\ b + 3 <= TopIn(m, b) /\ TopIn(m, b) <= m[b]
  BY <1>2, <1>3, <1>5, <1>6 DEF TopIn
<1> QED
  BY <1>1, <1>2, <1>3, <1>4, <1>5, <1>7

LEMMA WordsAre ==
  ASSUME NEW m, NEW lo \in Nat, m \in [lo .. (size - 1) -> Nat],
         NEW x \in Nat, NEW y \in Nat, lo <= x, x <= y, y <= size
  PROVE  /\ WordsIn(m, x, y) \in Seq(Nat) /\ Len(WordsIn(m, x, y)) = y - x
         /\ \A i \in 1 .. (y - x) : WordsIn(m, x, y)[i] = m[y - i]
<1>0. size \in Nat
  BY StackAssumption
<1>1. \A i \in 1 .. (y - x) : y - i \in lo .. (size - 1)
  BY <1>0
<1>2. \A i \in 1 .. (y - x) : m[y - i] \in Nat
  BY <1>1
<1>3. WordsIn(m, x, y) \in [1 .. (y - x) -> Nat]
  BY <1>2 DEF WordsIn
<1>4. y - x \in Nat
  OBVIOUS
<1>5. \A i \in 1 .. (y - x) : WordsIn(m, x, y)[i] = m[y - i]
  BY DEF WordsIn
<1>6. \A n \in Nat : \A w \in [1 .. n -> Nat] : w \in Seq(Nat) /\ Len(w) = n
  OBVIOUS
<1> QED
  BY <1>3, <1>4, <1>5, <1>6, Zenon

LEMMA FrameType ==
  ASSUME NEW m, NEW lo, NEW S, Held(m, lo, S), NEW b \in S, NEW l \in lo .. b
  PROVE  FrameIn(m, b, l) \in FrameSet
<1>1. /\ size \in Nat /\ lo \in Nat /\ b \in Nat /\ b <= size /\ l \in Nat /\ lo <= l /\ l <= b
      /\ m \in [lo .. (size - 1) -> Nat]
  BY StackAssumption DEF Held
<1>2. WordsIn(m, l, b) \in Seq(Nat)
  BY <1>1, WordsAre
<1>3. CASE b = size
  <2>1. 0 \in Nat /\ <<>> \in Seq(Nat)
    OBVIOUS
  <2> QED
    BY <1>2, <1>3, <2>1, Zenon DEF FrameIn, FrameSet
<1>4. CASE b # size
  <2>1. /\ lo <= b /\ m[b + 1] \in Nat /\ TopIn(m, b) \in Nat
        /\ b + 3 <= TopIn(m, b) /\ TopIn(m, b) <= m[b] /\ m[b] \in (b + 1) .. size
    BY <1>4, HeldFrame
  <2>2. b + 3 \in Nat /\ lo <= b + 3 /\ TopIn(m, b) <= size
    BY <1>1, <2>1
  <2>3. WordsIn(m, b + 3, TopIn(m, b)) \in Seq(Nat)
    BY <1>1, <2>1, <2>2, WordsAre
  <2> QED
    BY <1>2, <1>4, <2>1, <2>3, Zenon DEF FrameIn, FrameSet
<1> QED
  BY <1>3, <1>4

LEMMA CallersUp ==
  ASSUME NEW m, NEW lo, NEW S, Held(m, lo, S), NEW b \in S \ {size}
  PROVE  CallersIn(m)[b] = Append(CallersIn(m)[m[b]], FrameIn(m, m[b], TopIn(m, b)))
<1>1. b \in 0 .. size /\ m[b] \in (b + 1) .. size
  BY HeldFrame
<1> QED
  BY <1>1, CallersAre, Zenon DEF Above

LEMMA CallersOfHost ==
  ASSUME NEW m
  PROVE  CallersIn(m)[size] = <<>>
<1>1. size \in 0 .. size
  BY StackAssumption
<1> QED
  BY <1>1, CallersAre, Zenon DEF Above

LEMMA CallersType ==
  ASSUME NEW m, NEW lo, NEW S, Held(m, lo, S)
  PROVE  \A b \in S : CallersIn(m)[b] \in Seq(FrameSet)
<1> DEFINE T == {b \in S : CallersIn(m)[b] \in Seq(FrameSet)}
<1>1. ASSUME NEW b \in S, \A c \in S : b < c => c \in T PROVE b \in T
  <2>1. CASE b = size
    <3>1. CallersIn(m)[b] = <<>>
      BY <2>1, CallersOfHost
    <3>2. <<>> \in Seq(FrameSet)
      OBVIOUS
    <3> QED
      BY <3>1, <3>2, Zenon
  <2>2. CASE b # size
    <3>1. /\ m[b] \in S /\ m[b] \in (b + 1) .. size /\ b \in Nat /\ m[b] \in Nat
          /\ TopIn(m, b) \in Nat /\ b + 3 <= TopIn(m, b) /\ TopIn(m, b) <= m[b] /\ lo \in Nat
          /\ lo <= b
      BY <2>2, HeldFrame
    <3>2. CallersIn(m)[m[b]] \in Seq(FrameSet)
      BY <1>1, <3>1
    <3>3. FrameIn(m, m[b], TopIn(m, b)) \in FrameSet
      <4>1. TopIn(m, b) \in lo .. m[b]
        BY <3>1
      <4> QED
        BY <3>1, <4>1, FrameType
    <3>4. Append(CallersIn(m)[m[b]], FrameIn(m, m[b], TopIn(m, b))) \in Seq(FrameSet)
      BY <3>2, <3>3, AppendProperties
    <3> QED
      BY <2>2, <3>4, CallersUp
  <2> QED
    BY <2>1, <2>2
<1> HIDE DEF T
<1>2. S \subseteq 0 .. size
  BY StackAssumption DEF Held
<1>3. S \subseteq T
  BY <1>1, <1>2, FromTheHost
<1> QED
  BY <1>3 DEF T

(* Frames are told by the words above them. *)
LEMMA WordsAgree ==
  ASSUME NEW m, NEW m2, NEW x \in Nat, NEW y \in Nat, y <= size,
         \A a \in x .. (size - 1) : m2[a] = m[a]
  PROVE  WordsIn(m2, x, y) = WordsIn(m, x, y)
<1>1. \A i \in 1 .. (y - x) : y - i \in x .. (size - 1)
  BY StackAssumption
<1>2. \A i \in 1 .. (y - x) : m2[y - i] = m[y - i]
  BY <1>1
<1> QED
  BY <1>2, Zenon DEF WordsIn

LEMMA FrameAgree ==
  ASSUME NEW m, NEW m2, NEW lo, NEW S, Held(m, lo, S), NEW b \in S, NEW l \in Nat, l <= b,
         \A a \in l .. (size - 1) : m2[a] = m[a]
  PROVE  FrameIn(m2, b, l) = FrameIn(m, b, l)
<1>1. size \in Nat /\ b \in Nat /\ b <= size
  BY StackAssumption DEF Held
<1>2. WordsIn(m2, l, b) = WordsIn(m, l, b)
  BY <1>1, WordsAgree, ZenonT(40)
<1>3. CASE b = size
  BY <1>2, <1>3, Zenon DEF FrameIn
<1>4. CASE b # size
  <2>1. /\ b + 2 < size /\ TopIn(m, b) \in Nat
        /\ b + 3 <= TopIn(m, b) /\ TopIn(m, b) <= m[b] /\ m[b] \in (b + 1) .. size
    BY <1>4, HeldFrame
  <2>2. m2[b + 1] = m[b + 1] /\ m2[b + 2] = m[b + 2]
    BY <1>1, <2>1
  <2>3. TopIn(m2, b) = TopIn(m, b)
    BY <2>2 DEF TopIn
  <2>4. /\ b + 3 \in Nat /\ TopIn(m, b) <= size
        /\ \A a \in (b + 3) .. (size - 1) : m2[a] = m[a]
    BY <1>1, <2>1
  <2>5. WordsIn(m2, b + 3, TopIn(m, b)) = WordsIn(m, b + 3, TopIn(m, b))
    BY <2>1, <2>4, WordsAgree
  <2> QED
    BY <1>2, <1>4, <2>2, <2>3, <2>5, Zenon DEF FrameIn
<1> QED
  BY <1>3, <1>4

LEMMA CallersAgree ==
  ASSUME NEW m, NEW m2, NEW lo, NEW S, Held(m, lo, S), NEW p \in S,
         \A a \in p .. (size - 1) : m2[a] = m[a]
  PROVE  CallersIn(m2)[p] = CallersIn(m)[p]
<1> DEFINE T == {b \in S : p <= b => CallersIn(m2)[b] = CallersIn(m)[b]}
<1>0. \A c \in S : c \in Nat /\ c <= size /\ size \in Nat
  BY StackAssumption DEF Held
<1>1. ASSUME NEW b \in S, \A c \in S : b < c => c \in T PROVE b \in T
  <2> SUFFICES ASSUME p <= b PROVE CallersIn(m2)[b] = CallersIn(m)[b]
    OBVIOUS
  <2>1. CASE b = size
    BY <2>1, CallersOfHost
  <2>2. CASE b # size
    <3>1. /\ b + 2 < size /\ TopIn(m, b) \in Nat /\ m[b] \in S /\ m[b] \in Nat
          /\ b + 3 <= TopIn(m, b) /\ TopIn(m, b) <= m[b] /\ m[b] \in (b + 1) .. size
      BY <2>2, HeldFrame
    <3>2. m2[b] = m[b] /\ m2[b + 2] = m[b + 2]
      BY <1>0, <3>1
    <3>3. TopIn(m2, b) = TopIn(m, b)
      BY <3>2 DEF TopIn
    <3>4. FrameIn(m2, m[b], TopIn(m, b)) = FrameIn(m, m[b], TopIn(m, b))
      <4>1. PICK c, t : c = m[b] /\ t = TopIn(m, b)
        OBVIOUS
      <4>2. c \in S /\ t \in Nat /\ t <= c
        BY <3>1, <4>1
      <4>3. \A a \in t .. (size - 1) : m2[a] = m[a]
        BY <1>0, <3>1, <4>1
      <4>4. FrameIn(m2, c, t) = FrameIn(m, c, t)
        BY <4>2, <4>3, FrameAgree
      <4> QED
        BY <4>1, <4>4
    <3>5. CallersIn(m2)[m[b]] = CallersIn(m)[m[b]]
      <4>1. p <= m[b] /\ b < m[b]
        BY <1>0, <3>1
      <4> QED
        BY <1>1, <3>1, <4>1
    <3>6. b \in 0 .. size
      BY <1>0
    <3>7. CallersIn(m2)[b] = Append(CallersIn(m2)[m[b]], FrameIn(m2, m[b], TopIn(m, b)))
      BY <2>2, <3>1, <3>2, <3>3, <3>6, CallersAre, Zenon DEF Above
    <3> QED
      BY <2>2, <3>4, <3>5, <3>7, CallersUp
  <2> QED
    BY <2>1, <2>2
<1> HIDE DEF T
<1>2. S \subseteq 0 .. size
  BY <1>0
<1>3. S \subseteq T
  BY <1>1, <1>2, FromTheHost
<1>4. p \in T /\ p <= p
  BY <1>0, <1>3
<1> QED
  BY <1>4 DEF T

(* The last of a stack of frames. *)
LEMMA LastFrame ==
  ASSUME NEW fs \in Seq(FrameSet), NEW x \in FrameSet
  PROVE  /\ Append(fs, x) \in Seq(FrameSet) /\ Len(Append(fs, x)) = Len(fs) + 1
         /\ Append(fs, x)[Len(fs) + 1] = x
         /\ Append(fs, x)[Len(Append(fs, x))] = x
BY AppendProperties

LEMMA LastReplaced ==
  ASSUME NEW fs \in Seq(FrameSet), NEW x \in FrameSet, NEW y \in FrameSet
  PROVE  [Append(fs, x) EXCEPT ![Len(fs) + 1] = y] = Append(fs, y)
<1>1. PICK A, B, k : A = Append(fs, x) /\ B = Append(fs, y) /\ k = Len(fs) + 1
  OBVIOUS
<1>2. /\ A \in Seq(FrameSet) /\ B \in Seq(FrameSet) /\ Len(A) = k /\ Len(B) = k /\ B[k] = y
      /\ \A i \in 1 .. Len(fs) : A[i] = fs[i] /\ B[i] = fs[i]
  BY <1>1, AppendProperties
<1>3. k \in Nat /\ 1 .. (k - 1) = 1 .. Len(fs) /\ k \in 1 .. k
  BY <1>1
<1>4. A \in [1 .. k -> FrameSet] /\ B \in [1 .. k -> FrameSet]
  BY <1>2
<1>5. \A i \in 1 .. k : i # k => A[i] = B[i]
  BY <1>2, <1>3
<1>6. [A EXCEPT ![k] = y] = B
  BY <1>2, <1>3, <1>4, <1>5
<1> QED
  BY <1>1, <1>6

(* An instruction that works on the operands of the running frame. *)
LEMMA OperandsStep ==
  ASSUME NEW fs \in Seq(FrameSet), NEW x \in FrameSet, NEW y \in FrameSet,
         Frames = Append(fs, x), Frames' = Append(fs, y),
         y.ret = x.ret, y.args = x.args,
         \/ Abstract!IsPrefix(x.opnds, y.opnds)
            /\ \A i \in Len(x.opnds) + 1 .. Len(y.opnds) : y.opnds[i] \in Vals
         \/ Abstract!IsPrefix(y.opnds, x.opnds)
         \/ \E i \in 1 .. Len(x.opnds), v \in Vals : y.opnds = [x.opnds EXCEPT ![i] = v],
         Running, ip' = ip, status' = status, sys' = <<>>
  PROVE  Abstract!Operands
<1>1. PICK F, G, k : F = Frames /\ G = Frames' /\ k = Len(fs) + 1
  OBVIOUS
<1>2. Len(F) = k /\ Len(G) = k /\ F[k] = x /\ G[k] = y
  BY <1>1, LastFrame
<1>3. y = [x EXCEPT !.opnds = y.opnds]
  BY DEF FrameSet
<1>4. G = [F EXCEPT ![k] = y]
  BY <1>1, LastReplaced
<1>5. G = [F EXCEPT ![k].opnds = y.opnds]
  BY <1>2, <1>3, <1>4
<1>6. Abstract!Running
  BY DEF Running, Abstract!Running
<1>7. Abstract!Depth = k /\ Frames[k] = x /\ Frames'[k] = y /\ Len(Frames') = k
  BY <1>1, <1>2 DEF Abstract!Depth
<1>8. Abstract!Own = x.opnds /\ Frames' = Abstract!With(y.opnds)
  BY <1>1, <1>5, <1>7 DEF Abstract!Own, Abstract!With
<1> QED
  BY <1>6, <1>7, <1>8, ZenonT(40) DEF Abstract!Operands

(* A store to an argument of the running frame. *)
LEMMA ArgumentStep ==
  ASSUME NEW fs \in Seq(FrameSet), NEW x \in FrameSet, NEW y \in FrameSet,
         Frames = Append(fs, x), Frames' = Append(fs, y),
         y.ret = x.ret, y.opnds = x.opnds,
         \E i \in 1 .. Len(x.args), v \in Vals : y.args = [x.args EXCEPT ![i] = v],
         Running, ip' = ip, status' = status, sys' = <<>>
  PROVE  Abstract!Operands
<1>0. PICK i \in 1 .. Len(x.args), v \in Vals : y.args = [x.args EXCEPT ![i] = v]
  OBVIOUS
<1>1. PICK F, G, k : F = Frames /\ G = Frames' /\ k = Len(fs) + 1
  OBVIOUS
<1>2. Len(F) = k /\ Len(G) = k /\ F[k] = x /\ G[k] = y
  BY <1>1, LastFrame
<1>3. y = [x EXCEPT !.args = [x.args EXCEPT ![i] = v]]
  BY <1>0 DEF FrameSet
<1>4. G = [F EXCEPT ![k] = y]
  BY <1>1, LastReplaced
<1>5. G = [F EXCEPT ![k].args[i] = v]
  BY <1>2, <1>3, <1>4
<1>6. Abstract!Running
  BY DEF Running, Abstract!Running
<1>7. Abstract!Depth = k /\ Frames[k] = x /\ Frames'[k] = y /\ Len(Frames') = k
  BY <1>1, <1>2 DEF Abstract!Depth
<1>8. \E j \in 1 .. Len(Frames[Abstract!Depth].args), w \in Vals :
         Frames' = [Frames EXCEPT ![Abstract!Depth].args[j] = w]
  <2>1. i \in 1 .. Len(Frames[Abstract!Depth].args) /\ v \in Vals
    BY <1>7
  <2>2. Frames' = [Frames EXCEPT ![Abstract!Depth].args[i] = v]
    BY <1>1, <1>5, <1>7
  <2> QED
    BY <2>1, <2>2, Zenon
<1>9. Len(Frames') = Abstract!Depth
  BY <1>7
<1> QED
  BY <1>6, <1>8, <1>9 DEF Abstract!Operands

(* Sequences of words, index by index. *)
LEMMA SameWords ==
  ASSUME NEW s \in Seq(Nat), NEW t \in Seq(Nat), Len(s) = Len(t),
         \A i \in 1 .. Len(s) : s[i] = t[i]
  PROVE  s = t
BY SeqEqual

LEMMA PrefixIs ==
  ASSUME NEW s \in Seq(Nat), NEW t \in Seq(Nat), Len(s) <= Len(t),
         \A i \in 1 .. Len(s) : s[i] = t[i]
  PROVE  Abstract!IsPrefix(s, t)
<1>1. Len(s) \in Nat /\ Len(t) \in Nat
  OBVIOUS
<1>2. \A i \in 1 .. Len(s) : i \in 1 .. Len(t)
  BY <1>1
<1>3. SubSeq(s, 1, Len(s)) = [i \in 1 .. Len(s) |-> s[i]]
  BY <1>1
<1>4. SubSeq(t, 1, Len(s)) = [i \in 1 .. Len(s) |-> t[i]]
  BY <1>1, <1>2
<1>5. [i \in 1 .. Len(s) |-> s[i]] = [i \in 1 .. Len(s) |-> t[i]]
  BY Zenon
<1> QED
  BY <1>3, <1>4, <1>5 DEF Abstract!IsPrefix

LEMMA Joined ==
  ASSUME NEW v \in Seq(Nat), NEW u \in Seq(Nat)
  PROVE  /\ v \o u \in Seq(Nat) /\ Len(v \o u) = Len(v) + Len(u)
         /\ \A i \in 1 .. Len(v) : (v \o u)[i] = v[i]
         /\ \A i \in 1 .. Len(u) : (v \o u)[Len(v) + i] = u[i]
BY ConcatProperties

LEMMA SliceIs ==
  ASSUME NEW s \in Seq(Nat), NEW x \in 1 .. (Len(s) + 1), NEW y \in (x - 1) .. Len(s)
  PROVE  /\ SubSeq(s, x, y) \in Seq(Nat) /\ Len(SubSeq(s, x, y)) = y - x + 1
         /\ \A i \in 1 .. (y - x + 1) : SubSeq(s, x, y)[i] = s[x + i - 1]
<1>1. Len(s) \in Nat /\ x \in Nat /\ y \in Nat /\ x \in Int /\ y \in Int
  OBVIOUS
<1>2. \A i \in x .. y : s[i] \in Nat
  BY <1>1
<1> QED
  BY <1>1, <1>2

LEMMA WordsNow ==
  ASSUME IInv, NEW x \in Nat, NEW y \in Nat, sp <= x, x <= y, y <= size
  PROVE  /\ WordsIn(ram, x, y) \in Seq(Nat) /\ Len(WordsIn(ram, x, y)) = y - x
         /\ \A i \in 1 .. (y - x) : WordsIn(ram, x, y)[i] = ram[y - i]
<1>1. PICK m, lo : m = ram /\ lo = sp
  OBVIOUS
<1>2. m \in [lo .. (size - 1) -> Nat] /\ lo \in Nat /\ lo <= x
  BY <1>1, Numbers DEF IInv, TypeOK
<1>3. /\ WordsIn(m, x, y) \in Seq(Nat) /\ Len(WordsIn(m, x, y)) = y - x
      /\ \A i \in 1 .. (y - x) : WordsIn(m, x, y)[i] = m[y - i]
  BY <1>2, WordsAre, ZenonT(40)
<1> QED
  BY <1>1, <1>3

(* The frames of a state that satisfies the invariant. *)
LEMMA FramesHeld ==
  ASSUME NEW m, NEW s \in 0 .. size, m \in [s .. (size - 1) -> Nat],
         NEW b \in 0 .. size, s <= b, Chained(m, b)
  PROVE  \E S : Held(m, s, S) /\ b \in S
<1>1. PICK S \in SUBSET (b .. size) : b \in S /\ size \in S /\ Chain(m, S)
  BY DEF Chained
<1>2. S \subseteq s .. size
  BY <1>1, StackAssumption
<1> QED
  BY <1>1, <1>2 DEF Held

LEMMA NowHeld ==
  ASSUME IInv
  PROVE  \E S : Held(ram, sp, S) /\ bp \in S
BY FramesHeld DEF IInv, TypeOK, StackClearOfHeap, FramesChained

LEMMA ThenHeld ==
  ASSUME IInv'
  PROVE  \E S : Held(ram', sp', S) /\ bp' \in S
<1>1. /\ sp' \in 0 .. size /\ ram' \in [sp' .. (size - 1) -> Nat]
      /\ bp' \in 0 .. size /\ sp' <= bp' /\ Chained(ram', bp')
  BY DEF IInv, TypeOK, StackClearOfHeap, FramesChained, Chained, Chain
<1> QED
  BY <1>1, FramesHeld

(* The running frame, and those above it. *)
Calling == CallersIn(ram)[bp]
Current == FrameIn(ram, bp, sp)

LEMMA FieldsOf ==
  ASSUME NEW m, NEW b, NEW lo
  PROVE  /\ FrameIn(m, b, lo).ret = IF b = size THEN 0 ELSE m[b + 1]
         /\ FrameIn(m, b, lo).args = IF b = size THEN <<>> ELSE WordsIn(m, b + 3, TopIn(m, b))
         /\ FrameIn(m, b, lo).opnds = WordsIn(m, lo, b)
BY DEF FrameIn

LEMMA NowFrames ==
  ASSUME IInv
  PROVE  /\ Calling \in Seq(FrameSet) /\ Current \in FrameSet
         /\ Frames = Append(Calling, Current)
         /\ Current.opnds = WordsIn(ram, sp, bp)
         /\ Current.opnds \in Seq(Nat) /\ Len(Current.opnds) = bp - sp
         /\ \A i \in 1 .. (bp - sp) : Current.opnds[i] = ram[bp - i]
<1>1. PICK S : Held(ram, sp, S) /\ bp \in S
  BY NowHeld
<1>2. sp \in sp .. bp
  BY Numbers
<1>3. Calling \in Seq(FrameSet) /\ Current \in FrameSet
  BY <1>1, <1>2, CallersType, FrameType DEF Calling, Current
<1>4. Frames = Append(Calling, Current)
  BY FramesAre DEF FramesIn, Calling, Current
<1>5. Current.opnds = WordsIn(ram, sp, bp)
  BY FieldsOf DEF Current
<1>6. /\ ram \in [sp .. (size - 1) -> Nat]
      /\ sp \in Nat /\ bp \in Nat /\ sp <= sp /\ sp <= bp /\ bp <= size
  BY Numbers DEF IInv, TypeOK
<1>7. /\ WordsIn(ram, sp, bp) \in Seq(Nat) /\ Len(WordsIn(ram, sp, bp)) = bp - sp
      /\ \A i \in 1 .. (bp - sp) : WordsIn(ram, sp, bp)[i] = ram[bp - i]
  BY <1>6, WordsAre, Zenon
<1> QED
  BY <1>3, <1>4, <1>5, <1>7, Zenon

(* A step of a frame that leaves the words from its base on as they were. *)
LEMMA SameFrame ==
  ASSUME IInv, IInv', bp' = bp, \A a \in bp .. (size - 1) : ram'[a] = ram[a]
  PROVE  LET new == FrameIn(ram', bp, sp') IN
         /\ new \in FrameSet /\ Frames' = Append(Calling, new)
         /\ new.ret = Current.ret /\ new.args = Current.args
         /\ new.opnds = WordsIn(ram', sp', bp)
         /\ new.opnds \in Seq(Nat) /\ Len(new.opnds) = bp - sp'
         /\ \A i \in 1 .. (bp - sp') : new.opnds[i] = ram'[bp - i]
<1> DEFINE new == FrameIn(ram', bp, sp')
<1>1. PICK S : Held(ram, sp, S) /\ bp \in S
  BY NowHeld
<1>2. PICK T : Held(ram', sp', T) /\ bp \in T
  BY ThenHeld
<1>3. /\ sp' \in Nat /\ bp \in Nat /\ sp' <= bp /\ bp <= size /\ size \in Nat
      /\ ram' \in [sp' .. (size - 1) -> Nat] /\ sp' \in sp' .. bp
      /\ sp' <= sp'
  BY Numbers DEF IInv, TypeOK, StackClearOfHeap
<1>4. new \in FrameSet
  BY <1>2, <1>3, FrameType
<1>5. CallersIn(ram')[bp] = Calling
  BY <1>1, CallersAgree DEF Calling
<1>6. Frames' = Append(Calling, new)
  BY <1>5, FramesAre DEF FramesIn
<1>7. FrameIn(ram', bp, bp) = FrameIn(ram, bp, bp)
  BY <1>1, <1>3, FrameAgree
<1>8. new.ret = Current.ret /\ new.args = Current.args
  BY <1>7, FieldsOf DEF Current
<1>9. new.opnds = WordsIn(ram', sp', bp)
  BY FieldsOf
<1>10. /\ WordsIn(ram', sp', bp) \in Seq(Nat) /\ Len(WordsIn(ram', sp', bp)) = bp - sp'
       /\ \A i \in 1 .. (bp - sp') : WordsIn(ram', sp', bp)[i] = ram'[bp - i]
  BY <1>3, WordsAre, ZenonT(40)
<1> HIDE DEF new
<1>11. /\ new.opnds \in Seq(Nat) /\ Len(new.opnds) = bp - sp'
       /\ \A i \in 1 .. (bp - sp') : new.opnds[i] = ram'[bp - i]
  BY <1>9, <1>10, Zenon
<1> QED
  BY <1>4, <1>6, <1>8, <1>9, <1>11 DEF new

(* The words pushed at p, at most bp, are the last operands. *)
LEMMA PushedStep ==
  ASSUME IInv, IInv', Running, NEW w \in Seq(Nat), \A i \in 1 .. Len(w) : w[i] \in Vals,
         Len(w) <= sp, ram' = Pushed(sp, w), sp' = sp - Len(w),
         bp' = bp, ip' = ip, status' = status, sys' = <<>>
  PROVE  Abstract!Operands
<1> DEFINE new == FrameIn(ram', bp, sp')
<1>1. sp \in sp .. size /\ Len(w) \in Nat
  BY Numbers
<1>2. /\ \A a \in sp .. (size - 1) : ram'[a] = ram[a]
      /\ \A i \in 1 .. Len(w) : ram'[sp - i] = w[i]
  BY <1>1, PushedWords DEF IInv
<1>3. \A a \in bp .. (size - 1) : ram'[a] = ram[a]
  BY <1>2, Numbers
<1>4. /\ new \in FrameSet /\ Frames' = Append(Calling, new)
      /\ new.ret = Current.ret /\ new.args = Current.args
      /\ new.opnds \in Seq(Nat) /\ Len(new.opnds) = bp - sp'
      /\ \A i \in 1 .. (bp - sp') : new.opnds[i] = ram'[bp - i]
  BY <1>3, SameFrame
<1> HIDE DEF new
<1>5. /\ Calling \in Seq(FrameSet) /\ Current \in FrameSet
      /\ Frames = Append(Calling, Current)
      /\ Current.opnds \in Seq(Nat) /\ Len(Current.opnds) = bp - sp
      /\ \A i \in 1 .. (bp - sp) : Current.opnds[i] = ram[bp - i]
  BY NowFrames
<1>6. ASSUME NEW i \in 1 .. Len(Current.opnds) PROVE Current.opnds[i] = new.opnds[i]
  <2>1. i \in 1 .. (bp - sp) /\ i \in 1 .. (bp - sp') /\ bp - i \in sp .. (size - 1)
    BY <1>1, <1>5, Numbers, SMTT(40)
  <2> QED
    BY <1>2, <1>4, <1>5, <2>1
<1>7. Abstract!IsPrefix(Current.opnds, new.opnds)
  <2>1. Len(Current.opnds) <= Len(new.opnds)
    BY <1>1, <1>4, <1>5, Numbers
  <2> QED
    BY <1>4, <1>5, <1>6, <2>1, PrefixIs
<1>8. ASSUME NEW i \in Len(Current.opnds) + 1 .. Len(new.opnds) PROVE new.opnds[i] \in Vals
  <2>1. PICK j : j = sp - (bp - i)
    OBVIOUS
  <2>2. i \in 1 .. (bp - sp') /\ j \in 1 .. Len(w) /\ bp - i = sp - j
    <3>1. i \in (bp - sp) + 1 .. (bp - sp')
      BY <1>4, <1>5, Zenon
    <3>2. sp \in Nat /\ bp \in Nat /\ sp <= bp /\ sp' = sp - Len(w)
      BY Numbers
    <3> QED
      BY <1>1, <2>1, <3>1, <3>2
  <2>3. ram'[bp - i] = w[j]
    BY <1>2, <2>2
  <2> QED
    BY <1>4, <2>2, <2>3
<1> QED
  BY <1>4, <1>5, <1>7, <1>8, OperandsStep

LEMMA PushStep ==
  ASSUME IInv, IInv', NEW v \in Vals, Push(v), ~ VM_abort
  PROVE  Abstract!Operands
<1>1. /\ Running /\ PushFits(sp, 1) /\ ram' = Pushed(sp, <<v>>) /\ sp' = sp - 1 /\ sys' = <<>>
      /\ bp' = bp /\ ip' = ip /\ status' = status
  BY DEF Push
<1>2. PICK w : w = <<v>>
  OBVIOUS
<1>3. w \in Seq(Nat) /\ Len(w) = 1 /\ \A i \in 1 .. Len(w) : w[i] \in Vals
  BY <1>2, StackAssumption
<1>4. Len(w) <= sp /\ sp' = sp - Len(w)
  BY <1>1, <1>3, Numbers DEF PushFits
<1>5. ram' = Pushed(sp, w)
  BY <1>1, <1>2
<1> QED
  BY <1>1, <1>3, <1>4, <1>5, PushedStep

LEMMA AllocaStep ==
  ASSUME IInv, IInv', NEW req \in AllocaReqs, Alloca(req), ~ VM_abort
  PROVE  Abstract!Operands
<1>1. PICK count : count = AllocaWords(req)
  OBVIOUS
<1>2. /\ Running /\ PushFits(sp, count) /\ sp' = sp - count /\ sys' = <<>>
      /\ bp' = bp /\ ip' = ip /\ status' = status
      /\ \E junk \in [1 .. count -> Vals] : ram' = Pushed(sp, junk)
  BY <1>1 DEF Alloca
<1>3. PICK w \in [1 .. count -> Vals] : ram' = Pushed(sp, w)
  BY <1>2
<1>4. count \in Nat
  BY <1>1, AllocaCount
<1>5. w \in Seq(Nat) /\ Len(w) = count /\ \A i \in 1 .. Len(w) : w[i] \in Vals
  <2>1. w \in [1 .. count -> Nat]
    BY StackAssumption
  <2> QED
    BY <1>4, <2>1
<1>6. Len(w) <= sp /\ sp' = sp - Len(w)
  BY <1>2, <1>4, <1>5, Numbers DEF PushFits
<1> QED
  BY <1>2, <1>3, <1>5, <1>6, PushedStep

LEMMA PopnStep ==
  ASSUME IInv, IInv', NEW n \in PopCounts, Popn(n)
  PROVE  Abstract!Operands
<1> DEFINE new == FrameIn(ram', bp, sp')
<1>1. PICK p : p = sp + (n % CB)
  OBVIOUS
<1>2. /\ ram' = Popped(p) /\ sp' = p /\ bp' = bp /\ ip' = ip /\ status' = status
      /\ n <= bp - sp /\ Running /\ sys' = <<>>
  BY <1>1 DEF Popn, Owned
<1>3. n \in Nat /\ n % CB \in Nat /\ n % CB <= n
  BY StackAssumption, CutCount
<1>4. p \in sp .. size /\ p \in Nat /\ sp <= p /\ p <= bp
  BY <1>1, <1>2, <1>3, Numbers
<1>5. \A a \in p .. (size - 1) : ram'[a] = ram[a]
  BY <1>2, <1>4, PoppedWords DEF IInv
<1>6. \A a \in bp .. (size - 1) : ram'[a] = ram[a]
  BY <1>4, <1>5, Numbers
<1>7. /\ new \in FrameSet /\ Frames' = Append(Calling, new)
      /\ new.ret = Current.ret /\ new.args = Current.args
      /\ new.opnds \in Seq(Nat) /\ Len(new.opnds) = bp - sp'
      /\ \A i \in 1 .. (bp - sp') : new.opnds[i] = ram'[bp - i]
  BY <1>2, <1>6, SameFrame
<1> HIDE DEF new
<1>8. /\ Calling \in Seq(FrameSet) /\ Current \in FrameSet
      /\ Frames = Append(Calling, Current)
      /\ Current.opnds \in Seq(Nat) /\ Len(Current.opnds) = bp - sp
      /\ \A i \in 1 .. (bp - sp) : Current.opnds[i] = ram[bp - i]
  BY NowFrames
<1>9. ASSUME NEW i \in 1 .. Len(new.opnds) PROVE new.opnds[i] = Current.opnds[i]
  <2>1. i \in 1 .. (bp - sp) /\ i \in 1 .. (bp - sp') /\ bp - i \in p .. (size - 1)
    BY <1>2, <1>4, <1>7, Numbers, SMTT(40)
  <2> QED
    BY <1>5, <1>7, <1>8, <2>1
<1>10. Abstract!IsPrefix(new.opnds, Current.opnds)
  <2>1. Len(new.opnds) <= Len(Current.opnds)
    BY <1>2, <1>4, <1>7, <1>8, Numbers
  <2> QED
    BY <1>7, <1>8, <1>9, <2>1, PrefixIs
<1> QED
  BY <1>2, <1>7, <1>8, <1>10, OperandsStep

(* ArgumentsFit is what the guest owes: the running frame was called with no
   more arguments than the u8 of VM_popn counts. *)
ArgumentsFit == Running => ram[bp + 2] < CB

LEMMA StoreStep ==
  ASSUME IInv, IInv', ArgumentsFit, NEW a \in sp .. (size - 1), NEW v \in Vals, Store(a, v)
  PROVE  Abstract!Operands
<1> DEFINE new == FrameIn(ram', bp, sp)
<1>1. /\ Running /\ ram' = [ram EXCEPT ![a] = v] /\ sys' = <<>>
      /\ sp' = sp /\ bp' = bp /\ ip' = ip /\ status' = status
      /\ a \in sp .. (bp - 1) \/ a \in (bp + 3) .. (bp + 2 + ram[bp + 2])
  BY DEF Store
<1>2. /\ ram'[a] = v /\ \A x \in sp .. (size - 1) : x # a => ram'[x] = ram[x]
  BY <1>1 DEF IInv, TypeOK
<1>3. /\ Calling \in Seq(FrameSet) /\ Current \in FrameSet
      /\ Frames = Append(Calling, Current)
      /\ Current.opnds = WordsIn(ram, sp, bp)
      /\ Current.opnds \in Seq(Nat) /\ Len(Current.opnds) = bp - sp
      /\ \A i \in 1 .. (bp - sp) : Current.opnds[i] = ram[bp - i]
  BY NowFrames
<1>4. CASE a \in sp .. (bp - 1)
  <2>1. \A x \in bp .. (size - 1) : ram'[x] = ram[x]
    BY <1>2, <1>4, Numbers
  <2>2. /\ new \in FrameSet /\ Frames' = Append(Calling, new)
        /\ new.ret = Current.ret /\ new.args = Current.args
        /\ new.opnds \in Seq(Nat) /\ Len(new.opnds) = bp - sp
        /\ \A i \in 1 .. (bp - sp) : new.opnds[i] = ram'[bp - i]
    BY <1>1, <2>1, SameFrame
  <2> HIDE DEF new
  <2>3. PICK j : j = bp - a
    OBVIOUS
  <2>4. j \in 1 .. Len(Current.opnds) /\ bp - j = a
    <3>1. j \in 1 .. (bp - sp) /\ bp - j = a
      BY <1>4, <2>3, Numbers
    <3> QED
      BY <1>3, <3>1
  <2>5. ASSUME NEW i \in 1 .. (bp - sp)
        PROVE  new.opnds[i] = IF i = j THEN v ELSE Current.opnds[i]
    <3>1. bp - i \in sp .. (size - 1) /\ (i # j => bp - i # a)
      BY <1>4, <2>3, Numbers
    <3> QED
      BY <1>2, <1>3, <2>2, <2>4, <3>1
  <2>6. new.opnds = [Current.opnds EXCEPT ![j] = v]
    <3>1. PICK s, t, k : s = Current.opnds /\ t = new.opnds /\ k = bp - sp
      OBVIOUS
    <3>2. k \in Nat /\ s \in [1 .. k -> Nat] /\ t \in [1 .. k -> Nat] /\ j \in 1 .. k
      <4>1. \A q \in Seq(Nat) : q \in [1 .. Len(q) -> Nat]
        OBVIOUS
      <4>2. k \in Nat
        BY <3>1, Numbers
      <4>3. s \in Seq(Nat) /\ t \in Seq(Nat) /\ Len(s) = k /\ Len(t) = k
        BY <1>3, <2>2, <3>1
      <4> QED
        BY <2>4, <3>1, <4>1, <4>2, <4>3
    <3>3. \A i \in 1 .. k : t[i] = IF i = j THEN v ELSE s[i]
      BY <2>5, <3>1
    <3>4. t = [s EXCEPT ![j] = v]
      BY <3>2, <3>3
    <3> QED
      BY <3>1, <3>4
  <2> QED
    BY <1>1, <1>3, <2>2, <2>4, <2>6, OperandsStep
<1>5. CASE a \in (bp + 3) .. (bp + 2 + ram[bp + 2])
  <2>1. /\ bp # size /\ ram[bp] \in Nat /\ ram[bp] <= size
        /\ ram[bp + 2] \in Nat /\ bp + 3 + ram[bp + 2] <= ram[bp]
    BY <1>1, GuestHasFrame
  <2>2. PICK c, t, k : c = ram[bp] /\ t = bp + 3 + ram[bp + 2] /\ k = ram[bp + 2]
    OBVIOUS
  <2>3. /\ c \in Nat /\ t \in Nat /\ k \in Nat /\ t <= c /\ c <= size /\ bp + 3 <= t /\ bp < c
        /\ a < t /\ bp + 3 <= a /\ t - (bp + 3) = k
    BY <1>5, <2>1, <2>2, Numbers
  <2>4. \A x \in t .. (size - 1) : ram'[x] = ram[x]
    BY <1>2, <2>3, Numbers
  <2>5. \A x \in sp .. (bp + 2) : x <= size - 1 => ram'[x] = ram[x]
    BY <1>2, <2>3, Numbers
  <2>6. ram'[bp] = c /\ ram'[bp + 1] = ram[bp + 1] /\ ram'[bp + 2] = k
    BY <2>2, <2>3, <2>5, Numbers
  <2>7. TopIn(ram, bp) = t /\ TopIn(ram', bp) = t
    <3>1. k < CB
      BY <1>1, <2>2 DEF ArgumentsFit
    <3>2. k % CB = k
      BY <2>3, <3>1, StackAssumption
    <3> QED
      BY <2>2, <2>6, <3>2 DEF TopIn
  <2>8. PICK S : Held(ram, sp, S) /\ bp \in S
    BY NowHeld
  <2>9. PICK T : Held(ram', sp, T) /\ bp \in T
    BY <1>1, ThenHeld
  <2>10. c \in S
    BY <2>1, <2>2, <2>8, HeldFrame
  <2>11. CallersIn(ram')[bp] = Calling
    <3>1. Calling = Append(CallersIn(ram)[c], FrameIn(ram, c, t))
      BY <2>1, <2>2, <2>7, <2>8, CallersUp DEF Calling
    <3>2. CallersIn(ram')[bp] = Append(CallersIn(ram')[c], FrameIn(ram', c, t))
      BY <2>1, <2>6, <2>7, <2>9, CallersUp
    <3>3. \A x \in c .. (size - 1) : ram'[x] = ram[x]
      BY <2>3, <2>4, Numbers
    <3>4. CallersIn(ram')[c] = CallersIn(ram)[c]
      BY <2>8, <2>10, <3>3, CallersAgree
    <3>5. FrameIn(ram', c, t) = FrameIn(ram, c, t)
      <4>1. PICK m, m2, lo : m = ram /\ m2 = ram' /\ lo = sp
        OBVIOUS
      <4>2. Held(m, lo, S) /\ \A x \in t .. (size - 1) : m2[x] = m[x]
        BY <2>4, <2>8, <4>1
      <4>3. t \in Nat /\ t <= c /\ c \in Nat
        BY <2>3
      <4>4. FrameIn(m2, c, t) = FrameIn(m, c, t)
        BY <2>10, <4>2, <4>3, FrameAgree
      <4> QED
        BY <4>1, <4>4
    <3> QED
      BY <3>1, <3>2, <3>4, <3>5
  <2>12. Frames' = Append(Calling, new)
    BY <1>1, <2>11, FramesAre DEF FramesIn
  <2>13. new \in FrameSet
    <3>1. sp \in sp .. bp
      BY Numbers
    <3> QED
      BY <2>9, <3>1, FrameType
  <2>14. /\ new.ret = Current.ret
         /\ Current.args = WordsIn(ram, bp + 3, t) /\ new.args = WordsIn(ram', bp + 3, t)
         /\ new.opnds = WordsIn(ram', sp, bp)
    BY <2>1, <2>6, <2>7, FieldsOf DEF Current
  <2> HIDE DEF new
  <2>15. new.opnds = Current.opnds
    <3>1. \A i \in 1 .. (bp - sp) : ram'[bp - i] = ram[bp - i]
      BY <2>3, <2>5, Numbers
    <3>2. WordsIn(ram', sp, bp) = WordsIn(ram, sp, bp)
      BY <3>1, Zenon DEF WordsIn
    <3> QED
      BY <1>3, <2>14, <3>2
  <2>16. PICK j : j = t - a
    OBVIOUS
  <2>17. j \in 1 .. k /\ t - j = a
    BY <2>3, <2>16, Numbers
  <2>18. /\ \A i \in 1 .. k : t - i \in sp .. (size - 1) /\ (i # j => t - i # a)
    BY <2>3, <2>16, Numbers
  <2>19. /\ Current.args \in Seq(Nat) /\ Len(Current.args) = k
         /\ \A i \in 1 .. k : Current.args[i] = ram[t - i]
    <3>1. /\ ram \in [sp .. (size - 1) -> Nat] /\ sp \in Nat /\ bp + 3 \in Nat /\ sp <= bp + 3
          /\ t <= size
      BY <2>3, Numbers DEF IInv, TypeOK
    <3>2. PICK x : x = bp + 3
      OBVIOUS
    <3>3. x \in Nat /\ sp <= x /\ x <= t /\ t - x = k /\ Current.args = WordsIn(ram, x, t)
      BY <2>3, <2>14, <3>1, <3>2
    <3>4. /\ WordsIn(ram, x, t) \in Seq(Nat) /\ Len(WordsIn(ram, x, t)) = t - x
          /\ \A i \in 1 .. (t - x) : WordsIn(ram, x, t)[i] = ram[t - i]
      <4>1. /\ ram \in [sp .. (size - 1) -> Nat] /\ sp \in Nat /\ x \in Nat /\ t \in Nat
            /\ sp <= x /\ x <= t /\ t <= size
        BY <2>3, <3>1, <3>3
      <4> QED
        BY <4>1, WordsAre, ZenonT(40)
    <3> QED
      BY <3>3, <3>4, Zenon
  <2>20. new.args = [Current.args EXCEPT ![j] = v]
    <3>1. PICK s : s = Current.args
      OBVIOUS
    <3>2. s \in [1 .. k -> Nat] /\ \A i \in 1 .. k : s[i] = ram[t - i]
      BY <2>19, <3>1
    <3>3. new.args = [i \in 1 .. k |-> ram'[t - i]]
      BY <2>3, <2>14 DEF WordsIn
    <3>4. \A i \in 1 .. k : ram'[t - i] = IF i = j THEN v ELSE s[i]
      BY <1>2, <2>17, <2>18, <3>2
    <3>5. new.args = [s EXCEPT ![j] = v]
      BY <2>17, <3>2, <3>3, <3>4
    <3> QED
      BY <3>1, <3>5
  <2>21. j \in 1 .. Len(Current.args)
    BY <2>17, <2>19
  <2>22. PICK fs, x, y : fs = Calling /\ x = Current /\ y = new
    OBVIOUS
  <2>23. /\ y \in FrameSet /\ Frames' = Append(fs, y) /\ y.ret = x.ret /\ y.opnds = x.opnds
    BY <2>12, <2>13, <2>14, <2>15, <2>22
  <2>24. j \in 1 .. Len(x.args) /\ y.args = [x.args EXCEPT ![j] = v]
    BY <2>20, <2>21, <2>22
  <2>25. /\ fs \in Seq(FrameSet) /\ x \in FrameSet /\ Frames = Append(fs, x)
         /\ Running /\ ip' = ip /\ status' = status /\ sys' = <<>>
    BY <1>1, <1>3, <2>22
  <2>26. \E i \in 1 .. Len(x.args), w \in Vals : y.args = [x.args EXCEPT ![i] = w]
    BY <2>24
  <2> QED
    BY <2>23, <2>25, <2>26, ArgumentStep
<1> QED
  BY <1>1, <1>4, <1>5

LEMMA JmpStep ==
  ASSUME NEW target \in Code \cup {len}, Jmp(target)
  PROVE  Abstract!Jump
<1>1. Running /\ ip' = target /\ sys' = <<>> /\ ram' = ram /\ sp' = sp /\ bp' = bp /\ status' = status
  BY DEF Jmp
<1>2. Frames' = Frames
  BY <1>1, FramesAre
<1> QED
  BY <1>1, <1>2 DEF Abstract!Jump, Abstract!Running, Running

LEMMA StopStep ==
  ASSUME status \in {"boot", "run"}, status' \in {"halt", "abort"},
         UNCHANGED <<ram, sp, bp, ip, sys>>
  PROVE  Abstract!Stop
<1>1. Frames' = Frames
  BY FramesAre
<1> QED
  BY <1>1 DEF Abstract!Stop

(* The running frame as the abstract instructions speak of it. *)
LEMMA OwnIs ==
  ASSUME IInv
  PROVE  Abstract!Own = Current.opnds /\ Abstract!Depth = Len(Calling) + 1
         /\ Frames[Abstract!Depth] = Current
<1>1. /\ Calling \in Seq(FrameSet) /\ Current \in FrameSet /\ Frames = Append(Calling, Current)
  BY NowFrames
<1>2. Len(Frames) = Len(Calling) + 1 /\ Frames[Len(Frames)] = Current
  BY <1>1, LastFrame
<1> QED
  BY <1>2 DEF Abstract!Own, Abstract!Depth

LEMMA WithIs ==
  ASSUME IInv, NEW s \in Seq(Nat), NEW y \in FrameSet,
         y.ret = Current.ret, y.args = Current.args, y.opnds = s
  PROVE  Abstract!With(s) = Append(Calling, y)
<1>1. /\ Calling \in Seq(FrameSet) /\ Current \in FrameSet /\ Frames = Append(Calling, Current)
  BY NowFrames
<1>2. PICK fs, x, F, k : fs = Calling /\ x = Current /\ F = Frames /\ k = Len(fs) + 1
  OBVIOUS
<1>3. fs \in Seq(FrameSet) /\ x \in FrameSet /\ F = Append(fs, x) /\ F[k] = x
  BY <1>1, <1>2, LastFrame
<1>4. y = [x EXCEPT !.opnds = s]
  BY <1>2, <1>3 DEF FrameSet
<1>5. [F EXCEPT ![k] = y] = Append(fs, y)
  BY <1>2, <1>3, LastReplaced
<1>6. [F EXCEPT ![k].opnds = s] = Append(fs, y)
  BY <1>3, <1>4, <1>5
<1>7. Abstract!Depth = k
  BY <1>2, OwnIs
<1> QED
  BY <1>2, <1>6, <1>7 DEF Abstract!With

LEMMA PassedIs ==
  ASSUME IInv, Running, ArgumentsPushed, NEW k, k = ram[sp], NEW t, t = sp + 1 + k
  PROVE  /\ Abstract!PassesArguments
         /\ k \in Nat /\ t \in Nat /\ sp + 1 <= t /\ t <= bp /\ sp < bp
         /\ Abstract!Passed = WordsIn(ram, sp + 1, t) /\ Len(Abstract!Passed) = k
         /\ WordsIn(ram, sp + 1, t) \in Seq(Nat)
         /\ Abstract!Kept = WordsIn(ram, t, bp) /\ Abstract!Kept \in Seq(Nat)
<1>1. 1 <= bp - sp /\ 1 + ram[sp] <= bp - sp /\ sp < size
  BY DEF ArgumentsPushed, Owned
<1>2. k \in Nat /\ sp \in Nat /\ bp \in Nat /\ size \in Nat /\ bp <= size
  BY <1>1, Numbers
<1>3. t \in Nat /\ sp + 1 <= t /\ t <= bp /\ sp < bp /\ sp + 1 \in Nat /\ t - (sp + 1) = k
  BY <1>1, <1>2
<1>4. PICK own, n : own = Current.opnds /\ n = bp - sp
  OBVIOUS
<1>5. own \in Seq(Nat) /\ Len(own) = n /\ \A i \in 1 .. n : own[i] = ram[bp - i]
  BY <1>4, NowFrames
<1>6. Abstract!Own = own
  BY <1>4, OwnIs
<1>7. n \in Nat /\ n \in 1 .. n /\ bp - n = sp /\ k < n
  BY <1>1, <1>2, <1>4
<1>8. Abstract!Last(own) = k
  BY <1>5, <1>7 DEF Abstract!Last
<1>9. Abstract!PassesArguments
  <2>1. own # <<>>
    BY <1>5, <1>7
  <2> QED
    BY <1>5, <1>6, <1>7, <1>8, <2>1 DEF Abstract!PassesArguments
<1>10. t <= size /\ sp <= sp + 1 /\ sp <= t
  BY <1>2, <1>3
<1>11. /\ WordsIn(ram, t, bp) \in Seq(Nat) /\ Len(WordsIn(ram, t, bp)) = bp - t
       /\ \A i \in 1 .. (bp - t) : WordsIn(ram, t, bp)[i] = ram[bp - i]
  BY <1>2, <1>3, <1>10, WordsNow
<1>12. PICK x : x = sp + 1
  OBVIOUS
<1>13. /\ WordsIn(ram, x, t) \in Seq(Nat) /\ Len(WordsIn(ram, x, t)) = k
       /\ \A i \in 1 .. k : WordsIn(ram, x, t)[i] = ram[t - i]
  <2>1. x \in Nat /\ sp <= x /\ x <= t /\ t <= size
    BY <1>2, <1>3, <1>10, <1>12
  <2>2. /\ WordsIn(ram, x, t) \in Seq(Nat) /\ Len(WordsIn(ram, x, t)) = t - x
        /\ \A i \in 1 .. (t - x) : WordsIn(ram, x, t)[i] = ram[t - i]
    BY <1>3, <2>1, WordsNow
  <2>3. t - x = k
    BY <1>3, <1>12
  <2> QED
    BY <2>2, <2>3
<1>14. SubSeq(own, n - k, n - 1) = WordsIn(ram, x, t)
  <2>1. PICK s, u : s = SubSeq(own, n - k, n - 1) /\ u = WordsIn(ram, x, t)
    OBVIOUS
  <2>2. n - k \in 1 .. (n + 1) /\ n - 1 \in (n - k - 1) .. n /\ (n - 1) - (n - k) + 1 = k
    BY <1>2, <1>7
  <2>3. /\ s \in Seq(Nat) /\ Len(s) = k
        /\ \A i \in 1 .. k : s[i] = own[n - k + i - 1]
    BY <1>5, <2>1, <2>2, SliceIs
  <2>4. ASSUME NEW i \in 1 .. k PROVE s[i] = u[i]
    <3>1. n - k + i - 1 \in 1 .. n /\ bp - (n - k + i - 1) = t - i
      BY <1>2, <1>4, <1>7
    <3> QED
      BY <1>5, <1>13, <2>1, <2>3, <3>1, ZenonT(40)
  <2>5. s = u
    BY <1>13, <2>1, <2>3, <2>4, SameWords, ZenonT(40)
  <2> QED
    BY <2>1, <2>5
<1>15. SubSeq(own, 1, n - 1 - k) = WordsIn(ram, t, bp)
  <2>1. PICK s, u : s = SubSeq(own, 1, n - 1 - k) /\ u = WordsIn(ram, t, bp)
    OBVIOUS
  <2>2. 1 \in 1 .. (n + 1) /\ n - 1 - k \in (1 - 1) .. n /\ (n - 1 - k) - 1 + 1 = bp - t
    BY <1>2, <1>4, <1>7
  <2>3. /\ s \in Seq(Nat) /\ Len(s) = bp - t
        /\ \A i \in 1 .. (bp - t) : s[i] = own[1 + i - 1]
    BY <1>5, <2>1, <2>2, SliceIs
  <2>4. ASSUME NEW i \in 1 .. (bp - t) PROVE s[i] = u[i]
    <3>1. 1 + i - 1 = i /\ i \in 1 .. n
      BY <1>2, <1>3, <1>4
    <3> QED
      BY <1>5, <1>11, <2>1, <2>3, <3>1
  <2>5. s = u
    BY <1>11, <2>1, <2>3, <2>4, SameWords
  <2> QED
    BY <2>1, <2>5
<1>16. Abstract!Passed = WordsIn(ram, x, t) /\ Abstract!Kept = WordsIn(ram, t, bp)
  BY <1>5, <1>6, <1>8, <1>14, <1>15 DEF Abstract!Passed, Abstract!Kept
<1> QED
  BY <1>2, <1>3, <1>9, <1>11, <1>12, <1>13, <1>16

LEMMA CallStep ==
  ASSUME IInv, IInv', ArgumentsFit', NEW target \in Code, Call(target), ~ VM_abort
  PROVE  Abstract!Call
<1>1. /\ Running /\ ArgumentsPushed /\ PushFits(sp, 2) /\ ram' = Pushed(sp, <<ip, bp>>)
      /\ sp' = sp - 2 /\ bp' = sp - 2 /\ ip' = target /\ sys' = <<>> /\ status' = status
  BY DEF Call
<1>2. PICK k, t, b : k = ram[sp] /\ t = sp + 1 + k /\ b = sp - 2
  OBVIOUS
<1>3. /\ Abstract!PassesArguments
      /\ k \in Nat /\ t \in Nat /\ sp + 1 <= t /\ t <= bp /\ sp < bp
      /\ Abstract!Passed = WordsIn(ram, sp + 1, t)
      /\ WordsIn(ram, sp + 1, t) \in Seq(Nat)
      /\ Abstract!Kept = WordsIn(ram, t, bp) /\ Abstract!Kept \in Seq(Nat)
  BY <1>1, <1>2, PassedIs
<1>4. /\ sp \in Nat /\ bp \in Nat /\ size \in Nat /\ bp <= size /\ b \in Nat /\ b < sp /\ sp <= sp
      /\ ip \in Nat
  BY <1>1, <1>2, Numbers, StackAssumption DEF PushFits, IInv, TypeOK
<1>5. /\ \A a \in sp .. (size - 1) : ram'[a] = ram[a]
      /\ ram'[b] = bp /\ ram'[b + 1] = ip
  <2>1. PICK w : w = <<ip, bp>>
    OBVIOUS
  <2>2. w \in Seq(Nat) /\ Len(w) = 2 /\ w[1] = ip /\ w[2] = bp
    BY <1>4, <2>1
  <2>3. sp \in sp .. size /\ Len(w) <= sp
    <3>1. sp \in sp .. size /\ 2 <= sp
      BY <1>2, <1>3, <1>4
    <3> QED
      BY <2>2, <3>1
  <2>4. /\ \A a \in sp .. (size - 1) : Pushed(sp, w)[a] = ram[a]
        /\ \A i \in 1 .. Len(w) : Pushed(sp, w)[sp - i] = w[i]
    BY <2>2, <2>3, PushedWords DEF IInv
  <2>5. 1 \in 1 .. Len(w) /\ 2 \in 1 .. Len(w) /\ b + 1 = sp - 1
    BY <1>2, <1>4, <2>2
  <2> QED
    BY <1>1, <1>2, <2>1, <2>2, <2>4, <2>5
<1>6. ram'[b + 2] = k
  <2>1. b + 2 = sp /\ sp \in sp .. (size - 1)
    BY <1>2, <1>3, <1>4
  <2> QED
    BY <1>2, <1>5, <2>1
<1>7. TopIn(ram', b) = t
  <2>1. Running'
    <3>1. ip' < len
      BY <1>1, StackAssumption
    <3> QED
      BY <1>1, <3>1 DEF Running
  <2>2. k < CB
    BY <1>1, <1>2, <1>6, <2>1 DEF ArgumentsFit
  <2>3. k % CB = k
    BY <1>3, <2>2, StackAssumption
  <2> QED
    BY <1>2, <1>4, <1>6, <2>3 DEF TopIn
<1>8. PICK S : Held(ram, sp, S) /\ bp \in S
  BY NowHeld
<1>9. PICK T : Held(ram', b, T) /\ b \in T
  BY <1>1, <1>2, ThenHeld
<1>10. b # size /\ bp \in T
  <2>1. b # size
    BY <1>3, <1>4
  <2> QED
    BY <1>5, <1>9, <2>1, HeldFrame
<1> DEFINE y == FrameIn(ram', bp, t)
           z == FrameIn(ram', b, b)
<1>11. Frames' = Append(Append(Calling, y), z)
  <2>1. \A a \in bp .. (size - 1) : ram'[a] = ram[a]
    BY <1>3, <1>4, <1>5
  <2>2. CallersIn(ram')[bp] = Calling
    BY <1>8, <2>1, CallersAgree DEF Calling
  <2>3. CallersIn(ram')[b] = Append(CallersIn(ram')[bp], FrameIn(ram', bp, t))
    BY <1>5, <1>7, <1>9, <1>10, CallersUp
  <2> QED
    BY <1>1, <1>2, <2>2, <2>3, FramesAre DEF FramesIn
<1>12. y = FrameIn(ram, bp, t)
  <2>1. PICK m, m2, lo, c : m = ram /\ m2 = ram' /\ lo = sp /\ c = bp
    OBVIOUS
  <2>2. Held(m, lo, S) /\ \A a \in t .. (size - 1) : m2[a] = m[a]
    BY <1>3, <1>4, <1>5, <1>8, <2>1
  <2>3. c \in S /\ c \in Nat /\ t \in Nat /\ t <= c
    BY <1>3, <1>4, <1>8, <2>1
  <2>4. FrameIn(m2, c, t) = FrameIn(m, c, t)
    BY <2>2, <2>3, FrameAgree
  <2> QED
    BY <2>1, <2>4
<1>13. /\ y \in FrameSet /\ y.ret = Current.ret /\ y.args = Current.args
       /\ y.opnds = Abstract!Kept
  <2>1. t \in sp .. bp
    BY <1>3, <1>4
  <2>2. FrameIn(ram, bp, t) \in FrameSet
    BY <1>8, <2>1, FrameType
  <2> QED
    BY <1>3, <1>12, <2>2, FieldsOf DEF Current
<1>14. Abstract!With(Abstract!Kept) = Append(Calling, y)
  BY <1>3, <1>13, WithIs
<1>15. z = [ret |-> ip, args |-> Abstract!Passed, opnds |-> <<>>]
  <2>1. WordsIn(ram', b, b) = <<>>
    <3>1. 1 .. (b - b) = {}
      BY <1>4
    <3> QED
      BY <3>1 DEF WordsIn
  <2>2. b + 3 = sp + 1
    BY <1>2, <1>4
  <2>3. WordsIn(ram', sp + 1, t) = WordsIn(ram, sp + 1, t)
    <3>1. PICK x : x = sp + 1
      OBVIOUS
    <3>2. x \in Nat /\ t <= size /\ \A a \in x .. (size - 1) : ram'[a] = ram[a]
      BY <1>3, <1>4, <1>5, <3>1
    <3>3. WordsIn(ram', x, t) = WordsIn(ram, x, t)
      BY <1>3, <3>2, WordsAgree
    <3> QED
      BY <3>1, <3>3
  <2> QED
    BY <1>3, <1>5, <1>7, <1>10, <2>1, <2>2, <2>3 DEF FrameIn
<1> HIDE DEF y, z
<1>16. Frames' = Append(Abstract!With(Abstract!Kept), Abstract!Frame(ip, Abstract!Passed, <<>>))
  BY <1>11, <1>14, <1>15 DEF Abstract!Frame
<1> QED
  BY <1>1, <1>3, <1>16 DEF Abstract!Call, Abstract!Running, Running

(* The native functions of the guest read what they check for, and take fewer
   arguments than a u8 counts. *)
NativesAgree ==
  \A f \in NativeFns : \A n \in Nat : Accepts(f, n) => Reads(f, n) = n /\ n < CB

LEMMA NcallStep ==
  ASSUME IInv, IInv', NativesAgree, NEW f \in NativeFns, NEW r \in Vals, Ncall(f, r), ~ VM_abort
  PROVE  Abstract!NativeCall
<1>1. PICK k, t : k = ram[sp] /\ t = sp + 1 + k
  OBVIOUS
<1>2. Running /\ ArgumentsPushed
  BY DEF Ncall
<1>3. /\ Abstract!PassesArguments
      /\ k \in Nat /\ t \in Nat /\ sp + 1 <= t /\ t <= bp /\ sp < bp
      /\ Abstract!Passed = WordsIn(ram, sp + 1, t) /\ Len(Abstract!Passed) = k
      /\ WordsIn(ram, sp + 1, t) \in Seq(Nat)
      /\ Abstract!Kept = WordsIn(ram, t, bp) /\ Abstract!Kept \in Seq(Nat)
  BY <1>1, <1>2, PassedIs
<1>4. /\ PushFits(sp, 2) /\ Accepts(f, k) /\ sys' = <<f, Argv(f)>>
      /\ ram' = Pushed(FrameTop(sp - 2), <<r, 1>>) /\ sp' = FrameTop(sp - 2) - 2
      /\ bp' = bp /\ ip' = ip /\ status' = status
  BY <1>1 DEF Ncall
<1>5. Reads(f, k) = k /\ k < CB
  BY <1>3, <1>4 DEF NativesAgree
<1>6. FrameTop(sp - 2) = t
  <2>1. sp - 2 + 2 = sp /\ sp - 2 + 3 = sp + 1 /\ sp \in Nat
    BY Numbers
  <2>2. k % CB = k
    BY <1>3, <1>5, StackAssumption
  <2> QED
    BY <1>1, <2>1, <2>2 DEF FrameTop
<1>7. Argv(f) = Abstract!Passed
  <2>1. Argv(f) = [i \in 1 .. k |-> ram[sp + k - (i - 1)]]
    BY <1>1, <1>5 DEF Argv
  <2>2. t - (sp + 1) = k /\ \A i \in 1 .. k : sp + k - (i - 1) = t - i
    BY <1>1, <1>3, Numbers
  <2> QED
    BY <1>3, <2>1, <2>2 DEF WordsIn
<1>8. PICK w : w = <<r, 1>>
  OBVIOUS
<1>9. w \in Seq(Nat) /\ Len(w) = 2 /\ w[1] = r /\ w[2] = 1
  BY <1>8, StackAssumption
<1>10. t \in sp .. size /\ Len(w) <= t /\ sp' = t - 2 /\ sp' \in Nat
  BY <1>3, <1>4, <1>6, <1>9, Numbers DEF PushFits
<1>11. /\ \A a \in t .. (size - 1) : ram'[a] = ram[a]
       /\ \A i \in 1 .. Len(w) : ram'[t - i] = w[i]
  BY <1>4, <1>6, <1>8, <1>9, <1>10, PushedWords DEF IInv
<1> DEFINE y == FrameIn(ram', bp, sp')
<1>12. \A a \in bp .. (size - 1) : ram'[a] = ram[a]
  BY <1>3, <1>11, Numbers
<1>13. /\ y \in FrameSet /\ Frames' = Append(Calling, y)
       /\ y.ret = Current.ret /\ y.args = Current.args
       /\ y.opnds \in Seq(Nat) /\ Len(y.opnds) = bp - sp'
       /\ \A i \in 1 .. (bp - sp') : y.opnds[i] = ram'[bp - i]
  BY <1>4, <1>12, SameFrame
<1> HIDE DEF y
<1>14. y.opnds = Abstract!Kept \o <<r, 1>>
  <2>1. PICK kept, n, o : kept = Abstract!Kept /\ n = bp - t /\ o = y.opnds
    OBVIOUS
  <2>2. kept \in Seq(Nat) /\ Len(kept) = n /\ \A i \in 1 .. n : kept[i] = ram[bp - i]
    <3>1. bp \in Nat /\ sp <= t /\ bp <= size
      BY <1>3, Numbers
    <3>2. /\ WordsIn(ram, t, bp) \in Seq(Nat) /\ Len(WordsIn(ram, t, bp)) = bp - t
          /\ \A i \in 1 .. (bp - t) : WordsIn(ram, t, bp)[i] = ram[bp - i]
      BY <1>3, <3>1, WordsNow
    <3> QED
      BY <1>3, <2>1, <3>2
  <2>3. /\ n \in Nat /\ bp - sp' = n + 2 /\ bp - (n + 1) = t - 1 /\ bp - (n + 2) = t - 2
        /\ \A i \in 1 .. n : bp - i \in t .. (size - 1)
        /\ \A i \in 1 .. (n + 2) : i \in 1 .. n \/ i = n + 1 \/ i = n + 2
    <3>1. n = bp - t /\ sp' = t - 2 /\ bp \in Nat /\ t \in Nat /\ size \in Nat /\ t <= bp /\ bp <= size
      BY <1>3, <1>10, <2>1, Numbers
    <3> QED
      BY <3>1
  <2>4. o \in Seq(Nat) /\ Len(o) = n + 2 /\ \A i \in 1 .. (n + 2) : o[i] = ram'[bp - i]
    BY <1>13, <2>1, <2>3
  <2>5. PICK q : q = kept \o w
    OBVIOUS
  <2>6. /\ q \in Seq(Nat) /\ Len(q) = n + 2 /\ q[n + 1] = r /\ q[n + 2] = 1
        /\ \A i \in 1 .. n : q[i] = kept[i]
    <3>1. /\ q \in Seq(Nat) /\ Len(q) = Len(kept) + Len(w)
          /\ \A i \in 1 .. Len(kept) : q[i] = kept[i]
          /\ \A i \in 1 .. Len(w) : q[Len(kept) + i] = w[i]
      BY <1>9, <2>2, <2>5, Joined
    <3>2. 1 \in 1 .. Len(w) /\ 2 \in 1 .. Len(w)
      BY <1>9
    <3> QED
      BY <1>9, <2>2, <3>1, <3>2
  <2>7. ASSUME NEW i \in 1 .. (n + 2) PROVE o[i] = q[i]
    <3>1. CASE i \in 1 .. n
      <4>1. o[i] = ram'[bp - i]
        BY <2>4, Zenon
      <4>2. ram'[bp - i] = ram[bp - i]
        BY <1>11, <2>3, <3>1, Zenon
      <4>3. q[i] = kept[i] /\ kept[i] = ram[bp - i]
        BY <2>2, <2>6, <3>1, Zenon
      <4> QED
        BY <4>1, <4>2, <4>3, Zenon
    <3>2. CASE i = n + 1
      <4>1. ram'[t - 1] = r
        BY <1>9, <1>11
      <4> QED
        BY <2>3, <2>4, <2>6, <3>2, <4>1
    <3>3. CASE i = n + 2
      <4>1. ram'[t - 2] = 1
        BY <1>9, <1>11
      <4> QED
        BY <2>3, <2>4, <2>6, <3>3, <4>1
    <3> QED
      BY <2>3, <3>1, <3>2, <3>3
  <2>8. o = q
    BY <2>4, <2>6, <2>7, SameWords
  <2> QED
    BY <1>8, <2>1, <2>5, <2>8
<1>15. Frames' = Abstract!With(Abstract!Kept \o <<r, 1>>)
  <2>1. PICK s : s = Abstract!Kept \o <<r, 1>>
    OBVIOUS
  <2>2. s \in Seq(Nat) /\ y.opnds = s
    BY <1>13, <1>14, <2>1
  <2>3. Abstract!With(s) = Append(Calling, y)
    BY <1>13, <2>2, WithIs
  <2> QED
    BY <1>13, <2>1, <2>3
<1>16. Accepts(f, Len(Abstract!Passed)) /\ sys' = <<f, Abstract!Passed>>
  BY <1>3, <1>4, <1>7
<1> QED
  BY <1>2, <1>3, <1>4, <1>15, <1>16 DEF Abstract!NativeCall, Abstract!Running, Running

(* What the guest returns: as many words as the frame's saved registers, so
   that memcpy does not overlap, and no more than a u8 counts. *)
ResultsFit == \A n \in RetCounts : n <= 3 /\ n < CB

LEMMA RetStep ==
  ASSUME IInv, IInv', ResultsFit, NEW n \in RetCounts, Ret(n), ~ VM_abort
  PROVE  Abstract!Ret
<1>1. n \in Nat /\ n <= 3 /\ n < CB /\ Running /\ n <= bp - sp /\ Owned(n)
  BY StackAssumption DEF Ret, ResultsFit, Owned
<1>2. n % CB = n
  BY <1>1, StackAssumption
<1>3. PICK t, c : t = FrameTop(bp) /\ c = ram[bp]
  OBVIOUS
<1>4. /\ t \in Nat /\ bp + 3 <= t /\ t <= c /\ sb < t - n - 1 /\ RetFits(n)
  BY <1>1, <1>2, <1>3, ReturnFits
<1>5. /\ \E results \in Copies(sp, t - n, n) : ram' = Pushed(t, results \o <<n>>)
      /\ sp' = t - n - 1 /\ bp' = c /\ ip' = ram[bp + 1] /\ sys' = <<>> /\ status' = status
  BY <1>2, <1>3, <1>4 DEF Ret
<1>6. /\ sp \in Nat /\ bp \in Nat /\ size \in Nat /\ sp <= bp /\ bp <= size /\ bp # size
      /\ c \in Nat /\ c <= size /\ sb \in Nat
  BY <1>1, <1>3, GuestHasFrame, Numbers
<1>7. PICK h, res : h = sp + n /\ res = WordsIn(ram, sp, h)
  OBVIOUS
<1>8. res \in Seq(Nat) /\ Len(res) = n /\ \A i \in 1 .. n : res[i] = ram[h - i]
  <2>1. h \in Nat /\ sp <= sp /\ sp <= h /\ h <= size /\ h - sp = n
    BY <1>1, <1>6, <1>7
  <2>2. /\ WordsIn(ram, sp, h) \in Seq(Nat) /\ Len(WordsIn(ram, sp, h)) = h - sp
        /\ \A i \in 1 .. (h - sp) : WordsIn(ram, sp, h)[i] = ram[h - i]
    BY <1>6, <2>1, WordsNow
  <2> QED
    BY <1>7, <2>1, <2>2, Zenon
<1>9. ram' = Pushed(t, res \o <<n>>)
  <2>1. ~ (t - n < sp + n)
    BY <1>1, <1>4, <1>6
  <2>2. Copies(sp, t - n, n) = {res}
    BY <1>7, <2>1 DEF Copies, Words, WordsIn
  <2> QED
    BY <1>5, <2>2
<1>10. PICK w : w = res \o <<n>>
  OBVIOUS
<1>11. /\ w \in Seq(Nat) /\ Len(w) = n + 1 /\ w[n + 1] = n
       /\ \A i \in 1 .. n : w[i] = res[i]
  <2>1. PICK u : u = <<n>>
    OBVIOUS
  <2>2. u \in Seq(Nat) /\ Len(u) = 1 /\ u[1] = n /\ 1 \in 1 .. Len(u)
    BY <1>1, <2>1
  <2>3. /\ w \in Seq(Nat) /\ Len(w) = Len(res) + Len(u)
        /\ \A i \in 1 .. Len(res) : w[i] = res[i]
        /\ \A i \in 1 .. Len(u) : w[Len(res) + i] = u[i]
    BY <1>8, <1>10, <2>1, <2>2, Joined
  <2> QED
    BY <1>8, <2>2, <2>3
<1>12. t \in sp .. size /\ n + 1 <= t
  BY <1>1, <1>4, <1>6
<1>13. /\ \A a \in t .. (size - 1) : ram'[a] = ram[a]
       /\ \A i \in 1 .. (n + 1) : ram'[t - i] = w[i]
  <2>1. Len(w) <= t
    BY <1>11, <1>12
  <2>2. /\ \A a \in t .. (size - 1) : Pushed(t, w)[a] = ram[a]
        /\ \A i \in 1 .. Len(w) : Pushed(t, w)[t - i] = w[i]
    BY <1>11, <1>12, <2>1, PushedWords DEF IInv
  <2> QED
    BY <1>9, <1>10, <1>11, <2>2
<1>14. PICK S : Held(ram, sp, S) /\ bp \in S
  BY NowHeld
<1>15. PICK T : Held(ram', sp', T) /\ c \in T
  BY <1>5, ThenHeld
<1>16. c \in S /\ TopIn(ram, bp) = t
  BY <1>3, <1>6, <1>14, HeldFrame DEF FrameTop, TopIn
<1>17. PICK fs, y, x, z : /\ fs = CallersIn(ram)[c] /\ y = FrameIn(ram, c, t)
                          /\ x = Current /\ z = FrameIn(ram', c, sp')
  OBVIOUS
<1>18. /\ fs \in Seq(FrameSet) /\ y \in FrameSet /\ x \in FrameSet /\ z \in FrameSet
  <2>1. fs \in Seq(FrameSet)
    BY <1>14, <1>16, <1>17, CallersType
  <2>2. t \in sp .. c /\ sp' \in sp' .. c
    BY <1>1, <1>4, <1>5, <1>6
  <2>3. y \in FrameSet
    BY <1>14, <1>16, <1>17, <2>2, FrameType
  <2>4. z \in FrameSet
    BY <1>15, <1>17, <2>2, FrameType
  <2>5. x \in FrameSet
    BY <1>17, NowFrames
  <2> QED
    BY <2>1, <2>3, <2>4, <2>5
<1>19. Calling = Append(fs, y) /\ Frames = Append(Append(fs, y), x)
  <2>1. CallersIn(ram)[bp] = Append(CallersIn(ram)[ram[bp]], FrameIn(ram, ram[bp], TopIn(ram, bp)))
    BY <1>6, <1>14, CallersUp
  <2>2. Calling = Append(fs, y)
    BY <1>3, <1>16, <1>17, <2>1 DEF Calling
  <2> QED
    BY <1>17, <2>2, NowFrames
<1>20. \A a \in c .. (size - 1) : ram'[a] = ram[a]
  BY <1>4, <1>6, <1>13
<1>21. Frames' = Append(fs, z)
  <2>1. CallersIn(ram')[c] = fs
    BY <1>14, <1>16, <1>17, <1>20, CallersAgree
  <2> QED
    BY <1>5, <1>17, <2>1, FramesAre DEF FramesIn
<1>22. z.ret = y.ret /\ z.args = y.args
  <2>1. PICK m, m2, lo : m = ram /\ m2 = ram' /\ lo = sp
    OBVIOUS
  <2>2. Held(m, lo, S) /\ c \in S /\ c \in Nat /\ c <= c /\ \A a \in c .. (size - 1) : m2[a] = m[a]
    BY <1>6, <1>14, <1>16, <1>20, <2>1
  <2>3. FrameIn(m2, c, c) = FrameIn(m, c, c)
    BY <2>2, FrameAgree
  <2> QED
    BY <1>17, <2>1, <2>3, FieldsOf
<1>23. PICK k, o, p : k = c - t /\ o = z.opnds /\ p = y.opnds
  OBVIOUS
<1>24. /\ p \in Seq(Nat) /\ Len(p) = k /\ k \in Nat /\ \A i \in 1 .. k : p[i] = ram[c - i]
  <2>1. sp <= t /\ k \in Nat
    BY <1>4, <1>6, <1>23
  <2>2. /\ WordsIn(ram, t, c) \in Seq(Nat) /\ Len(WordsIn(ram, t, c)) = c - t
        /\ \A i \in 1 .. (c - t) : WordsIn(ram, t, c)[i] = ram[c - i]
    BY <1>4, <1>6, <2>1, WordsNow
  <2>3. p = WordsIn(ram, t, c)
    BY <1>17, <1>23, FieldsOf
  <2> QED
    BY <1>23, <2>1, <2>2, <2>3
<1>25. /\ o \in Seq(Nat) /\ Len(o) = k + n + 1 /\ \A i \in 1 .. (k + n + 1) : o[i] = ram'[c - i]
  <2>1. PICK m, lo : m = ram' /\ lo = sp'
    OBVIOUS
  <2>2. /\ m \in [lo .. (size - 1) -> Nat] /\ lo \in Nat /\ lo <= lo /\ lo <= c
        /\ c \in Nat /\ c <= size
    <3>1. ram' \in [sp' .. (size - 1) -> Nat] /\ sp' \in 0 .. size
      BY DEF IInv, TypeOK
    <3>2. lo \in Nat /\ lo <= lo /\ lo <= c
      BY <1>1, <1>4, <1>5, <1>6, <2>1, <3>1
    <3> QED
      BY <1>6, <2>1, <3>1, <3>2
  <2>3. c - lo = k + n + 1
    BY <1>1, <1>4, <1>5, <1>6, <1>23, <2>1
  <2>4. /\ WordsIn(m, lo, c) \in Seq(Nat) /\ Len(WordsIn(m, lo, c)) = c - lo
        /\ \A i \in 1 .. (c - lo) : WordsIn(m, lo, c)[i] = m[c - i]
    BY <2>2, WordsAre
  <2>5. o = WordsIn(m, lo, c)
    BY <1>17, <1>23, <2>1, FieldsOf
  <2> QED
    BY <2>1, <2>3, <2>4, <2>5, Zenon
<1>26. o = p \o w
  <2>1. PICK q : q = p \o w
    OBVIOUS
  <2>2. /\ q \in Seq(Nat) /\ Len(q) = Len(p) + Len(w)
        /\ \A i \in 1 .. Len(p) : q[i] = p[i]
        /\ \A i \in 1 .. Len(w) : q[Len(p) + i] = w[i]
    BY <1>11, <1>24, <2>1, Joined
  <2>3. Len(q) = k + n + 1
    BY <1>1, <1>11, <1>24, <2>2
  <2>4. ASSUME NEW i \in 1 .. (k + n + 1) PROVE o[i] = q[i]
    <3>1. CASE i \in 1 .. k
      <4>1. c - i \in t .. (size - 1)
        BY <1>4, <1>6, <1>23, <3>1
      <4> QED
        BY <1>13, <1>24, <1>25, <2>2, <3>1, <4>1
    <3>2. CASE i \notin 1 .. k
      <4>1. PICK j : j = i - k
        OBVIOUS
      <4>2. j \in 1 .. (n + 1) /\ i = k + j /\ c - i = t - j
        <5>1. k \in Nat /\ k = c - t
          BY <1>23, <1>24
        <5> QED
          BY <1>1, <1>4, <1>6, <3>2, <4>1, <5>1
      <4>3. o[i] = ram'[t - j]
        BY <1>25, <4>2
      <4>4. ram'[t - j] = w[j]
        BY <1>13, <4>2
      <4>5. q[i] = w[j]
        BY <1>11, <1>24, <2>2, <4>2
      <4> QED
        BY <4>3, <4>4, <4>5
    <3> QED
      BY <3>1, <3>2
  <2>5. o = q
    BY <1>25, <2>2, <2>3, <2>4, SameWords
  <2> QED
    BY <2>1, <2>5
<1>27. PICK own, len0 : own = Current.opnds /\ len0 = bp - sp
  OBVIOUS
<1>28. /\ own \in Seq(Nat) /\ Len(own) = len0 /\ \A i \in 1 .. len0 : own[i] = ram[bp - i]
       /\ Abstract!Own = own
  BY <1>27, NowFrames, OwnIs
<1>29. SubSeq(own, len0 - n + 1, len0) = res
  <2>1. PICK l, s : l = len0 - n + 1 /\ s = SubSeq(own, l, len0)
    OBVIOUS
  <2>2. /\ len0 \in Nat /\ l \in 1 .. (len0 + 1) /\ len0 \in (l - 1) .. len0
        /\ len0 - l + 1 = n
    BY <1>1, <1>6, <1>27, <2>1
  <2>3. /\ SubSeq(own, l, len0) \in Seq(Nat) /\ Len(SubSeq(own, l, len0)) = len0 - l + 1
        /\ \A i \in 1 .. (len0 - l + 1) : SubSeq(own, l, len0)[i] = own[l + i - 1]
    BY <1>28, <2>2, SliceIs
  <2>4. s \in Seq(Nat) /\ Len(s) = n /\ \A i \in 1 .. n : s[i] = own[l + i - 1]
    BY <2>1, <2>2, <2>3, Zenon
  <2>5. ASSUME NEW i \in 1 .. n PROVE s[i] = res[i]
    <3>1. l + i - 1 \in 1 .. len0 /\ bp - (l + i - 1) = h - i
      BY <1>1, <1>6, <1>7, <1>27, <2>1
    <3> QED
      BY <1>8, <1>28, <2>4, <3>1
  <2>6. s = res
    BY <1>8, <2>4, <2>5, SameWords
  <2> QED
    BY <2>1, <2>6
<1>30. n \in 0 .. Len(own) /\ Len(own) - n + 1 = len0 - n + 1
  BY <1>1, <1>6, <1>27, <1>28
<1>31. PICK d : d = Len(fs) + 2
  OBVIOUS
<1>32. /\ Abstract!Depth = d /\ Frames[d] = x /\ Frames[d - 1] = y /\ SubSeq(Frames, 1, d - 2) = fs
       /\ d > 1
  <2>1. PICK A, B : A = Append(fs, y) /\ B = Frames
    OBVIOUS
  <2>2. A \in Seq(FrameSet) /\ Len(A) = Len(fs) + 1 /\ A[Len(fs) + 1] = y
        /\ \A i \in 1 .. Len(fs) : A[i] = fs[i]
    BY <1>18, <2>1, AppendProperties
  <2>3. B = Append(A, x)
    BY <1>19, <2>1
  <2>4. B \in Seq(FrameSet) /\ Len(B) = Len(A) + 1 /\ B[Len(A) + 1] = x
        /\ \A i \in 1 .. Len(A) : B[i] = A[i]
    BY <1>18, <2>2, <2>3, AppendProperties
  <2>5. /\ Len(fs) \in Nat /\ Len(A) + 1 = d /\ Len(fs) + 1 \in 1 .. Len(A) /\ d - 1 = Len(fs) + 1
        /\ d - 2 = Len(fs) /\ \A i \in 1 .. Len(fs) : i \in 1 .. Len(A)
    BY <1>18, <1>31, <2>2
  <2>6. Len(B) = d /\ B[d] = x /\ B[d - 1] = y
    BY <2>2, <2>4, <2>5
  <2>7. \A i \in 1 .. Len(fs) : B[i] = fs[i]
    BY <2>2, <2>4, <2>5
  <2>8. SubSeq(B, 1, Len(fs)) = fs
    <3>1. Len(fs) <= Len(B)
      BY <2>5, <2>6
    <3>2. /\ SubSeq(B, 1, Len(fs)) \in Seq(FrameSet) /\ Len(SubSeq(B, 1, Len(fs))) = Len(fs)
          /\ \A i \in 1 .. Len(fs) : SubSeq(B, 1, Len(fs))[i] = B[i]
      BY <2>4, <2>5, <3>1
    <3> QED
      BY <1>18, <2>7, <3>2, SeqEqual
  <2> QED
    BY <1>18, <1>31, <2>1, <2>5, <2>6, <2>8 DEF Abstract!Depth
<1>33. z = [y EXCEPT !.opnds = (y.opnds \o res) \o <<n>>]
  <2>1. p \o w = (p \o res) \o <<n>>
    <3>1. <<n>> \in Seq(Nat)
      BY <1>1
    <3> QED
      BY <1>8, <1>10, <1>24, <3>1, ConcatAssociative
  <2>2. z.opnds = (y.opnds \o res) \o <<n>>
    BY <1>23, <1>26, <2>1
  <2> QED
    BY <1>18, <1>22, <2>2 DEF FrameSet
<1>34. ip' = Frames[Abstract!Depth].ret
  <2>1. x.ret = ram[bp + 1]
    BY <1>6, <1>17, FieldsOf DEF Current
  <2> QED
    BY <1>5, <1>32, <2>1
<1>35. \E i \in 0 .. Len(Abstract!Own) :
         LET results == SubSeq(Abstract!Own, Len(Abstract!Own) - i + 1, Len(Abstract!Own))
             caller == Frames[Abstract!Depth - 1]
         IN  Frames' = Append(SubSeq(Frames, 1, Abstract!Depth - 2),
                              [caller EXCEPT !.opnds = @ \o results \o <<i>>])
  <2>1. SubSeq(Abstract!Own, Len(Abstract!Own) - n + 1, Len(Abstract!Own)) = res
    BY <1>28, <1>29
  <2>2. Frames' = Append(SubSeq(Frames, 1, Abstract!Depth - 2), z)
        /\ Frames[Abstract!Depth - 1] = y
    BY <1>21, <1>32
  <2>3. n \in 0 .. Len(Abstract!Own)
    BY <1>28, <1>30
  <2> QED
    BY <1>33, <2>1, <2>2, <2>3
<1> QED
  BY <1>1, <1>5, <1>32, <1>34, <1>35 DEF Abstract!Ret, Abstract!Running, Running

(* Before the program starts. *)
BootState == status = "boot" => sp = size /\ bp = size /\ ip = entry /\ sys = <<>>

LEMMA HostFrame ==
  ASSUME NEW m
  PROVE  /\ CallersIn(m)[size] = <<>>
         /\ FrameIn(m, size, size) = [ret |-> 0, args |-> <<>>, opnds |-> <<>>]
<1>1. 1 .. (size - size) = {}
  BY StackAssumption
<1>2. WordsIn(m, size, size) = <<>>
  BY <1>1 DEF WordsIn
<1> QED
  BY <1>2, CallersOfHost DEF FrameIn

LEMMA BootStep ==
  ASSUME IInv, IInv', BootState, ArgumentsFit', VM_run, ~ VM_abort
  PROVE  Abstract!Boot
<1>1. /\ status = "boot" /\ sp = size /\ bp = size /\ ip = entry /\ sys = <<>>
      /\ size \in Nat /\ len \in Nat /\ entry < len /\ sb \in Nat
  BY StackAssumption DEF VM_run, BootState
<1>2. PICK argc \in Argc : \E argv \in [1 .. argc -> Vals] :
          /\ PushFits(sp, argc + 3)
          /\ ram' = Pushed(sp, argv \o <<argc, len, bp>>)
          /\ sp' = sp - (argc + 3) /\ bp' = sp'
          /\ status' = "run" /\ ip' = ip /\ sys' = sys
  BY DEF VM_run
<1>3. PICK argv \in [1 .. argc -> Vals] :
          /\ PushFits(sp, argc + 3)
          /\ ram' = Pushed(sp, argv \o <<argc, len, bp>>)
          /\ sp' = sp - (argc + 3) /\ bp' = sp'
          /\ status' = "run" /\ ip' = ip /\ sys' = sys
  BY <1>2
<1>4. PICK b, u, w : /\ b = size - (argc + 3) /\ u = <<argc, len, bp>> /\ w = argv \o u
  OBVIOUS
<1>5. argc \in Nat /\ b \in Nat /\ b + 3 = size - argc /\ b # size /\ sp' = b /\ bp' = b
  BY <1>1, <1>3, <1>4, StackAssumption DEF PushFits
<1>6. argv \in Seq(Nat) /\ Len(argv) = argc
  <2>1. argv \in [1 .. argc -> Nat]
    BY StackAssumption
  <2> QED
    BY <1>5, <2>1
<1>7. u \in Seq(Nat) /\ Len(u) = 3 /\ u[1] = argc /\ u[2] = len /\ u[3] = size
  BY <1>1, <1>4, <1>5
<1>8. /\ w \in Seq(Nat) /\ Len(w) = argc + 3
      /\ w[argc + 1] = argc /\ w[argc + 2] = len /\ w[argc + 3] = size
      /\ \A i \in 1 .. argc : w[i] = argv[i]
  <2>1. /\ w \in Seq(Nat) /\ Len(w) = Len(argv) + Len(u)
        /\ \A i \in 1 .. Len(argv) : w[i] = argv[i]
        /\ \A i \in 1 .. Len(u) : w[Len(argv) + i] = u[i]
    <3>1. argv \in Seq(Nat) /\ u \in Seq(Nat) /\ w = argv \o u
      BY <1>4, <1>6, <1>7
    <3> QED
      BY <3>1, Joined, Zenon
  <2>2. 1 \in 1 .. Len(u) /\ 2 \in 1 .. Len(u) /\ 3 \in 1 .. Len(u)
    BY <1>7
  <2> QED
    BY <1>6, <1>7, <2>1, <2>2
<1>9. \A i \in 1 .. (argc + 3) : ram'[size - i] = w[i]
  <2>1. size \in sp .. size /\ argc + 3 <= size /\ Len(w) <= size
    <3>1. argc + 3 <= size /\ size \in sp .. size
      BY <1>1, <1>4, <1>5
    <3> QED
      BY <1>8, <3>1
  <2>2. \A i \in 1 .. Len(w) : Pushed(size, w)[size - i] = w[i]
    BY <1>8, <2>1, PushedWords DEF IInv
  <2>3. ram' = Pushed(size, w)
    BY <1>1, <1>3, <1>4
  <2> QED
    BY <1>8, <2>2, <2>3
<1>10. /\ ram'[b] = size /\ ram'[b + 1] = len /\ ram'[b + 2] = argc
  <2>1. /\ argc + 1 \in 1 .. (argc + 3) /\ argc + 2 \in 1 .. (argc + 3)
        /\ argc + 3 \in 1 .. (argc + 3) /\ b = size - (argc + 3) /\ b + 1 = size - (argc + 2)
        /\ b + 2 = size - (argc + 1)
    BY <1>1, <1>4, <1>5
  <2> QED
    BY <1>8, <1>9, <2>1
<1>11. TopIn(ram', b) = size
  <2>1. Running'
    BY <1>1, <1>3 DEF Running
  <2>2. argc < CB
    BY <1>5, <1>10, <2>1 DEF ArgumentsFit
  <2>3. argc % CB = argc
    BY <1>5, <2>2, StackAssumption
  <2> QED
    BY <1>1, <1>5, <1>10, <2>3 DEF TopIn
<1>12. PICK T : Held(ram', b, T) /\ b \in T
  BY <1>5, ThenHeld
<1>13. Frames = Append(<<>>, FrameIn(ram, size, size))
  BY <1>1, FramesAre, HostFrame DEF FramesIn
<1>14. Frames' = Append(Append(<<>>, FrameIn(ram', size, size)), FrameIn(ram', b, b))
  <2>1. CallersIn(ram')[b] = Append(CallersIn(ram')[size], FrameIn(ram', size, size))
    BY <1>5, <1>10, <1>11, <1>12, CallersUp
  <2> QED
    BY <1>5, <2>1, FramesAre, HostFrame DEF FramesIn
<1>15. FrameIn(ram', size, size) = FrameIn(ram, size, size)
  BY HostFrame
<1>16. FrameIn(ram', b, b) = [ret |-> len, args |-> argv, opnds |-> <<>>]
  <2>1. 1 .. (b - b) = {}
    BY <1>5
  <2>2. WordsIn(ram', b, b) = <<>>
    BY <2>1 DEF WordsIn
  <2>3. WordsIn(ram', b + 3, size) = [i \in 1 .. argc |-> argv[i]]
    <3>1. size - (b + 3) = argc /\ \A i \in 1 .. argc : i \in 1 .. (argc + 3)
      BY <1>1, <1>5
    <3>2. \A i \in 1 .. argc : ram'[size - i] = argv[i]
      BY <1>8, <1>9, <3>1
    <3> QED
      BY <3>1, <3>2 DEF WordsIn
  <2>4. argv = [i \in 1 .. argc |-> argv[i]]
    OBVIOUS
  <2> QED
    BY <1>5, <1>10, <1>11, <2>2, <2>3, <2>4 DEF FrameIn
<1>17. Frames' = Append(Frames, Abstract!Frame(len, argv, <<>>))
  BY <1>13, <1>14, <1>15, <1>16 DEF Abstract!Frame
<1> QED
  BY <1>1, <1>3, <1>17 DEF Abstract!Boot

(* What the guest may do so that calls mean what CallSpec says. *)
Step == IInv /\ IInv' /\ BootState /\ ArgumentsFit /\ ArgumentsFit' /\ ResultsFit /\ NativesAgree

LEMMA InitMaps == Init => Abstract!Init
<1> SUFFICES ASSUME Init PROVE Abstract!Init
  OBVIOUS
<1>1. sp = size /\ bp = size /\ ip = entry /\ status = "boot" /\ sys = <<>>
  BY DEF Init
<1>2. Frames = Append(<<>>, [ret |-> 0, args |-> <<>>, opnds |-> <<>>])
  BY <1>1, FramesAre, HostFrame DEF FramesIn
<1>3. Frames = <<[ret |-> 0, args |-> <<>>, opnds |-> <<>>]>>
  BY <1>2
<1> QED
  BY <1>1, <1>3 DEF Abstract!Init, Abstract!Frame

LEMMA NextMaps ==
  ASSUME Step, [Next]_vars
  PROVE  [Abstract!Next]_<<Frames, ip, status, sys>>
<1> USE DEF Step
<1> SUFFICES ASSUME ~ UNCHANGED <<Frames, ip, status, sys>> PROVE Abstract!Next
  OBVIOUS
<1> USE DEF Abstract!Next
<1>1. ASSUME VM_abort, status \in {"boot", "run"} PROVE Abstract!Next
  BY <1>1, StopStep DEF VM_abort
<1>2. CASE VM_run
  BY <1>1, <1>2, BootStep DEF VM_run
<1>3. ASSUME NEW v \in Vals, Push(v) PROVE Abstract!Next
  BY <1>1, <1>3, PushStep DEF Push, Running
<1>4. ASSUME NEW n \in PopCounts, Popn(n) PROVE Abstract!Next
  BY <1>4, PopnStep
<1>5. ASSUME NEW req \in AllocaReqs, Alloca(req) PROVE Abstract!Next
  BY <1>1, <1>5, AllocaStep DEF Alloca, Running
<1>6. ASSUME NEW a \in sp .. (size - 1), NEW v \in Vals, Store(a, v) PROVE Abstract!Next
  BY <1>6, StoreStep
<1>7. ASSUME NEW target \in Code \cup {len}, Jmp(target) PROVE Abstract!Next
  BY <1>7, JmpStep
<1>8. ASSUME NEW target \in Code, Call(target) PROVE Abstract!Next
  BY <1>1, <1>8, CallStep DEF Call, Running
<1>9. ASSUME NEW n \in RetCounts, Ret(n) PROVE Abstract!Next
  BY <1>1, <1>9, RetStep DEF Ret, Running
<1>10. ASSUME NEW f \in NativeFns, NEW r \in Vals, Ncall(f, r) PROVE Abstract!Next
  BY <1>1, <1>10, NcallStep DEF Ncall, Running
<1>11. CASE Halt
  BY <1>11, StopStep DEF Halt, Running
<1>12. CASE UNCHANGED vars
  BY <1>12, FramesAre DEF vars
<1> QED
  BY <1>2, <1>3, <1>4, <1>5, <1>6, <1>7, <1>8, <1>9, <1>10, <1>11, <1>12 DEF Next

LEMMA BootKept == BootState /\ [Next]_vars => BootState'
<1> SUFFICES ASSUME BootState, [Next]_vars, status' = "boot" PROVE UNCHANGED vars
  BY DEF vars, BootState
<1> QED
  BY DEF Next, vars, VM_run, VM_abort, Push, Popn, Alloca, Store, Jmp, Call, Ret, Ncall, Halt, Running

(* The words, saved registers and counts of the machine implement procedure
   calls, for every memory, every program and every nesting of calls, as long
   as the guest passes fewer arguments than VM_popn can count, returns at most
   three results and calls native functions that read what they check for. *)
THEOREM CallsImplementSpec ==
  ResultsFit /\ NativesAgree => (Spec /\ []ArgumentsFit => ImplementsCallSpec)
<1> SUFFICES ASSUME ResultsFit, NativesAgree PROVE Spec /\ []ArgumentsFit => ImplementsCallSpec
  OBVIOUS
<1>1. Init => BootState
  BY DEF Init, BootState
<1>2. Spec => []BootState
  BY <1>1, BootKept, PTL DEF Spec
<1>3. IInv /\ IInv' /\ BootState /\ ArgumentsFit /\ ArgumentsFit' /\ [Next]_vars
        => [Abstract!Next]_<<Frames, ip, status, sys>>
  BY NextMaps DEF Step
<1> QED
  BY <1>2, <1>3, InitMaps, StackInvariant, PTL DEF Spec, ImplementsCallSpec, Abstract!Spec
=============================================================================
