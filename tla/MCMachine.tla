----------------------------- MODULE MCMachine -----------------------------
(* Programs for Machine: two registers are loaded, then any instruction of *)
(* a pool that has every instruction and every form of operand, a push so  *)
(* that pops find something, an instruction that uses the result, halt.    *)
EXTENDS Machine

Pool ==
    {Source(op, szShort, R(1), R(2)) : op \in BinaryOps}
    \cup {Source(op, szByte, R(1), M(2)) : op \in {"add", "sub", "mov"}}
    \cup {Source(op, szQuad, M(2), R(1)) : op \in {"sub", "mov"}}
    \cup {Source(op, szByte, M(2), M(2)) : op \in {"add", "cmp"}}
    \cup {Source(op, szWord, R(1), I(-2, szByte)) : op \in {"add", "mul", "div"}}
    \cup {Source("mov", szShort, R(1), E(2, n, szByte)) : n \in {-1, 1}}
    \cup {Source("mov", szQuad, R(1), A(20, szWord)),
          Source("mov", szShort, M(2), I(5, szShort)),
          Source("cmp", szShort, R(1), R(2)),
          Source("cmp", szByte, R(1), I(1, szByte)),
          Source("rmem", szQuad, R(1), R(2)),
          Source("mod", szByte, R(1), R(2))}
    \cup {Source(op, szByte, R(1), None) : op \in UnaryOps}
    \cup {Source(op, szQuad, R(1), None) :
            op \in {"push", "pop", "putc", "puti", "puts"}}
    \cup {Source("inc", szShort, M(2), None), Source("puts", szByte, M(2), None),
          Source("push", szByte, M(2), None), Source("push", szByte, I(1, szShort), None),
          Source("push", szByte, A(20, szWord), None),
          Source("inc", szByte, I(1, szByte), None),
          Source("pop", szByte, R(1), None), Source("popn", szByte, I(1, szByte), None),
          Source("mcpy", szByte, R(1), None)}
    \cup {Source("dbg", szByte, None, None)}
    \cup {Source(op, szByte, L(6), None) : op \in JumpOps}
    \cup {Source("jmp", szByte, L(3), None)}

(* 27: the first byte behind the constants; 44: the heap; 111: the last    *)
(* byte of the largest memory                                              *)
Loaded == {<<1, 44>>, <<-2, 27>>, <<300, 44>>, <<2, 111>>, <<150, -1>>}
(* What the first instruction of the pool leaves behind is used by these   *)
Follow ==
    {Source(op, szByte, L(6), None) : op \in JumpOps}
    \cup {Source(op, szQuad, R(1), None) : op \in {"puts", "puti", "putc", "pop"}}
    \cup {Source("jmp", szByte, L(3), None),
          Source("add", szWord, M(2), R(1)),
          Source("sar", szQuad, R(1), I(1, szByte)),
          Source("mov", szShort, R(2), E(2, 1, szShort)),
          Source("popn", szByte, I(1, szByte), None)}

MCPrograms ==
    {<<Source("mov", szQuad, R(1), I(v[1], szQuad)),
       Source("mov", szQuad, R(2), I(v[2], szQuad)),
       i, Source("push", szQuad, R(1), None), j,
       Source("halt", szByte, None, None)>> : v \in Loaded, i \in Pool, j \in Follow}
MCConsts == [i \in 1..27 |-> i % 3]
(* A stack that fits; one so small that its marker is written over the     *)
(* constants; one smaller than the memory that leaves no heap; one of all  *)
(* the memory; one that is larger                                          *)
MCRequests == {<<80, 40>>, <<80, 24>>, <<48, 40>>, <<16, 40>>, <<16, 104>>}
=============================================================================
