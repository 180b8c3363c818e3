---------------------------- MODULE MCAssembler ----------------------------
(* Operands of every kind, two variables of which the second lies behind the
   range of a byte. *)
EXTENDS Assembler

Op(kind, val) == [kind |-> kind, val |-> val, sign |-> "", hash |-> FALSE, mem |-> FALSE,
                  minus |-> 0, ea |-> NoEA]
Mem(r, kind, sign, val) ==
  [Op("name", r) EXCEPT !.mem = TRUE, !.ea = [kind |-> kind, sign |-> sign, val |-> val]]

r1 == Op("name", "r1")
Singles ==
  {<<>>, <<r1>>, <<[Op("Int", 200) EXCEPT !.sign = "-"]>>, <<Op("name", "main")>>,
   <<Op("name", "L")>>, <<Op("name", "x")>>, <<[Op("name", "x") EXCEPT !.minus = 1]>>,
   <<[Op("name", "x") EXCEPT !.hash = TRUE]>>, <<Op("name", "argc")>>, <<Op("Float", 1)>>}
Pairs ==
  {<<r1, o>> : o \in {Op("Int", 200), Op("Char", 10), Op("name", "L"), [Op("name", "y") EXCEPT !.mem = TRUE],
                      Op("name", "__read"), Mem("r1", "int", "-", 200), Mem("r1", "name", "", "y"),
                      Mem("r1", "size", "", "x"), [Mem("x", "name", "", "y") EXCEPT !.hash = TRUE],
                      Mem("x", "int", "", 4), Mem("r1", "other", "", 0)}}
  \cup {<<Op("name", "L"), r1>>, <<Op("name", "L"), Op("name", "L")>>,
        <<Op("name", "L"), [r1 EXCEPT !.hash = TRUE]>>}
Jumps == {<<Op("name", "main")>>, <<Op("name", "L")>>, <<r1, Op("name", "L")>>}
MCOperands == <<Jumps, Singles \cup Pairs, Jumps>>

MCDefines == [argc |-> 16, __read |-> 0]
MCInitializers ==
  {[form |-> "space", n |-> 100, mode |-> "s"], [form |-> "Int", n |-> 0, mode |-> "x"],
   [form |-> "Float", n |-> 0, mode |-> "q"], [form |-> "wide", n |-> 2, mode |-> "b"]}
=============================================================================
