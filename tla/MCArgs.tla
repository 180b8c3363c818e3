------------------------------- MODULE MCArgs -------------------------------
(* Command lines of up to three arguments for both programs. *)
EXTENDS Programs

Plain(t) == [form |-> "plain", text |-> t]
Short(sf, t) == [form |-> "short", sf |-> sf, text |-> t]
Long(n, t) == [form |-> "long", name |-> n, text |-> t]

Arguments ==
  {[form |-> "marker"], Plain(<<"run">>), Plain(<<"dassem">>), Plain(<<"help">>), Plain(<<"assem">>),
   Plain(<<"p">>),
   Plain(<<>>), Plain(<<"8", "k">>), Plain(<<"EXEC", "|", "HEAP">>), Plain(<<"x", " ", "|", "EXEC">>),
   Short("v", NULL), Short("h", NULL), Short("t", <<"EXEC", " ">>), Short("t", NULL),
    Short("H", NULL), Short("z", NULL),
   Long(<<"h", "i", "d", "e">>, NULL), Long(hideAddr, NULL), Long(output, NULL), Long(output, <<"p">>),
   Long(Xss, <<"8">>), Long(Xss, NULL), Long(Xms, <<"huge", "k">>),
   Long(<<"h">>, NULL), Long(<<"t">>, <<"8">>), Long(<<"t", "r", "a", "c", "e">>, <<"ALL", "|">>)}

MCMains == {cynvm, cynas}
MCArgvs ==
  UNION {[1 .. n -> Arguments] : n \in 0 .. 3}
=============================================================================
