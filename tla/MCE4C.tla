------------------------------- MODULE MCE4C -------------------------------
(* The types of e4c.c and itp.c                                            *)
EXTENDS E4C
MCSupertype == [t \in Types |-> "RuntimeException"]
MCCatches == {{}, {"ITPException"}, {"RuntimeException"},
              {"ITPException", "NullPointerException"}}
=============================================================================
