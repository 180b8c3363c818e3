------------------------------ MODULE MCRbTree ------------------------------
(* Names of which some begin others *)
EXTENDS RbTree
MCKeys == {<<1>>, <<1, 1>>, <<1, 2>>, <<2>>}
=============================================================================
