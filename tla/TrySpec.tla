------------------------------ MODULE TrySpec ------------------------------
(***************************************************************************)
(* What try blocks promise: every block begun runs its finalizer once and  *)
(* then ends; an exception goes to the innermost block, which handles it   *)
(* if it has a handler for it and it was not thrown by the handler or the  *)
(* finalizer itself, and else hands it on to the next block when its own   *)
(* finalizer has run.  Each block has an exception of its own pending.     *)
(***************************************************************************)
EXTENDS Integers, Sequences

CONSTANTS Types,            \* the types of exceptions
          Catches,          \* the sets of types a block may have handlers for
          Handled,          \* Handled[t]: the types a handler may name to get t
          TooDeep,          \* what a block begun at the limit throws
          MaxDepth

VARIABLES blocks,           \* the blocks begun and not ended, innermost last
          running,          \* does the code of the innermost block run?
          exited            \* an exception left the outermost block

vars == <<blocks, running, exited>>

top == blocks[Len(blocks)]
Outer == SubSeq(blocks, 1, Len(blocks) - 1)
WithTop(b) == blocks' = Append(Outer, b)

Init == blocks = <<>> /\ running = TRUE /\ exited = FALSE

(* Exception t arrives in the innermost of the blocks bs                   *)
Raise(bs, t) ==
    IF bs = <<>> THEN blocks' = bs /\ exited' = TRUE /\ running' = FALSE
    ELSE /\ blocks' = [bs EXCEPT ![Len(bs)].pending = {t}]
         /\ running' = FALSE /\ UNCHANGED exited

Begin(c) ==
    /\ running
    /\ IF Len(blocks) = MaxDepth THEN Raise(blocks, TooDeep)
       ELSE /\ blocks' = Append(blocks, [catches |-> c, phase |-> "try",
                                         pending |-> {}])
            /\ UNCHANGED <<running, exited>>

Throw(t) == running /\ Raise(blocks, t)

(* The code of the phase comes to its end                                  *)
Finish == /\ running /\ blocks /= <<>>
          /\ running' = FALSE /\ UNCHANGED <<blocks, exited>>

Leaving == ~running /\ ~exited

Handles(t) == top.catches \cap Handled[t] /= {}

Handle ==
    /\ Leaving /\ top.phase = "try"
    /\ \E t \in top.pending : Handles(t)
    /\ WithTop([top EXCEPT !.phase = "catch", !.pending = {}])
    /\ running' = TRUE /\ UNCHANGED exited

Unhandled ==
    /\ Leaving /\ top.phase = "try"
    /\ \E t \in top.pending : ~Handles(t)
    /\ WithTop([top EXCEPT !.phase = "catch"])
    /\ UNCHANGED <<running, exited>>

Finalize ==
    /\ Leaving
    /\ top.phase = "catch" \/ (top.phase = "try" /\ top.pending = {})
    /\ WithTop([top EXCEPT !.phase = "finally"])
    /\ running' = TRUE /\ UNCHANGED exited

End ==
    /\ Leaving /\ top.phase = "finally"
    /\ IF top.pending = {} THEN blocks' = Outer /\ running' = TRUE /\ UNCHANGED exited
       ELSE \E t \in top.pending : Raise(Outer, t)

Next == \/ \E c \in Catches : Begin(c)
        \/ \E t \in Types : Throw(t)
        \/ Finish \/ Handle \/ Unhandled \/ Finalize \/ End

Spec == Init /\ [][Next]_vars
=============================================================================
