-------------------------------- MODULE E4C --------------------------------
(***************************************************************************)
(* The exceptions of e4c.c and e4c.h: one global context with an array of  *)
(* frames, an array of jump buffers and one exception, on which the macros *)
(* E4C_TRY, E4C_CATCH and E4C_FINALLY build blocks out of a setjmp, a loop *)
(* and a chain of ifs.  The code in the blocks (the assembler's, around    *)
(* every statement) is any code that begins blocks, throws and ends.       *)
(*                                                                         *)
(* live is the nesting of the blocks in the C program, innermost last: a   *)
(* longjmp to a block that is not among them is undefined.                 *)
(***************************************************************************)
EXTENDS Integers, Sequences, FiniteSets

CONSTANTS Types, Supertype, RuntimeException,
          Catches,              \* the types a block may have E4C_CATCH for
          E4C_MAX_FRAMES

(* The supertypes of a type end at one that is its own supertype           *)
ASSUME TypesAssumption ==
    /\ Supertype \in [Types -> Types] /\ RuntimeException \in Types
    /\ Catches \subseteq SUBSET Types
    /\ E4C_MAX_FRAMES \in Nat \ {0}

(* enum e4c_stage                                                          *)
beginning == 0
trying == 1
catching == 2
finalizing == 3
done == 4

VARIABLES frames, frame,        \* struct e4c_context: the number of frames,
                                \* the stage and uncaught mark of each
          err,                  \* the type of the one exception
          jump,                 \* the block each jump buffer was set in
          live,                 \* the blocks of the C program: id and handlers
          at                    \* where it is: in its own "code", at the loop
                                \* that calls "hook", "exit", or "lost" after
                                \* a jump to a block that had ended

vars == <<frames, frame, err, jump, live, at>>

Ids == 1..E4C_MAX_FRAMES + 1

Init ==
    /\ frames = 0 /\ err = RuntimeException
    /\ frame = [i \in 0..E4C_MAX_FRAMES |-> [stage |-> beginning, uncaught |-> FALSE]]
    /\ jump = [i \in 0..E4C_MAX_FRAMES - 1 |-> 0]
    /\ live = <<>> /\ at = "code"

(* e4c_propagate, with fr the frames and n their number when it is called  *)
e4c_propagate(n, fr) ==
    /\ frames' = n
    /\ frame' = [fr EXCEPT ![n].uncaught = TRUE]
    /\ LET here == {i \in DOMAIN live : live[i].id = jump[n - 1]}
       IN  IF n = 0 THEN live' = <<>> /\ at' = "exit"
           ELSE IF here = {} THEN UNCHANGED live /\ at' = "lost"
           ELSE /\ live' = SubSeq(live, 1, CHOOSE i \in here : TRUE)
                /\ at' = "hook"

(* e4c.err is the one exception there is: a finalizer that runs while an   *)
(* exception waits loses it when code nested in it throws and catches      *)
(* another.  The code in the blocks does not do that.                      *)
Keeps == \A i \in 1..frames - 1 :
            ~(frame[i].stage = finalizing /\ frame[i].uncaught)

e4c_throw(t) ==
    /\ Keeps
    /\ err' = t
    /\ e4c_propagate(frames, frame)
    /\ UNCHANGED jump

Throw(t) == at = "code" /\ e4c_throw(t)

(* Fault: a frame keeps the mark of the block that used it before          *)
e4c_tryMarked(c) ==
    /\ at = "code"
    /\ IF frames >= E4C_MAX_FRAMES THEN e4c_throw(RuntimeException)
       ELSE \E id \in Ids \ {live[i].id : i \in DOMAIN live} :
         /\ frames' = frames + 1
         /\ frame' = [frame EXCEPT ![frames + 1].stage = beginning]
         /\ jump' = [jump EXCEPT ![frames] = id]
         /\ live' = Append(live, [id |-> id, catches |-> c])
         /\ at' = "hook" /\ UNCHANGED err

(* E4C_TRY: e4c_try, then setjmp, whose first return goes to the loop      *)
e4c_try(c) ==
    /\ at = "code"
    /\ IF frames >= E4C_MAX_FRAMES THEN e4c_throw(RuntimeException)
       ELSE \E id \in Ids \ {live[i].id : i \in DOMAIN live} :
         /\ frames' = frames + 1
         /\ frame' = [frame EXCEPT ![frames + 1] =
                        [stage |-> beginning, uncaught |-> FALSE]]
         /\ jump' = [jump EXCEPT ![frames] = id]
         /\ live' = Append(live, [id |-> id, catches |-> c])
         /\ at' = "hook" /\ UNCHANGED err

(* The code of the stage ends, and the loop goes round                     *)
CodeEnds ==
    /\ at = "code" /\ live /= <<>>
    /\ at' = "hook"
    /\ UNCHANGED <<frames, frame, err, jump, live>>

(* Is child a subtype of parent, other than itself?                        *)
e4c_extends(child, parent) ==
    LET up[n \in 0..Cardinality(Types)] ==
            IF n = 0 THEN child ELSE Supertype[up[n - 1]]
    IN  \E n \in 1..Cardinality(Types) : up[n] /= up[n - 1] /\ up[n] = parent

E4C_IS_INSTANCE_OF(t) == err = t \/ e4c_extends(err, t)

(* The stage e4c_hook(0) goes to: catching only with something to catch    *)
NextStage ==
    LET s == frame[frames].stage + 1
    IN  IF s = catching /\ ~frame[frames].uncaught THEN s + 1 ELSE s

Caught == \E t \in live[Len(live)].catches : E4C_IS_INSTANCE_OF(t)

(* The loop's condition before the last stage, and the if that takes the   *)
(* stage: E4C_CATCH asks for the type and calls e4c_hook(1), which clears  *)
(* the mark; without a match no code runs                                  *)
HookRuns ==
    /\ at = "hook" /\ NextStage < done
    /\ LET catch == NextStage = catching /\ Caught
       IN  /\ frame' = [frame EXCEPT ![frames].stage = NextStage,
                            ![frames].uncaught = IF catch THEN FALSE ELSE @]
           /\ at' = IF NextStage /= catching \/ catch THEN "code" ELSE "hook"
    /\ UNCHANGED <<frames, err, jump, live>>

(* Fault: the frame is given up only when an exception leaves the block    *)
HookEndsKeeps ==
    /\ at = "hook" /\ NextStage = done
    /\ LET fr == [frame EXCEPT ![frames].stage = done]
       IN  IF frame[frames].uncaught THEN e4c_propagate(frames - 1, fr)
           ELSE /\ frames' = frames /\ frame' = fr
                /\ live' = SubSeq(live, 1, Len(live) - 1) /\ at' = "code"
    /\ UNCHANGED <<err, jump>>

(* The last call of e4c_hook(0): the frame goes first, so that what was    *)
(* not caught propagates to the block outside                              *)
HookEnds ==
    /\ at = "hook" /\ NextStage = done
    /\ LET fr == [frame EXCEPT ![frames].stage = done]
       IN  IF frame[frames].uncaught THEN e4c_propagate(frames - 1, fr)
           ELSE /\ frames' = frames - 1 /\ frame' = fr
                /\ live' = SubSeq(live, 1, Len(live) - 1) /\ at' = "code"
    /\ UNCHANGED <<err, jump>>

Next == \/ \E c \in Catches : e4c_try(c)
        \/ \E t \in Types : Throw(t)
        \/ CodeEnds \/ HookRuns \/ HookEnds

Spec == Init /\ [][Next]_vars

(* The jump an exception would take leads to the innermost block of the C  *)
(* program, never to one that has ended, and there are as many frames as   *)
(* blocks: e4c_hook and e4c_try stay in step with the nesting of the code  *)
(* through every throw, in blocks, handlers, finalizers and at the limit.  *)
JumpsToLiveBlock ==
    /\ at /= "lost"
    /\ at /= "exit" => /\ frames = Len(live)
                       /\ frames > 0 => jump[frames - 1] = live[frames].id

(* A frame whose block began is seen as a block in its phase               *)
Phase(i) == CASE frame[i].stage = catching -> "catch"
              [] frame[i].stage = finalizing -> "finally"
              [] OTHER -> "try"
Blocks == [i \in DOMAIN live |->
              [catches |-> live[i].catches, phase |-> Phase(i),
               pending |-> IF frame[i].uncaught THEN {err} ELSE {}]]

Promise == INSTANCE TrySpec WITH
    blocks <- Blocks, exited <- (at = "exit"),
    running <- (at = "code" \/ (at = "hook" /\ frame[frames].stage = beginning)),
    Handled <- [t \in Types |-> {t} \cup {p \in Types : e4c_extends(t, p)}],
    TooDeep <- RuntimeException, MaxDepth <- E4C_MAX_FRAMES

(* The macros give the meaning of try, catch and finally: one global       *)
(* exception and one mark per frame do what an exception of its own for    *)
(* each block would, so that handlers get what they name, finalizers run   *)
(* once and what is not handled goes on outside.                           *)
BlocksMeanTry == Promise!Spec
=============================================================================
