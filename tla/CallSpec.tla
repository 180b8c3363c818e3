----------------------------- MODULE CallSpec -----------------------------
(***************************************************************************)
(* What the instructions push, pop, popn, alloca, call, ret and ncall      *)
(* promise a guest program: a stack of frames, each with the arguments it  *)
(* was called with, the place it returns to and operands of its own.  No   *)
(* addresses, no saved registers, no counts kept in memory.                *)
(***************************************************************************)
EXTENDS Integers, Sequences, SequencesExt

CONSTANTS Code, len,   \* instruction addresses; len is one past the last
          entry,       \* where a program starts
          Vals,        \* what a guest pushes and native calls return
          Argc,        \* numbers of command line arguments
          Calls(_, _), \* may native function f be called with so many arguments?
          NativeFns    \* the native functions

VARIABLES frames,      \* the last frame is the running one, the first the host's
          ip, status,
          sys          \* what the last instruction passed to the system

Frame(ret, args, opnds) == [ret |-> ret, args |-> args, opnds |-> opnds]

Depth == Len(frames)

Own == frames[Depth].opnds

(* The frames when the running one has operands s. *)
With(s) == [frames EXCEPT ![Depth].opnds = s]

Init ==
  /\ frames = <<Frame(0, <<>>, <<>>)>>
  /\ ip = entry /\ status = "boot" /\ sys = <<>>

Running == status = "run" /\ ip < len

(* The host calls the program with n arguments; returning from it ends it. *)
Boot ==
  /\ status = "boot"
  /\ \E n \in Argc : \E argv \in [1 .. n -> Vals] :
       frames' = Append(frames, Frame(len, argv, <<>>))
  /\ status' = "run"
  /\ sys' = <<>>
  /\ UNCHANGED ip

(* Operands are added, dropped or overwritten, or an argument is. *)
Operands ==
  LET own == Own
      new == frames'[Depth].opnds
      args == frames[Depth].args
  IN  /\ Running
      /\ Len(frames') = Depth
      /\ \/ /\ frames' = With(new)
            /\ \/ IsPrefix(own, new) /\ \A i \in Len(own) + 1 .. Len(new) : new[i] \in Vals
               \/ IsPrefix(new, own)
               \/ \E i \in 1 .. Len(own), v \in Vals : new = [own EXCEPT ![i] = v]
         \/ \E i \in 1 .. Len(args), v \in Vals :
              frames' = [frames EXCEPT ![Depth].args[i] = v]
      /\ sys' = <<>>
      /\ UNCHANGED <<ip, status>>

Jump == Running /\ ip' \in Code \cup {len} /\ sys' = <<>> /\ UNCHANGED <<frames, status>>

(* The last operand says how many of those before it are arguments. *)
Passed ==
  LET k == Last(Own) IN SubSeq(Own, Len(Own) - k, Len(Own) - 1)

Kept == SubSeq(Own, 1, Len(Own) - 1 - Last(Own))

PassesArguments == Own # <<>> /\ Last(Own) < Len(Own)

Call ==
  /\ Running /\ PassesArguments
  /\ frames' = Append(With(Kept), Frame(ip, Passed, <<>>))
  /\ ip' \in Code
  /\ sys' = <<>>
  /\ UNCHANGED status

(* The caller continues where it called, its arguments replaced by the
   results and their number; the rest of its operands is as it left them. *)
Ret ==
  /\ Running /\ Depth > 1
  /\ \E n \in 0 .. Len(Own) :
       LET results == SubSeq(Own, Len(Own) - n + 1, Len(Own))
           caller == frames[Depth - 1]
       IN  frames' = Append(SubSeq(frames, 1, Depth - 2),
                            [caller EXCEPT !.opnds = @ \o results \o <<n>>])
  /\ ip' = frames[Depth].ret
  /\ sys' = <<>>
  /\ UNCHANGED status

(* A native function sees the arguments in the order they were pushed and
   leaves one result. *)
NativeCall ==
  /\ Running /\ PassesArguments
  /\ \E f \in NativeFns, r \in Vals :
       /\ Calls(f, Len(Passed))
       /\ sys' = <<f, Passed>>
       /\ frames' = With(Kept \o <<r, 1>>)
  /\ UNCHANGED <<ip, status>>

Stop ==
  /\ status \in {"boot", "run"} /\ status' \in {"halt", "abort"}
  /\ UNCHANGED <<frames, ip, sys>>

Next == Boot \/ Operands \/ Jump \/ Call \/ Ret \/ NativeCall \/ Stop

Spec == Init /\ [][Next]_<<frames, ip, status, sys>>
=============================================================================
