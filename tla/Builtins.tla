----------------------------- MODULE Builtins -----------------------------
(***************************************************************************)
(* The native calls of the virtual machine: src/src/vm/builtins.c.  Each   *)
(* one checks the number of arguments the guest passed, reads its          *)
(* arguments below the pointer it is given, calls the operating system and *)
(* returns one value.  What the operating system does is left open; kept   *)
(* is which counts are accepted and how many arguments are read.           *)
(***************************************************************************)
EXTENDS Integers, TLC

(* The number of arguments the calls on files and directories insist on. *)
FileArity ==
  [Write |-> 3, Read |-> 3, Open |-> 2, Close |-> 1, Stat |-> 2, Lstat |-> 2,
   Fstat |-> 2, Poll |-> 3, Lseek |-> 3]

DescriptorArity ==
  [Pipe |-> 1, Select |-> 5, Dup |-> 1, Dup2 |-> 1, Getpid |-> 0, Sendfile |-> 4, Fcntl |-> 2]

SocketArity ==
  [Socket |-> 3, Connect |-> 3, Accept |-> 3, Sendto |-> 6, Recvfrom |-> 6,
   Shutdown |-> 2, Bind |-> 3]

ListenArity == [Listen |-> 2, Getsockname |-> 3, Getpeername |-> 3]

(* The calls that are declared and abort whenever they are made. *)
Unimplemented ==
  {"Flock", "Fsync", "Fetcwd", "Chdir", "Rename", "Mkdir", "Rmdir", "Creat",
   "Link", "Unlink", "Symlink"}

ArityOf == FileArity @@ DescriptorArity @@ SocketArity @@ ListenArity

Implemented == DOMAIN ArityOf

Natives == Implemented \cup Unimplemented

(* The assertion on nargs at the head of f; Open and Fcntl take a third
   argument. *)
Accepts(f, nargs) ==
  /\ f \in Implemented
  /\ nargs = ArityOf[f] \/ (f \in {"Open", "Fcntl"} /\ nargs = 3)

(* How many arguments f goes on to read: Dup2 checks for one and reads two,
   Fcntl reads the third when it was passed two. *)
Reads(f, nargs) ==
  CASE f = "Dup2" -> 2
    [] f = "Fcntl" -> IF nargs = 2 THEN 3 ELSE 2
    [] OTHER -> nargs
=============================================================================
