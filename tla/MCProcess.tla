---------------------------- MODULE MCProcess ----------------------------
(***************************************************************************)
(* Small programs, users and policies for TLC.                             *)
(***************************************************************************)
EXTENDS Process

\* A loop that sends itself a SIGTRAP and may run into unmapped memory, an int3 of the
\* program's own, and the end.
TrapProg == [a \in Addr |->
    CASE a = 0 -> "kill" [] a = 1 -> "plain" [] a = 2 -> "int3" [] a = 3 -> "exit"
      [] OTHER -> "fault"]
TrapSucc == [a \in Addr |-> IF a = 1 THEN {0, 2, Last} ELSE {}]

\* The same loop around a system call that may block.
WriteProg == [TrapProg EXCEPT ![0] = "write"]
WriteSucc == [a \in Addr |-> IF a = 1 THEN {0, 2} ELSE {}]

CatchNone == [mode |-> "none", to_catch |-> {}]
CatchAll  == [mode |-> "all", to_catch |-> {}]
CatchSome(S) == [mode |-> "some", to_catch |-> S]

OnlyAll    == {CatchAll}
AnyPolicy  == {CatchNone, CatchAll, CatchSome({"kill"}), CatchSome({"write"})}
=============================================================================
