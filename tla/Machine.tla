------------------------------ MODULE Machine ------------------------------
(***************************************************************************)
(* The program that the debugger controls, as the processor and the kernel *)
(* see it: its code, and where each instruction may go next.  None of this *)
(* is code under src/: src/ only observes it through ptrace and waitpid.   *)
(*                                                                         *)
(* One instruction occupies one address.  What the debugger's code relies  *)
(* on is only that an int3 is one byte, so that the pc is one past the     *)
(* breakpoint when it traps.                                               *)
(***************************************************************************)
EXTENDS Integers

CONSTANTS
    Last,     \* the highest address; executing there faults
    Prog,     \* the code, as it is in the executable
    Succ,     \* where a plain instruction (a jump, a branch) may go
    Start,    \* the first instruction of the program
    None      \* no system call, no address

Addr == 0 .. Last

\* A `kill` sends the program itself a SIGTRAP, as the anti_debugger test target
\* and the raise(SIGTRAP) of the other targets do; an `exit` never returns; a
\* `write` is any other system call, which may block.
Syscalls == {"write", "kill", "exit"}
Instr    == {"plain", "int3", "fault"} \union Syscalls

ASSUME LastAssumption  == Last \in Nat
ASSUME ProgAssumption  == Prog \in [Addr -> Instr] /\ Prog[Last] = "fault"
ASSUME SuccAssumption  == Succ \in [Addr -> SUBSET Addr]
ASSUME StartAssumption == Start \in Addr
ASSUME NoneAssumption  == None \notin Addr /\ None \notin Syscalls
=============================================================================
