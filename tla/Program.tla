------------------------------ MODULE Program ------------------------------
(***************************************************************************)
(* What a debugger must leave of the program it controls: the program      *)
(* executes its own code, one instruction after the other, as if no        *)
(* breakpoint had ever been written over it.  The only freedom the user    *)
(* has is to move the pc.  Process.tla implements this module.             *)
(***************************************************************************)
EXTENDS Machine

CONSTANTS
    JumpTo,   \* the addresses to which the user may move the pc
    Gone      \* the pc of a program that has ended

VARIABLES
    ppc,      \* the address of the next instruction, or Gone
    psys      \* the system call in progress, or None

vars == <<ppc, psys>>

InUserCode(instr) == ppc # Gone /\ psys = None /\ Prog[ppc] = instr

Init == ppc = Start /\ psys = None

Plain == InUserCode("plain") /\ ppc' \in Succ[ppc] /\ UNCHANGED psys

\* The program's own int3: it is told of a SIGTRAP, and goes on.
Int3 == InUserCode("int3") /\ ppc' = ppc + 1 /\ UNCHANGED psys

SyscallEntry ==
    /\ \E s \in Syscalls : InUserCode(s) /\ psys' = s
    /\ ppc' = ppc + 1

SyscallReturn ==
    /\ ppc # Gone /\ psys \notin {None, "exit"}
    /\ psys' = None
    /\ UNCHANGED ppc

\* By its exit, or by a SIGKILL from anywhere.
End == ppc # Gone /\ ppc' = Gone /\ psys' = None

SetPc == ppc # Gone /\ ppc' \in JumpTo /\ UNCHANGED psys

Next == Plain \/ Int3 \/ SyscallEntry \/ SyscallReturn \/ End \/ SetPc

Spec == Init /\ [][Next]_vars
=============================================================================
