------------------------- MODULE ProcessRefinement -------------------------
(***************************************************************************)
(* Process.tla implements Program.tla: the program under the debugger is   *)
(* the program.  The refinement mapping is that of Process.tla: while the  *)
(* stop at a breakpoint has not been handled, the pc is one too far.       *)
(* The second part proves what the user is told of stops, from a third     *)
(* invariant that relates the pending request, the phase of the system     *)
(* call and the pc; the last one that every waitpid has an answer, where   *)
(* the user is told of both ends of a system call, and that a Ctrl-C is    *)
(* not lost.                                                               *)
(***************************************************************************)
EXTENDS ProcessProofs

\* wait_on_signal moves the pc back over an int3 when there is an enabled site of either
\* kind under it.  With a hardware site on an int3 of the program's own, an int3 that is
\* executed would be executed again.
NoInt3UnderHw == \A a \in HwAddrs : Prog[a] # "int3"

\* A status of a breakpoint trap is that of an int3 just before the pc, and it is gone when
\* a call returns.
TrapOK ==
    /\ wstat.kind # "stopped" => wstat.code = "none"
    /\ wstat.info = "SIGTRAP|0x80" => wstat.code = "none"
    /\ wstat.code = "SI_KERNEL" => pc - 1 \in Addr /\ mem[pc - 1] = "int3"
    /\ AtPrompt => wstat.code = "none"

\* The single step in resume executes the instruction at the cached pc, with its site out.
StepPcOK ==
    SteppingOver =>
        /\ request = "PTRACE_SINGLESTEP"
        /\ ~sites[rip].enabled
        /\ tracee = "running" /\ insys = None => pc = rip
        /\ wstat.code = "SI_KERNEL" => pc - 1 = rip

JInv == TrapOK /\ StepPcOK

(***************************************************************************)
(* The second inductive invariant.                                         *)
(***************************************************************************)
\* The status of a trap says which instruction trapped; all others say nothing of it.
LEMMA KernelTrapStep ==
    ASSUME IInv, JInv, Kernel \/ handle_sigint
    PROVE  \/ UNCHANGED <<wstat, pc>>
           \/ Int3 /\ wstat' = Signal("SIGTRAP", "SI_KERNEL")
           \/ /\ wstat'.code # "SI_KERNEL"
              /\ wstat'.kind # "stopped" => wstat'.code = "none"
              /\ wstat'.info = "SIGTRAP|0x80" => wstat'.code = "none"
<1> USE StatusTypes DEF Stop
<1>1. CASE HardwareTrap
  BY <1>1 DEF HardwareTrap
<1>2. CASE Fault
  BY <1>2 DEF Fault
<1>3. CASE Int3
  BY <1>3 DEF Int3
<1>4. CASE Plain
  <2>1. wstat.code = "none"
    BY <1>4 DEF Plain, Fetch, InUserMode, JInv, TrapOK, IInv, StatusOK
  <2> QED
    BY <1>4, <2>1 DEF Plain
<1>5. CASE SyscallEntry
  <2>1. wstat.code = "none"
    BY <1>5 DEF SyscallEntry, Fetch, InUserMode, JInv, TrapOK, IInv, StatusOK
  <2> QED
    BY <1>5, <2>1 DEF SyscallEntry
<1>6. CASE SyscallReturn
  <2>1. insys \in Syscalls
    BY <1>6 DEF SyscallReturn, IInv, TypeOK, KernelType
  <2> QED
    BY <1>6, <2>1 DEF SyscallReturn
<1>7. CASE Exit \/ Kill
  BY <1>7 DEF Exit, Kill, Die, Exited, Terminated, NoStatus
<1>8. CASE Deliver
  <2>1. PICK sig \in pending : wstat' = Signal(sig, "SI_USER")
    BY <1>8 DEF Deliver
  <2>2. sig \in {"SIGTRAP", "SIGSTOP"}
    BY DEF IInv, TypeOK, KernelType
  <2> QED
    BY <2>1, <2>2
<1>9. CASE handle_sigint
  BY <1>9 DEF handle_sigint
<1> QED
  BY <1>1, <1>2, <1>3, <1>4, <1>5, <1>6, <1>7, <1>8, <1>9 DEF Kernel, Execute

LEMMA KernelKeepsJInv ==
    ASSUME IInv, JInv, Kernel \/ handle_sigint
    PROVE  JInv'
<1>1. UNCHANGED <<mem, sites, request, rip, state_, control>>
  BY KernelLeavesDebugger DEF code, debugger
<1>2. TrapOK'
  <2>1. AtPrompt' => wstat'.code = "none"
    <3>1. SUFFICES ASSUME AtPrompt, tracee # "running" PROVE wstat'.code = "none"
      BY <1>1 DEF AtPrompt, IInv, PromptOK
    <3>2. ~Int3
      BY <3>1 DEF Int3, Fetch, InUserMode
    <3>3. wstat' = wstat \/ wstat' \in {Exited, Terminated}
      BY <3>1 DEF Kernel, Execute, HardwareTrap, Fault, Int3, Plain, SyscallEntry,
                  SyscallReturn, Fetch, InUserMode, Exit, Kill, Die, Deliver, handle_sigint
    <3> QED
      BY <3>1, <3>3 DEF JInv, TrapOK, Exited, Terminated, NoStatus
  <2>2. CASE UNCHANGED <<wstat, pc>>
    BY <1>1, <2>1, <2>2 DEF JInv, TrapOK
  <2>3. CASE Int3 /\ wstat' = Signal("SIGTRAP", "SI_KERNEL")
    <3>1. pc \in Addr /\ mem[pc] = "int3" /\ pc' = pc + 1
      BY <2>3 DEF Int3, Fetch, IInv, TypeOK, KernelType
    <3>2. pc' - 1 = pc
      BY <3>1, LastAssumption DEF Addr
    <3> QED
      BY <1>1, <2>1, <2>3, <3>1, <3>2, StatusTypes DEF TrapOK
  <2>4. CASE /\ wstat'.code # "SI_KERNEL"
             /\ wstat'.kind # "stopped" => wstat'.code = "none"
             /\ wstat'.info = "SIGTRAP|0x80" => wstat'.code = "none"
    BY <2>1, <2>4 DEF TrapOK
  <2> QED
    BY <2>2, <2>3, <2>4, KernelTrapStep
<1>3. StepPcOK'
  <2>1. SUFFICES ASSUME SteppingOver, request = "PTRACE_SINGLESTEP"
                 PROVE  /\ tracee' = "running" /\ insys' = None => pc' = rip
                        /\ wstat'.code = "SI_KERNEL" => pc' - 1 = rip
    BY <1>1 DEF JInv, StepPcOK, SteppingOver
  <2>2. tracee' = "running" /\ insys' = None => pc' = rip
    <3>1. tracee' = "running" /\ insys' = None => tracee = "running" /\ UNCHANGED <<pc, insys>>
      BY <2>1, NoneAssumption
      DEF Kernel, Execute, HardwareTrap, Fault, Int3, Plain, SyscallEntry, SyscallReturn, Fetch,
          InUserMode, Stop, Exit, Kill, Die, Deliver, handle_sigint
    <3> QED
      BY <2>1, <3>1 DEF JInv, StepPcOK
  <2>3. wstat'.code = "SI_KERNEL" => pc' - 1 = rip
    <3>1. CASE UNCHANGED <<wstat, pc>>
      BY <2>1, <3>1 DEF JInv, StepPcOK
    <3>2. CASE Int3
      BY <2>1, <3>2 DEF Int3, Fetch, InUserMode, JInv, StepPcOK, IInv, TypeOK, KernelType, Addr
    <3> QED
      BY <3>1, <3>2, KernelTrapStep
  <2> QED
    BY <2>2, <2>3
<1> QED
  BY <1>2, <1>3 DEF JInv

\* Every call and every return from waitpid consumes the status, or leaves all alone.
LEMMA DebuggerKeepsJInv ==
    ASSUME IInv, JInv, Return \/ CallKilled \/ Call
    PROVE  JInv'
<1> USE StatusTypes DEF JInv
<1>1. CASE Resume
  <2>1. /\ wstat' = NoStatus /\ UNCHANGED <<pc, insys, rip>> /\ rip = pc
    BY <1>1 DEF Resume, resume, ptrace, IInv, RegistersCoherent
  <2>2. \/ control' = "step_over" /\ request' = "PTRACE_SINGLESTEP" /\ disable(rip)
        \/ control' = "caller"
    BY <1>1 DEF Resume, resume, ptrace
  <2>3. disable(rip) => ~sites'[rip].enabled
    BY DEF disable, IInv, TypeOK, CodeType, DebuggerType, Site
  <2> QED
    BY <2>1, <2>2, <2>3 DEF TrapOK, StepPcOK, SteppingOver
<1>2. CASE WaitUncaught
  <2>1. /\ wstat' = NoStatus /\ UNCHANGED <<pc, insys>> /\ rip' = pc
    BY <1>2 DEF WaitUncaught, resume, ptrace
  <2>2. \/ control' = "wait_step_over" /\ request' = "PTRACE_SINGLESTEP" /\ disable(pc)
        \/ control' = "wait"
    BY <1>2 DEF WaitUncaught, resume, ptrace
  <2>3. disable(pc) => ~sites'[pc].enabled
    BY DEF disable, IInv, TypeOK, CodeType, KernelType, Site
  <2> QED
    BY <2>1, <2>2, <2>3 DEF TrapOK, StepPcOK, SteppingOver
<1>3. CASE StepOverDone \/ step_instruction \/ WaitStopped \/ StepOverDead \/ WaitDead
  <2>1. wstat' = NoStatus /\ control' \in {"caller", "wait"}
    BY <1>3 DEF StepOverDone, step_instruction, ptrace, WaitStopped, FinishStep, StepOverDead,
                WaitDead
  <2> QED
    BY <2>1 DEF TrapOK, StepPcOK, SteppingOver
<1>4. CASE CallKilled
  BY <1>4 DEF CallKilled, Terminated, NoStatus, TrapOK, StepPcOK, SteppingOver
<1>5. CASE SiteCall \/ \E a \in JumpTo : set_pc(a)
  <2>1. UNCHANGED <<wstat, state_>> /\ control = "caller" /\ control' = "caller" /\ AtPrompt
    BY <1>5 DEF SiteCall, CreateSite, EnableSite, DisableSite, RemoveSite, set_pc, CanPtrace,
                AtPrompt, kernel, debugger
  <2> QED
    BY <2>1 DEF TrapOK, StepPcOK, SteppingOver
<1>6. CASE CallWait \/ CallThrows \/ \E p \in Policies : set_syscall_catch_policy(p)
  <2>1. UNCHANGED <<mem, pc, wstat, state_>> /\ control = "caller"
        /\ control' \in {"caller", "wait"}
    BY <1>6 DEF CallWait, CallThrows, set_syscall_catch_policy, kernel, code, AtPrompt
  <2> QED
    BY <2>1 DEF TrapOK, StepPcOK, SteppingOver, AtPrompt
<1> QED
  BY <1>1, <1>2, <1>3, <1>4, <1>5, <1>6 DEF Return, Call

LEMMA NextKeepsJInv ==
    ASSUME IInv, JInv, [Next]_vars
    PROVE  JInv'
<1>1. CASE UNCHANGED vars
  BY <1>1 DEF vars, JInv, TrapOK, StepPcOK, AtPrompt, SteppingOver
<1> QED
  BY <1>1, KernelKeepsJInv, DebuggerKeepsJInv DEF Next

THEOREM TrapInvariance == Spec => []JInv
<1>1. Init => JInv
  BY StatusTypes DEF Init, JInv, TrapOK, StepPcOK, SteppingOver
<1>2. IInv /\ JInv /\ [Next]_vars => JInv'
  BY NextKeepsJInv
<1> QED
  BY <1>1, <1>2, Invariance, PTL DEF Spec

(***************************************************************************)
(* The refinement, step by step.                                           *)
(***************************************************************************)
Ended == tracee \in {"zombie", "reaped"}

\* What is executed is the program's own code, except at an enabled software site.
LEMMA FetchesProgram ==
    ASSUME IInv
    PROVE  /\ mem[pc] # "int3" => Prog[pc] = mem[pc]
           /\ ~(sites[pc].enabled /\ sites[pc].kind = "software") => Prog[pc] = mem[pc]
BY DEF IInv, TypeOK, KernelType, SitesInMemory

\* While the tracee runs, its pc is the program's.
LEMMA RunningPc ==
    ASSUME IInv, JInv, tracee = "running"
    PROVE  ProgramPc = pc /\ pc \in Addr /\ pc # Gone
BY GoneAssumption
DEF ProgramPc, AtTrap, IInv, StatusOK, TypeOK, KernelType, JInv, TrapOK

LEMMA KernelRefines ==
    ASSUME IInv, JInv, Kernel \/ handle_sigint
    PROVE  P!Next \/ UNCHANGED <<ProgramPc, insys>>
<1> USE StatusTypes DEF Stop
<1>0. UNCHANGED sites
  BY KernelLeavesDebugger DEF code
<1>1. CASE HardwareTrap \/ Fault \/ Deliver
  <2>1. /\ tracee = "running" /\ tracee' = "stopped" /\ pc' = pc /\ insys' = insys
        /\ wstat'.code # "SI_KERNEL"
    <3>1. CASE HardwareTrap
      BY <3>1 DEF HardwareTrap, InUserMode
    <3>2. CASE Fault
      BY <3>2 DEF Fault, Fetch, InUserMode
    <3>3. CASE Deliver
      <4>1. PICK sig \in pending : wstat' = Signal(sig, "SI_USER")
        BY <3>3 DEF Deliver
      <4>2. sig \in {"SIGTRAP", "SIGSTOP"}
        BY DEF IInv, TypeOK, KernelType
      <4> QED
        BY <3>3, <4>1, <4>2 DEF Deliver
    <3> QED
      BY <1>1, <3>1, <3>2, <3>3
  <2> QED
    BY <2>1, RunningPc DEF ProgramPc, AtTrap
<1>2. CASE Int3
  <2>1. /\ tracee = "running" /\ insys = None /\ mem[pc] = "int3" /\ pc' = pc + 1
        /\ tracee' = "stopped" /\ insys' = insys /\ wstat'.code = "SI_KERNEL"
    BY <1>2 DEF Int3, Fetch, InUserMode
  <2>2. pc \in Addr /\ pc + 1 > 0 /\ (pc + 1) - 1 = pc
    BY LastAssumption DEF IInv, TypeOK, KernelType, Addr
  <2>3. CASE sites[pc].enabled /\ sites[pc].kind = "software"
    <3>1. ProgramPc' = pc
      BY <1>0, <2>1, <2>2, <2>3 DEF ProgramPc, AtTrap
    <3> QED
      BY <2>1, <3>1, RunningPc
  <2>4. CASE ~(sites[pc].enabled /\ sites[pc].kind = "software")
    <3>1. ProgramPc' = pc + 1
      BY <1>0, <2>1, <2>2, <2>4 DEF ProgramPc, AtTrap
    <3> QED
      BY <2>1, <2>4, <3>1, RunningPc, FetchesProgram DEF P!Next, P!Int3, P!InUserCode
  <2> QED
    BY <2>3, <2>4
<1>3. CASE Plain
  <2>1. /\ tracee = "running" /\ insys = None /\ mem[pc] = "plain" /\ pc' \in Succ[pc]
        /\ tracee' \in {"running", "stopped"} /\ insys' = insys /\ wstat'.code # "SI_KERNEL"
    BY <1>3 DEF Plain, Fetch, InUserMode, IInv, StatusOK, JInv, TrapOK
  <2>2. ProgramPc' = pc'
    BY <2>1 DEF ProgramPc, AtTrap
  <2> QED
    BY <2>1, <2>2, RunningPc, FetchesProgram DEF P!Next, P!Plain, P!InUserCode
<1>4. CASE SyscallEntry
  <2>1. PICK id \in Syscalls :
            Fetch(id) /\ insys' = id
            /\ IF request = "PTRACE_SYSCALL" THEN Stop(SyscallStatus(id))
               ELSE UNCHANGED <<tracee, wstat>>
    BY <1>4 DEF SyscallEntry
  <2>2. /\ tracee = "running" /\ insys = None /\ mem[pc] = id /\ pc' = pc + 1
        /\ tracee' \in {"running", "stopped"} /\ wstat'.code # "SI_KERNEL"
    BY <1>4, <2>1 DEF SyscallEntry, Fetch, InUserMode, IInv, StatusOK, JInv, TrapOK
  <2>3. ProgramPc' = pc + 1
    BY <2>2 DEF ProgramPc, AtTrap
  <2>4. Prog[pc] = id
    BY <2>2, FetchesProgram DEF Syscalls
  <2> QED
    <3>1. id \in P!Syscalls /\ P!InUserCode(id)
      BY <2>2, <2>4, RunningPc DEF P!InUserCode, P!Syscalls, Syscalls
    <3> QED
      BY <2>1, <2>2, <2>3, <3>1, RunningPc DEF P!Next, P!SyscallEntry
<1>5. CASE SyscallReturn
  <2>1. insys \in Syscalls
    BY <1>5 DEF SyscallReturn, IInv, TypeOK, KernelType
  <2>2. /\ tracee = "running" /\ insys \notin {None, "exit"} /\ insys' = None /\ pc' = pc
        /\ tracee' \in {"running", "stopped"} /\ wstat'.code # "SI_KERNEL"
    BY <1>5, <2>1 DEF SyscallReturn, IInv, StatusOK, JInv, TrapOK
  <2>3. ProgramPc' = pc
    BY <2>2 DEF ProgramPc, AtTrap
  <2> QED
    BY <2>2, <2>3, RunningPc DEF P!Next, P!SyscallReturn
<1>6. CASE Exit \/ Kill
  <2>1. ~Ended /\ tracee' = "zombie" /\ insys' = None
    BY <1>6 DEF Exit, Kill, Die, Ended
  <2>2. ProgramPc # Gone
    BY <2>1, GoneAssumption
    DEF Ended, ProgramPc, AtTrap, IInv, TypeOK, KernelType, JInv, TrapOK
  <2> QED
    BY <2>1, <2>2 DEF ProgramPc, P!Next, P!End
<1>7. CASE handle_sigint
  BY <1>0, <1>7 DEF handle_sigint, ProgramPc, AtTrap
<1> QED
  BY <1>1, <1>2, <1>3, <1>4, <1>5, <1>6, <1>7 DEF Kernel, Execute

\* Of the debugger's steps only set_pc and the death of the tracee are seen.
LEMMA ReturnRefines ==
    ASSUME NoInt3UnderHw, IInv, JInv, Return \/ CallKilled
    PROVE  P!Next \/ UNCHANGED <<ProgramPc, insys>>
<1> USE StatusTypes
<1>1. CASE StepOverDone
  <2>1. /\ tracee = "stopped" /\ SteppingOver /\ pc' = pc /\ insys' = insys
        /\ tracee' = "running" /\ wstat'.code = "none"
    BY <1>1 DEF StepOverDone, ptrace, SteppingOver, IInv, StatusOK
  <2>2. ~AtTrap /\ ~AtTrap'
    BY <2>1 DEF AtTrap, JInv, StepPcOK
  <2> QED
    BY <2>1, <2>2 DEF ProgramPc
<1>2. CASE StepOverDead \/ WaitDead
  <2>1. Ended /\ Ended' /\ insys' = insys
    BY <1>2 DEF StepOverDead, WaitDead, Ended
  <2> QED
    BY <2>1 DEF Ended, ProgramPc
<1>3. CASE WaitStopped
  <2>1. /\ tracee = "stopped" /\ tracee' = tracee /\ insys' = insys /\ wstat'.code = "none"
        /\ pc' = instr_begin(wstat)
    BY <1>3 DEF WaitStopped, write_rip, IInv, StatusOK
  <2>2. ProgramPc' = instr_begin(wstat)
    BY <2>1 DEF ProgramPc, AtTrap
  <2>3. instr_begin(wstat) = IF AtTrap THEN pc - 1 ELSE pc
    <3>1. CASE wstat.code = "SI_KERNEL"
      <4>1. pc - 1 \in Addr /\ mem[pc - 1] = "int3" /\ pc > 0
            /\ trap_reason(wstat) = "software_break"
        BY <3>1, LastAssumption
        DEF JInv, TrapOK, trap_reason, IInv, TypeOK, KernelType, Addr
      <4>2. enabled_stoppoint_at_address(pc - 1) =
                (sites[pc - 1].enabled /\ sites[pc - 1].kind = "software")
        <5>1. sites[pc - 1].enabled => sites[pc - 1].kind # "hardware"
          BY <4>1 DEF NoInt3UnderHw, IInv, SitesAllowed, SitesInMemory
        <5> QED
          BY <4>1, <5>1
          DEF enabled_stoppoint_at_address, contains_address, IInv, TypeOK, CodeType, Site
      <4> QED
        BY <3>1, <4>1, <4>2 DEF instr_begin, AtTrap
    <3>2. CASE wstat.code # "SI_KERNEL"
      <4>1. trap_reason(wstat) # "software_break"
        BY <3>2 DEF trap_reason
      <4> QED
        BY <3>2, <4>1 DEF instr_begin, AtTrap
    <3> QED
      BY <3>1, <3>2
  <2> QED
    BY <2>1, <2>2, <2>3 DEF ProgramPc
<1>4. CASE WaitUncaught
  <2>1. /\ tracee = "stopped" /\ pc' = pc /\ insys' = insys /\ tracee' = "running"
        /\ wstat.code = "none" /\ wstat'.code = "none"
    BY <1>4 DEF WaitUncaught, Uncaught, resume, ptrace, IInv, StatusOK, JInv, TrapOK
  <2> QED
    BY <2>1 DEF ProgramPc, AtTrap
<1>5. CASE CallKilled
  <2>1. tracee = "stopped" /\ tracee' = "zombie" /\ insys' = None
    BY <1>5 DEF CallKilled, IInv, StatusOK
  <2>2. ProgramPc # Gone
    BY <2>1, GoneAssumption DEF ProgramPc, AtTrap, IInv, TypeOK, KernelType, JInv, TrapOK
  <2> QED
    BY <2>1, <2>2 DEF ProgramPc, P!Next, P!End
<1> QED
  BY <1>1, <1>2, <1>3, <1>4, <1>5 DEF Return

LEMMA CallRefines ==
    ASSUME IInv, JInv, Call
    PROVE  P!Next \/ UNCHANGED <<ProgramPc, insys>>
<1> USE StatusTypes
<1>1. CASE Resume \/ step_instruction
  <2>1. /\ AtPrompt /\ tracee = "stopped" /\ tracee' = "running" /\ pc' = pc
        /\ insys' = insys /\ wstat'.code = "none"
    BY <1>1 DEF Resume, resume, step_instruction, ptrace, CanPtrace
  <2> QED
    BY <2>1 DEF ProgramPc, AtTrap, JInv, TrapOK
<1>2. CASE SiteCall \/ CallThrows
  <2>1. AtPrompt /\ UNCHANGED <<tracee, pc, insys, wstat>>
    BY <1>2 DEF SiteCall, CreateSite, EnableSite, DisableSite, RemoveSite, CanPtrace,
                CallThrows, kernel
  <2> QED
    BY <2>1 DEF ProgramPc, AtTrap, JInv, TrapOK
<1>3. CASE CallWait \/ \E p \in Policies : set_syscall_catch_policy(p)
  <2>1. UNCHANGED <<tracee, pc, insys, wstat, sites>>
    BY <1>3 DEF CallWait, set_syscall_catch_policy, kernel, code
  <2> QED
    BY <2>1 DEF ProgramPc, AtTrap
<1>4. CASE \E a \in JumpTo : set_pc(a)
  <2>1. /\ AtPrompt /\ tracee = "stopped" /\ UNCHANGED <<tracee, insys, wstat>>
        /\ pc' \in JumpTo
    BY <1>4 DEF set_pc, CanPtrace, write_rip
  <2>2. ProgramPc = pc /\ ProgramPc' = pc' /\ pc # Gone
    BY <2>1, GoneAssumption DEF ProgramPc, AtTrap, JInv, TrapOK, IInv, TypeOK, KernelType
  <2> QED
    BY <2>1, <2>2 DEF P!Next, P!SetPc
<1> QED
  BY <1>1, <1>2, <1>3, <1>4 DEF Call

\* Whatever the program, the user and the signals do, what the tracee executes is its own
\* program, no instruction left out and none twice; provided that no hardware site is put
\* on an int3 of the program's own.
THEOREM Implements ==
    ASSUME NoInt3UnderHw
    PROVE  Spec => Transparency
<1>1. Init => P!Init
  BY DEF Init, P!Init, ProgramPc, AtTrap, NoStatus
<1>2. IInv /\ JInv /\ [Next]_vars => [P!Next]_(P!vars)
  <2>1. SUFFICES ASSUME IInv, JInv, [Next]_vars
                 PROVE  P!Next \/ UNCHANGED <<ProgramPc, insys>>
    BY DEF P!vars
  <2>2. CASE UNCHANGED vars
    BY <2>2 DEF vars, ProgramPc, AtTrap
  <2> QED
    BY <2>1, <2>2, KernelRefines, ReturnRefines, CallRefines DEF Next
<1> QED
  BY <1>1, <1>2, Invariance, TrapInvariance, PTL DEF Spec, Transparency, P!Spec

(***************************************************************************)
(* The third invariant: system call stops, and what the user was told.  It *)
(* is about a race that the two step-overs run against themselves: the     *)
(* single step may finish a system call instead of an instruction, and     *)
(* what waitpid says of it is thrown away.                                 *)
(***************************************************************************)
Unread == wstat.kind = "stopped"

AtSyscallStop == tracee = "stopped" /\ wstat.info = "SIGTRAP|0x80"

\* The next instruction cannot be executed: the breakpoint there comes first.
InTrap == sites[pc].enabled /\ (sites[pc].kind = "hardware" => ~rf)

\* Which request leads to which stop.
RequestsOK ==
    /\ AtPrompt /\ tracee = "stopped" => ~Unread
    /\ SteppingOver => request = "PTRACE_SINGLESTEP"
    /\ AtSyscallStop => Unread /\ request = "PTRACE_SYSCALL"
    /\ insys # None => ~rf

\* At a stop that has been read the flag is right; at one that has not, it still is what it
\* was before; a stop that is no system call stop is never inside a system call.
FlagAtStop ==
    tracee = "stopped" =>
        /\ ~Unread => (expecting <=> insys # None)
        /\ AtSyscallStop => (expecting <=> insys = None) /\ ~rf
        /\ Unread /\ ~AtSyscallStop => insys = None

\* A step-over that begins at an entry stop finishes the system call and nothing else.
FlagInStepOver ==
    SteppingOver /\ expecting =>
        /\ tracee \in {"running", "stopped"} => pc = rip /\ ~rf
        /\ tracee = "running" => insys # None

\* After it the flag is wrong, but the tracee is still on the breakpoint, which comes before
\* the next system call and resets the flag.
FlagInRun ==
    tracee = "running" /\ request = "PTRACE_SYSCALL" =>
        IF insys # None THEN expecting ELSE expecting => InTrap

\* Where the resume flag is set, and where a single step starts, the user has been told.
ToldOK ==
    /\ tracee \in {"running", "stopped"} /\ rf => told = pc \/ (Unread /\ ~SteppingOver)
    /\ tracee = "stopped" /\ ~Unread => told = pc
    /\ tracee = "running" /\ request = "PTRACE_SINGLESTEP" /\ insys = None => told = pc

\* wait_on_signal never auto-resumes from the exit of a system call on to a breakpoint in
\* force: had there been one, resume would have stepped over it.
NoSiteAtExit ==
    /\ tracee = "running" /\ request = "PTRACE_SYSCALL" /\ insys # None => ~sites[pc].enabled
    /\ AtSyscallStop /\ insys = None => ~sites[pc].enabled

PInv ==
    /\ RequestsOK /\ FlagAtStop /\ FlagInStepOver /\ FlagInRun /\ ToldOK /\ NoSiteAtExit

\* A breakpoint in force is not stepped on by accident.
LEMMA TrapComesFirst ==
    ASSUME IInv, InTrap, NEW instr, Fetch(instr)
    PROVE  instr = "int3"
<1>1. pc \in Addr /\ sites[pc].kind \in {"absent", "software", "hardware"}
  BY DEF IInv, TypeOK, KernelType, CodeType, Site
<1>2. CASE sites[pc].kind = "hardware"
  BY <1>1, <1>2 DEF InTrap, Fetch, IInv, SitesInMemory
<1>3. CASE sites[pc].kind # "hardware"
  BY <1>1, <1>3 DEF InTrap, Fetch, IInv, SitesInMemory, SitesAllowed
<1> QED
  BY <1>2, <1>3

LEMMA KernelKeepsPInv ==
    ASSUME IInv, JInv, PInv, Kernel \/ handle_sigint
    PROVE  PInv'
<1> USE DEF PInv, Unread, AtSyscallStop, RequestsOK, FlagAtStop, FlagInStepOver, FlagInRun,
            ToldOK, NoSiteAtExit, SteppingOver, AtPrompt
<1>1. UNCHANGED <<sites, armed, request, rip, state_, control, expecting>>
  BY KernelLeavesDebugger DEF code, debugger
<1>0. rf \in BOOLEAN /\ expecting \in BOOLEAN /\ (tracee = "running" => ~Unread)
      /\ (AtPrompt => tracee # "running")
  BY DEF IInv, TypeOK, KernelType, DebuggerType, StatusOK, PromptOK
<1>2. CASE HardwareTrap
  <2>1. /\ tracee = "running" /\ insys = None /\ insys' = None /\ pc' = pc /\ tracee' = "stopped"
        /\ wstat'.kind = "stopped" /\ wstat'.info = "SIGTRAP"
    BY <1>2, StatusTypes DEF HardwareTrap, InUserMode, Stop
  <2>2. ~SteppingOver
    BY <1>2, <2>1
    DEF HardwareTrap, JInv, StepPcOK, IInv, SitesInMemory, TypeOK, DebuggerType
  <2> QED
    BY <1>0, <1>1, <2>1, <2>2
<1>3. CASE Fault \/ Deliver
  <2>1. /\ tracee = "running" /\ insys = None /\ insys' = None /\ tracee' = "stopped"
        /\ wstat'.kind = "stopped" /\ wstat'.info # "SIGTRAP|0x80"
        /\ UNCHANGED <<pc, rf, told>>
    <3>1. CASE Fault
      BY <3>1, StatusTypes DEF Fault, Fetch, InUserMode, Stop
    <3>2. CASE Deliver
      <4>1. PICK sig \in pending : wstat' = Signal(sig, "SI_USER")
        BY <3>2 DEF Deliver, Stop
      <4>2. sig \in {"SIGTRAP", "SIGSTOP"}
        BY DEF IInv, TypeOK, KernelType
      <4> QED
        BY <3>2, <4>1, <4>2, StatusTypes DEF Deliver, Stop
    <3> QED
      BY <1>3, <3>1, <3>2
  <2> QED
    BY <1>0, <1>1, <2>1
<1>4. CASE Int3
  <2>1. /\ tracee = "running" /\ insys = None /\ insys' = None /\ tracee' = "stopped"
        /\ wstat'.kind = "stopped" /\ wstat'.info = "SIGTRAP" /\ rf' = FALSE
    BY <1>4, StatusTypes DEF Int3, Fetch, InUserMode, Stop
  <2> QED
    BY <1>0, <1>1, <2>1
<1>5. CASE Plain
  <2>1. /\ tracee = "running" /\ insys = None /\ insys' = None /\ rf' = FALSE /\ ~InTrap
    BY <1>5, TrapComesFirst DEF Plain, Fetch, InUserMode
  <2>2. \/ /\ request = "PTRACE_SINGLESTEP" /\ tracee' = "stopped"
           /\ wstat'.kind = "stopped" /\ wstat'.info = "SIGTRAP"
        \/ request # "PTRACE_SINGLESTEP" /\ UNCHANGED <<tracee, wstat>>
    BY <1>5, StatusTypes DEF Plain, Stop
  <2> QED
    BY <1>0, <1>1, <2>1, <2>2
<1>6. CASE SyscallEntry
  <2>1. PICK id \in Syscalls :
            Fetch(id) /\ insys' = id
            /\ IF request = "PTRACE_SYSCALL" THEN Stop(SyscallStatus(id))
               ELSE UNCHANGED <<tracee, wstat>>
    BY <1>6 DEF SyscallEntry
  <2>2. /\ tracee = "running" /\ insys = None /\ insys' # None /\ rf' = FALSE /\ ~InTrap
    BY <1>6, <2>1, TrapComesFirst, NoneAssumption DEF SyscallEntry, Fetch, InUserMode, Syscalls
  <2>3. CASE request = "PTRACE_SYSCALL"
    <3>1. tracee' = "stopped" /\ wstat'.kind = "stopped" /\ wstat'.info = "SIGTRAP|0x80"
      BY <2>1, <2>3, StatusTypes DEF Stop
    <3> QED
      BY <1>0, <1>1, <2>1, <2>2, <2>3, <3>1
  <2>4. CASE request # "PTRACE_SYSCALL"
    <3>1. UNCHANGED <<tracee, wstat>>
      BY <2>1, <2>4
    <3> QED
      BY <1>0, <1>1, <2>1, <2>2, <2>4, <3>1
  <2> QED
    BY <2>3, <2>4
<1>7. CASE SyscallReturn
  <2>1. /\ tracee = "running" /\ insys # None /\ insys \in Syscalls /\ insys' = None
        /\ UNCHANGED <<pc, rf, told>> /\ ~rf
    BY <1>7 DEF SyscallReturn, IInv, TypeOK, KernelType
  <2>2. CASE request = "PTRACE_SYSCALL"
    <3>1. tracee' = "stopped" /\ wstat'.kind = "stopped" /\ wstat'.info = "SIGTRAP|0x80"
      BY <1>7, <2>1, <2>2, StatusTypes DEF SyscallReturn, Stop
    <3> QED
      BY <1>0, <1>1, <2>1, <2>2, <3>1
  <2>3. CASE request = "PTRACE_SINGLESTEP"
    <3>1. tracee' = "stopped" /\ wstat'.kind = "stopped" /\ wstat'.info = "SIGTRAP"
      BY <1>7, <2>3, StatusTypes DEF SyscallReturn, Stop
    <3> QED
      BY <1>0, <1>1, <2>1, <2>3, <3>1
  <2>4. CASE request \notin {"PTRACE_SYSCALL", "PTRACE_SINGLESTEP"}
    <3>1. UNCHANGED <<tracee, wstat>>
      BY <1>7, <2>4 DEF SyscallReturn
    <3> QED
      BY <1>0, <1>1, <2>1, <2>4, <3>1
  <2> QED
    BY <2>2, <2>3, <2>4
<1>8. CASE Exit \/ Kill
  <2>1. tracee' = "zombie" /\ insys' = None
    BY <1>8 DEF Exit, Kill, Die
  <2> QED
    BY <1>0, <1>1, <2>1
<1>9. CASE handle_sigint
  <2>1. UNCHANGED <<tracee, insys, wstat, pc, rf, told>>
    BY <1>9 DEF handle_sigint
  <2> QED
    BY <1>0, <1>1, <2>1 DEF InTrap
<1> QED
  BY <1>2, <1>3, <1>4, <1>5, <1>6, <1>7, <1>8, <1>9 DEF Kernel, Execute

\* resume steps over the site at the pc that it is given, or leaves the sites alone.
LEMMA ResumeSplits ==
    ASSUME IInv, NEW at \in Addr, NEW from \in {"caller", "wait"}, resume(at, from)
    PROVE  /\ tracee' = "running" /\ wstat' = NoStatus
           /\ \/ /\ sites[at].enabled /\ control' \in {"step_over", "wait_step_over"}
                 /\ request' = "PTRACE_SINGLESTEP"
              \/ /\ ~sites[at].enabled /\ control' = from /\ UNCHANGED sites
                 /\ request' \in {"PTRACE_CONT", "PTRACE_SYSCALL"} /\ state_' = "running"
BY DEF resume, ptrace, continue_request, code, enabled_stoppoint_at_address, contains_address,
       IInv, SitesAllowed

LEMMA DebuggerKeepsPInv ==
    ASSUME IInv, JInv, PInv, Return \/ CallKilled \/ Call
    PROVE  PInv'
<1> USE DEF PInv, Unread, AtSyscallStop, RequestsOK, FlagAtStop, FlagInStepOver, FlagInRun,
            ToldOK, NoSiteAtExit, SteppingOver
<1>0. /\ rf \in BOOLEAN /\ expecting \in BOOLEAN
      /\ NoStatus.kind = "none" /\ NoStatus.info = "none"
  BY StatusTypes DEF IInv, TypeOK, KernelType, DebuggerType
<1>1. CASE Resume
  <2>1. /\ AtPrompt /\ tracee = "stopped" /\ rip = pc /\ rip \in Addr
        /\ UNCHANGED <<rip, pc, rf, insys, told, expecting>>
    BY <1>1 DEF Resume, CanPtrace, IInv, RegistersCoherent, TypeOK, DebuggerType
  <2>2. resume(rip, "caller")
    BY <1>1 DEF Resume
  <2> QED
    BY <1>0, <2>1, <2>2, ResumeSplits DEF AtPrompt
<1>2. CASE StepOverDone
  <2>1. /\ SteppingOver /\ tracee = "stopped" /\ Unread /\ ~AtSyscallStop /\ insys = None
        /\ tracee' = "running" /\ wstat' = NoStatus /\ state_' = "running"
        /\ request' \in {"PTRACE_CONT", "PTRACE_SYSCALL"} /\ control' \in {"caller", "wait"}
        /\ UNCHANGED <<rip, pc, rf, insys, told, expecting>>
    BY <1>2 DEF StepOverDone, ptrace, continue_request, IInv, StatusOK
  <2>2. sites'[rip].enabled
    <3>1. rip \in Addr /\ Enabled' = Enabled \union {rip}
      BY <1>2, EnableKeepsCode
      DEF StepOverDone, IInv, CodeOK, TypeOK, DebuggerType, StepOverOK
    <3> QED
      BY <3>1 DEF Enabled
  <2>3. expecting => InTrap'
    BY <2>1, <2>2 DEF InTrap
  <2> QED
    BY <1>0, <2>1, <2>3 DEF AtPrompt
<1>3. CASE step_instruction
  <2>1. /\ AtPrompt /\ tracee = "stopped"
        /\ tracee' = "running" /\ wstat' = NoStatus /\ request' = "PTRACE_SINGLESTEP"
        /\ control' = "wait" /\ UNCHANGED <<pc, rf, insys, told, expecting>>
    BY <1>3 DEF step_instruction, CanPtrace, ptrace
  <2> QED
    BY <1>0, <2>1 DEF AtPrompt
<1>4. CASE WaitStopped
  <2>1. /\ tracee = "stopped" /\ Unread /\ ~SteppingOver
        /\ tracee' = "stopped" /\ wstat' = NoStatus /\ control' = "caller"
        /\ expecting' = (wstat.info = "SIGTRAP|0x80" /\ ~expecting)
        /\ told' = pc' /\ UNCHANGED <<rf, insys>>
    BY <1>4 DEF WaitStopped, FinishStep, augment_stop_reason, write_rip, IInv, StatusOK
  <2> QED
    BY <1>0, <2>1 DEF AtPrompt
<1>5. CASE WaitUncaught
  <2>1. /\ tracee = "stopped" /\ AtSyscallStop /\ Unread /\ rip' = pc /\ pc \in Addr
        /\ expecting' = ~expecting /\ UNCHANGED <<pc, rf, insys, told>>
    BY <1>5
    DEF WaitUncaught, Uncaught, augment_stop_reason, IInv, StatusOK, TypeOK, KernelType,
        DebuggerType
  <2>2. resume(pc, "wait")
    BY <1>5 DEF WaitUncaught
  <2> QED
    BY <1>0, <2>1, <2>2, ResumeSplits DEF AtPrompt
<1>6. CASE StepOverDead \/ WaitDead \/ CallKilled
  <2>1. /\ tracee' \in {"zombie", "reaped"} /\ control' = "caller" /\ UNCHANGED rf
        /\ insys' \in {insys, None}
    BY <1>6 DEF StepOverDead, WaitDead, CallKilled
  <2> QED
    BY <2>1
<1>7. CASE SiteCall
  <2>1. /\ control = "caller" /\ control' = "caller" /\ AtPrompt /\ tracee # "running"
        /\ UNCHANGED <<tracee, wstat, state_, insys, rf, pc, told, expecting, request>>
    BY <1>7
    DEF SiteCall, CreateSite, EnableSite, DisableSite, RemoveSite, CanPtrace, AtPrompt, kernel,
        debugger, IInv, PromptOK
  <2> QED
    BY <1>0, <2>1 DEF AtPrompt
<1>8. CASE \E a \in JumpTo : set_pc(a)
  <2>1. /\ control = "caller" /\ control' = "caller" /\ tracee = "stopped" /\ told' = pc'
        /\ UNCHANGED <<tracee, wstat, state_, insys, rf, expecting, request>> /\ AtPrompt
    BY <1>8 DEF set_pc, write_rip, CanPtrace, AtPrompt
  <2> QED
    BY <1>0, <2>1 DEF AtPrompt
<1>9. CASE CallWait \/ CallThrows \/ \E p \in Policies : set_syscall_catch_policy(p)
  <2>1. /\ control = "caller" /\ control' \in {"caller", "wait"}
        /\ UNCHANGED <<tracee, wstat, state_, insys, rf, pc, told, expecting, request, sites>>
    BY <1>9 DEF CallWait, CallThrows, set_syscall_catch_policy, kernel, code, AtPrompt
  <2> QED
    BY <1>0, <2>1 DEF AtPrompt, InTrap
<1> QED
  BY <1>1, <1>2, <1>3, <1>4, <1>5, <1>6, <1>7, <1>8, <1>9 DEF Return, Call

THEOREM PhaseInvariance == Spec => []PInv
<1>1. Init => PInv
  BY StatusTypes
  DEF Init, PInv, Unread, AtSyscallStop, RequestsOK, FlagAtStop, FlagInStepOver, FlagInRun,
      ToldOK, NoSiteAtExit, SteppingOver
<1>2. IInv /\ JInv /\ PInv /\ [Next]_vars => PInv'
  <2>1. CASE UNCHANGED vars
    BY <2>1
    DEF vars, PInv, Unread, AtSyscallStop, RequestsOK, FlagAtStop, FlagInStepOver, FlagInRun,
        ToldOK, NoSiteAtExit, SteppingOver, AtPrompt, InTrap
  <2> QED
    BY <2>1, KernelKeepsPInv, DebuggerKeepsPInv DEF Next
<1> QED
  BY <1>1, <1>2, Invariance, TrapInvariance, PTL DEF Spec

\* Whatever the program, the policies, the sites and the signals: at every stop that the
\* user sees, expecting_syscall_exit_ is set exactly when the tracee is in a system call,
\* although resume and wait_on_signal both read stops and neither knows of the other's.
THEOREM SyscallPhaseCorrect == Spec => []SyscallPhase
<1>1. PInv => SyscallPhase
  BY DEF PInv, RequestsOK, FlagAtStop, SyscallPhase, CanPtrace
<1> QED
  BY <1>1, PhaseInvariance, PTL

\* No instruction under a breakpoint that the user has enabled is executed before the user
\* has been told that the tracee is there.
THEOREM NoMissedBreakpointCorrect == Spec => NoMissedBreakpoint
<1>1. IInv /\ PInv => (Retire /\ pc \in wanted => told = pc)
  <2>1. SUFFICES ASSUME IInv, PInv, Retire, pc \in wanted PROVE told = pc
    OBVIOUS
  <2>2. PICK instr \in {"plain", "int3"} \union Syscalls :
            /\ Fetch(instr)
            /\ instr = "int3" => ~enabled_stoppoint_at_address(pc)
    <3>1. CASE Plain
      BY <3>1 DEF Plain
    <3>2. CASE SyscallEntry
      BY <3>2 DEF SyscallEntry, Syscalls
    <3>3. CASE Int3 /\ ~enabled_stoppoint_at_address(pc)
      BY <3>3 DEF Int3
    <3> QED
      BY <2>1, <3>1, <3>2, <3>3 DEF Retire
  <2>3. tracee = "running" /\ insys = None /\ pc \in Addr
    BY <2>1, <2>2 DEF Fetch, InUserMode, IInv, TypeOK, KernelType
  <2>4. CASE sites[pc].enabled
    <3>1. instr # "int3"
      BY <2>1, <2>2, <2>3, <2>4
      DEF enabled_stoppoint_at_address, contains_address, IInv, SitesAllowed
    <3>2. rf
      BY <2>1, <2>2, <2>4, <3>1, TrapComesFirst DEF InTrap
    <3> QED
      BY <2>1, <2>3, <3>2 DEF PInv, ToldOK, Unread, IInv, StatusOK
  <2>5. CASE ~sites[pc].enabled
    <3>1. request = "PTRACE_SINGLESTEP"
      BY <2>1, <2>3, <2>5
      DEF IInv, WantedOK, Enabled, TakenOut, StepOK, PInv, RequestsOK
    <3> QED
      BY <2>1, <2>3, <3>1 DEF PInv, ToldOK
  <2> QED
    BY <2>4, <2>5
<1> QED
  BY <1>1, Invariance, PhaseInvariance, PTL DEF NoMissedBreakpoint

\* A stop that is reported as a software breakpoint is one: of a site in force or of the
\* program.
THEOREM BreakpointIsRealCorrect == Spec => BreakpointIsReal
<1>1. IInv /\ JInv =>
          (WaitStopped /\ report'.trap = "software_break" =>
              enabled_stoppoint_at_address(rip') \/ (rip' > 0 /\ Prog[rip' - 1] = "int3"))
  <2>1. SUFFICES ASSUME IInv, JInv, WaitStopped, report'.trap = "software_break"
                 PROVE  \/ enabled_stoppoint_at_address(rip')
                        \/ rip' > 0 /\ Prog[rip' - 1] = "int3"
    OBVIOUS
  <2>2. trap_reason(wstat) = "software_break" /\ rip' = instr_begin(wstat)
    BY <2>1 DEF WaitStopped, write_rip, Report
  <2>3. wstat.code = "SI_KERNEL"
    BY <2>2 DEF trap_reason
  <2>4. pc \in Addr /\ pc - 1 \in Addr /\ mem[pc - 1] = "int3" /\ pc > 0
    BY <2>1, <2>3, LastAssumption DEF JInv, TrapOK, IInv, TypeOK, KernelType, Addr
  <2>5. CASE enabled_stoppoint_at_address(pc - 1)
    BY <2>2, <2>4, <2>5 DEF instr_begin
  <2>6. CASE ~enabled_stoppoint_at_address(pc - 1)
    <3>1. rip' = pc
      BY <2>2, <2>6 DEF instr_begin
    <3>2. Prog[pc - 1] = "int3"
      BY <2>1, <2>4, <2>6
      DEF enabled_stoppoint_at_address, contains_address, IInv, SitesInMemory
    <3> QED
      BY <2>4, <3>1, <3>2
  <2> QED
    BY <2>5, <2>6
<1> QED
  BY <1>1, Invariance, TrapInvariance, PTL DEF BreakpointIsReal

(***************************************************************************)
(* The fourth invariant: what there is to wait for.                        *)
(***************************************************************************)
\* The debugger is in a waitpid, or its caller is about to call wait_on_signal, only where the
\* tracee runs or there is a status that nobody has read.
WaitHasEnd ==
    control # "caller" \/ state_ = "running" =>
        tracee = "running" \/ Unread \/ tracee = "zombie"

WInv == WaitHasEnd /\ (SteppingOver => state_ # "running")

LEMMA WaitInvariance == Spec => []WInv
<1> USE DEF WInv, WaitHasEnd, Unread, SteppingOver
<1>1. Init => WInv
  BY DEF Init
<1>2. IInv /\ WInv /\ [Next]_vars => WInv'
  <2> SUFFICES ASSUME IInv, WInv, [Next]_vars PROVE WInv'
    OBVIOUS
  <2>1. CASE Kernel \/ handle_sigint
    <3>1. UNCHANGED <<state_, control>>
      BY <2>1, KernelLeavesDebugger DEF debugger
    <3>2. KernelStops \/ KernelEnds \/ UNCHANGED <<tracee, wstat>>
      BY <2>1, KernelControlStep
    <3> QED
      BY <3>1, <3>2 DEF KernelStops, KernelEnds
  <2>2. CASE Resume \/ WaitUncaught
    <3>1. tracee' = "running" /\ (SteppingOver' => state_' # "running")
      BY <2>2 DEF Resume, WaitUncaught, resume, ptrace
    <3> QED
      BY <3>1
  <2>3. CASE StepOverDone \/ step_instruction
    BY <2>3 DEF StepOverDone, step_instruction, ptrace
  <2>4. CASE WaitStopped
    BY <2>4 DEF WaitStopped, FinishStep
  <2>5. CASE StepOverDead \/ WaitDead \/ CallKilled
    BY <2>5 DEF StepOverDead, WaitDead, CallKilled, IInv, StatusOK
  <2>6. CASE SiteCall
    BY <2>6
    DEF SiteCall, CreateSite, EnableSite, DisableSite, RemoveSite, kernel, debugger
  <2>7. CASE CallWait \/ CallThrows
    BY <2>7 DEF CallWait, CallThrows, kernel
  <2>8. CASE (\E a \in JumpTo : set_pc(a)) \/ \E p \in Policies : set_syscall_catch_policy(p)
    BY <2>8 DEF set_pc, set_syscall_catch_policy, kernel
  <2>9. CASE UNCHANGED vars
    BY <2>9 DEF vars
  <2> QED
    BY <2>1, <2>2, <2>3, <2>4, <2>5, <2>6, <2>7, <2>8, <2>9 DEF Next, Return, Call
<1> QED
  BY <1>1, <1>2, Invariance, PTL DEF Spec

\* None of the library's calls waits for a stop that another of them has read already, nor for
\* a tracee that has been reaped: resume, which waits once itself, wait_on_signal, which may
\* resume and wait again, and step_instruction leave no waitpid without an answer.
THEOREM WaitsHaveAnEnd == Spec => []WaitHasEnd
BY WaitInvariance, PTL DEF WInv

(***************************************************************************)
(* The fifth invariant: where the user is told of both ends of a system    *)
(* call.  The step-over in resume is the only thing that keeps one of them *)
(* back: what is excluded here is that it begins in a system call.         *)
(***************************************************************************)
SiteAddrs == SwAddrs \union HwAddrs

\* No breakpoint lies where a system call leaves the pc, nor where the user moves it; and a
\* user who catches some of the system calls sets no other policy.
NothingAfterSyscall ==
    /\ \A a \in Addr : Prog[a] \in Syscalls => a + 1 \notin SiteAddrs
    /\ JumpTo \intersect SiteAddrs = {}
    /\ \A p, q \in Policies : p.mode = "some" => p = q

EntryTold == report.trap = "syscall_entry"

\* In a system call there is nothing to step over.
PcOK ==
    /\ insys # None => pc \notin SiteAddrs
    /\ AtSyscallStop /\ insys # None => wstat.id = insys

\* What traces system calls is the policy of the user's choice.
PolicyOK ==
    /\ policy.mode = "none" \/ policy \in Policies
    /\ request = "PTRACE_SYSCALL" /\ (\E p \in Policies : p.mode = "some") => policy \in Policies

\* From the report of an entry to the next one: the tracee stays in the system call, and the
\* only stop that it can come to under PTRACE_SYSCALL is the exit.
HalfWay ==
    EntryTold =>
        /\ ~SteppingOver
        /\ tracee = "stopped" /\ ~Unread =>
              insys # None /\ expecting /\ request = "PTRACE_SYSCALL"
        /\ tracee = "running" /\ request = "PTRACE_SYSCALL" => insys # None /\ expecting
        /\ Unread /\ request = "PTRACE_SYSCALL" => AtSyscallStop /\ expecting

\* A system call whose entry was told is one whose exit is caught.
CaughtOK ==
    EntryTold /\ policy.mode = "some" /\ request = "PTRACE_SYSCALL" =>
        /\ insys # None => insys \in policy.to_catch
        /\ Unread => wstat.id \in policy.to_catch

HInv == PcOK /\ PolicyOK /\ HalfWay /\ CaughtOK

\* A stop in a system call leaves the pc where it is.
LEMMA NoTrapInSyscall ==
    ASSUME IInv, JInv, PInv, WaitStopped, insys # None
    PROVE  pc' = pc /\ AtSyscallStop
<1>1. AtSyscallStop
  BY DEF WaitStopped, PInv, FlagAtStop, Unread, IInv, StatusOK
<1>2. wstat.info = "SIGTRAP|0x80" /\ wstat.code = "none"
  BY <1>1 DEF AtSyscallStop, JInv, TrapOK
<1>3. trap_reason(wstat) \in {"syscall_exit", "syscall_entry"}
  BY <1>2 DEF trap_reason
<1> QED
  BY <1>1, <1>3 DEF WaitStopped, write_rip, instr_begin

\* The kernel half of the step: only the exit of the system call can come next.
LEMMA KernelKeepsHInv ==
    ASSUME NothingAfterSyscall, IInv, JInv, PInv, HInv, Kernel \/ handle_sigint
    PROVE  HInv'
<1> USE DEF HInv, Unread, AtSyscallStop, SteppingOver, EntryTold
<1>1. UNCHANGED <<report, policy, request, expecting, control>>
  BY KernelLeavesDebugger DEF debugger
<1>2. KernelStops \/ KernelEnds \/ UNCHANGED <<tracee, wstat>>
  BY KernelControlStep
<1>3. tracee = "running" => ~Unread
  BY DEF IInv, StatusOK
<1>4. CASE SyscallEntry
  <2>1. PICK id \in Syscalls :
            Fetch(id) /\ insys' = id
            /\ IF request = "PTRACE_SYSCALL" THEN Stop(SyscallStatus(id))
               ELSE UNCHANGED <<tracee, wstat>>
    BY <1>4 DEF SyscallEntry
  <2>2. tracee = "running" /\ insys = None /\ pc' = pc + 1 /\ pc \in Addr /\ mem[pc] = id
    BY <1>4, <2>1 DEF SyscallEntry, Fetch, InUserMode, IInv, TypeOK, KernelType
  <2>3. Prog[pc] = id
    BY <2>1, <2>2 DEF IInv, SitesInMemory, Syscalls
  <2>4. pc' \notin SiteAddrs
    BY <2>2, <2>3 DEF NothingAfterSyscall
  <2>5. request = "PTRACE_SYSCALL" =>
            /\ ~EntryTold
            /\ wstat'.id = insys'
    BY <2>1, <2>2 DEF HalfWay, Stop, SyscallStatus
  <2>6. PcOK'
    BY <1>1, <1>3, <2>1, <2>2, <2>4, <2>5 DEF PcOK, IInv, StatusOK
  <2>7. request # "PTRACE_SYSCALL" => UNCHANGED <<tracee, wstat>>
    BY <2>1
  <2> QED
    BY <1>1, <1>3, <2>2, <2>5, <2>6, <2>7 DEF PolicyOK, HalfWay, CaughtOK
<1>5. CASE SyscallReturn
  <2>1. tracee = "running" /\ insys # None /\ insys' = None /\ pc' = pc
    BY <1>5 DEF SyscallReturn
  <2>2. request = "PTRACE_SYSCALL" =>
            /\ tracee' = "stopped" /\ wstat'.kind = "stopped" /\ wstat'.info = "SIGTRAP|0x80"
            /\ wstat'.id = insys
    BY <1>5 DEF SyscallReturn, Stop, SyscallStatus
  <2>3. request # "PTRACE_SYSCALL" => (tracee' = "stopped" => wstat'.kind = "stopped")
    BY <1>2, <2>1 DEF KernelStops, KernelEnds
  <2> QED
    BY <1>1, <1>3, <2>1, <2>2, <2>3 DEF PcOK, PolicyOK, HalfWay, CaughtOK
<1>6. CASE (Kernel /\ ~SyscallEntry /\ ~SyscallReturn) \/ handle_sigint
  <2>1. \/ tracee' = "zombie" /\ insys' = None
        \/ insys' = insys /\ (insys # None => pc' = pc)
    BY <1>6
    DEF Kernel, Execute, HardwareTrap, Fault, Int3, Plain, Exit, Kill, Die, Deliver,
        handle_sigint, Fetch, InUserMode
  <2>2. KernelStops => insys = None
    BY <1>6
    DEF KernelStops, Kernel, Execute, HardwareTrap, Fault, Int3, Plain, Exit, Kill, Die,
        Deliver, handle_sigint, Fetch, InUserMode
  <2>3. CASE KernelEnds
    BY <1>1, <2>1, <2>3 DEF PcOK, PolicyOK, HalfWay, CaughtOK, KernelEnds
  <2>4. CASE KernelStops
    <3>1. insys' = None /\ (EntryTold => request # "PTRACE_SYSCALL")
      BY <2>1, <2>2, <2>4 DEF KernelStops, HalfWay
    <3> QED
      BY <1>1, <2>4, <3>1 DEF PcOK, PolicyOK, HalfWay, CaughtOK, KernelStops
  <2>5. CASE UNCHANGED <<tracee, wstat>>
    <3>1. insys' = None \/ (insys' = insys /\ pc' = pc)
      BY <2>1
    <3>2. tracee \in {"running", "stopped"} => insys' = insys
      BY <2>1, <2>5
    <3> QED
      BY <1>1, <2>1, <2>5, <3>1, <3>2 DEF PcOK, PolicyOK, HalfWay, CaughtOK
  <2> QED
    BY <1>2, <2>3, <2>4, <2>5
<1> QED
  BY <1>4, <1>5, <1>6

LEMMA DebuggerKeepsHInv ==
    ASSUME NothingAfterSyscall, IInv, JInv, PInv, WInv, HInv, Return \/ CallKilled \/ Call
    PROVE  HInv'
<1> USE DEF HInv, Unread, AtSyscallStop, SteppingOver, EntryTold
<1>0. /\ NoStatus.kind = "none" /\ NoStatus.info = "none"
      /\ tracee = "running" => ~Unread
  BY StatusTypes DEF IInv, StatusOK
<1>1. CASE Resume
  <2>1. /\ tracee = "stopped" /\ rip = pc /\ rip \in Addr /\ ~Unread /\ control = "caller"
        /\ UNCHANGED <<pc, insys, report, policy, expecting>>
    BY <1>1
    DEF Resume, CanPtrace, AtPrompt, IInv, RegistersCoherent, TypeOK, DebuggerType, PInv,
        RequestsOK
  <2>2. resume(rip, "caller")
    BY <1>1 DEF Resume
  <2>3. tracee' = "running" /\ wstat' = NoStatus
    BY <2>2 DEF resume, ptrace
  <2>4. EntryTold => ~sites[rip].enabled
    BY <2>1 DEF HalfWay, PcOK, SiteAddrs, IInv, SitesAllowed, TypeOK, CodeType, Site
  <2>5. request' = "PTRACE_SYSCALL" => policy.mode # "none"
    BY <2>2 DEF resume, ptrace, continue_request
  <2>6. EntryTold => ~SteppingOver'
    BY <2>1, <2>2, <2>4, ResumeSplits
  <2> QED
    BY <1>0, <2>1, <2>3, <2>5, <2>6 DEF PcOK, PolicyOK, HalfWay, CaughtOK
<1>2. CASE StepOverDone
  <2>1. /\ SteppingOver /\ tracee' = "running" /\ wstat' = NoStatus
        /\ control' \in {"caller", "wait"}
        /\ request' = "PTRACE_SYSCALL" => policy.mode # "none"
        /\ UNCHANGED <<pc, insys, report, policy, expecting>>
    BY <1>2 DEF StepOverDone, ptrace, continue_request
  <2>2. ~EntryTold
    BY <2>1 DEF HalfWay
  <2> QED
    BY <1>0, <2>1, <2>2 DEF PcOK, PolicyOK, HalfWay, CaughtOK
<1>3. CASE step_instruction
  <2>1. /\ tracee' = "running" /\ wstat' = NoStatus /\ request' = "PTRACE_SINGLESTEP"
        /\ control' = "wait" /\ UNCHANGED <<pc, insys, report, policy, expecting>>
    BY <1>3 DEF step_instruction, ptrace
  <2> QED
    BY <1>0, <2>1 DEF PcOK, PolicyOK, HalfWay, CaughtOK
<1>4. CASE WaitStopped
  <2>1. /\ tracee = "stopped" /\ Unread /\ tracee' = "stopped" /\ wstat' = NoStatus
        /\ control' = "caller" /\ ~Uncaught(wstat)
        /\ expecting' = (wstat.info = "SIGTRAP|0x80" /\ ~expecting)
        /\ report'.trap = trap_reason(wstat)
        /\ UNCHANGED <<insys, request, policy>>
    BY <1>4
    DEF WaitStopped, FinishStep, augment_stop_reason, Report, IInv, StatusOK
  <2>2. insys # None => pc' = pc /\ AtSyscallStop
    BY <1>4, NoTrapInSyscall
  <2>3. EntryTold' => AtSyscallStop /\ ~expecting
    BY <2>1 DEF trap_reason
  <2>4. EntryTold' => insys # None /\ request = "PTRACE_SYSCALL"
    BY <2>3 DEF PInv, FlagAtStop, RequestsOK
  <2>5. EntryTold' /\ policy.mode = "some" => insys \in policy.to_catch
    BY <2>1, <2>3, <2>4 DEF Uncaught, PcOK
  <2> QED
    BY <1>0, <2>1, <2>2, <2>3, <2>4, <2>5 DEF PcOK, PolicyOK, HalfWay, CaughtOK
<1>5. CASE WaitUncaught
  <2>1. /\ Unread /\ AtSyscallStop /\ policy.mode = "some" /\ wstat.id \notin policy.to_catch
        /\ UNCHANGED <<pc, insys, report, policy>>
    BY <1>5 DEF WaitUncaught, Uncaught, IInv, StatusOK
  <2>2. ~EntryTold
    BY <2>1 DEF CaughtOK, PInv, RequestsOK
  <2>3. tracee' = "running" /\ wstat' = NoStatus
    BY <1>5 DEF WaitUncaught, resume, ptrace
  <2> QED
    BY <1>0, <2>1, <2>2, <2>3 DEF PcOK, PolicyOK, HalfWay, CaughtOK
<1>6. CASE StepOverDead \/ WaitDead \/ CallKilled
  <2>1. /\ report'.trap = "none" /\ UNCHANGED <<policy, request>>
        /\ wstat'.info = "none"
        /\ \/ insys' = None
           \/ UNCHANGED <<insys, pc>>
    BY <1>6, StatusTypes DEF StepOverDead, WaitDead, CallKilled, Error, Report
  <2> QED
    BY <2>1 DEF PcOK, PolicyOK, HalfWay, CaughtOK
<1>7. CASE SiteCall
  <2>1. UNCHANGED <<pc, insys, tracee, request, wstat, report, policy, expecting, control>>
    BY <1>7
    DEF SiteCall, CreateSite, EnableSite, DisableSite, RemoveSite, kernel, debugger
  <2> QED
    BY <2>1 DEF PcOK, PolicyOK, HalfWay, CaughtOK
<1>8. CASE \E a \in JumpTo : set_pc(a)
  <2>1. /\ pc' \in JumpTo
        /\ UNCHANGED <<insys, tracee, request, wstat, report, policy, expecting, control>>
    BY <1>8 DEF set_pc, write_rip
  <2> QED
    BY <2>1 DEF PcOK, PolicyOK, HalfWay, CaughtOK, NothingAfterSyscall
<1>9. CASE CallWait \/ CallThrows
  <2>1. /\ UNCHANGED <<pc, insys, tracee, request, wstat, policy, expecting>>
        /\ control' \in {"wait", control}
        /\ report' = report \/ report'.trap = "none"
    BY <1>9 DEF CallWait, CallThrows, kernel, Error, Report
  <2> QED
    BY <2>1 DEF PcOK, PolicyOK, HalfWay, CaughtOK
<1>10. CASE \E p \in Policies : set_syscall_catch_policy(p)
  <2>1. /\ policy' \in Policies
        /\ UNCHANGED <<pc, insys, tracee, request, wstat, report, expecting, control>>
    BY <1>10 DEF set_syscall_catch_policy, kernel
  <2>2. request = "PTRACE_SYSCALL" /\ policy'.mode = "some" => policy' = policy
    BY <2>1 DEF PolicyOK, NothingAfterSyscall
  <2> QED
    BY <2>1, <2>2 DEF PcOK, PolicyOK, HalfWay, CaughtOK
<1> QED
  BY <1>1, <1>2, <1>3, <1>4, <1>5, <1>6, <1>7, <1>8, <1>9, <1>10 DEF Return, Call

\* Where no breakpoint follows a system call, nor lies where the user moves the pc, and one
\* choice of system calls to catch is kept, a tracee that is continued from the entry of a
\* system call stops next at its exit: what process.hpp, line 39, promises of every program.
THEOREM HaltsTwiceWithoutStepOver ==
    ASSUME NothingAfterSyscall
    PROVE  Spec => HaltsTwicePerSyscall
<1>1. Init => HInv
  BY StatusTypes
  DEF Init, HInv, PcOK, PolicyOK, HalfWay, CaughtOK, EntryTold, AtSyscallStop, Unread, Report
<1>2. IInv /\ JInv /\ PInv /\ WInv /\ HInv /\ [Next]_vars => HInv'
  <2>1. CASE UNCHANGED vars
    BY <2>1
    DEF vars, HInv, PcOK, PolicyOK, HalfWay, CaughtOK, EntryTold, AtSyscallStop, Unread,
        SteppingOver
  <2> QED
    BY <2>1, KernelKeepsHInv, DebuggerKeepsHInv DEF Next
<1>3. JInv /\ HInv =>
          (WaitStopped /\ report.trap = "syscall_entry" /\ request = "PTRACE_SYSCALL" =>
              report'.trap = "syscall_exit")
  <2> SUFFICES ASSUME JInv, HInv, WaitStopped, report.trap = "syscall_entry",
                      request = "PTRACE_SYSCALL"
               PROVE  report'.trap = "syscall_exit"
    OBVIOUS
  <2>1. wstat.info = "SIGTRAP|0x80" /\ wstat.code = "none" /\ expecting
    BY DEF WaitStopped, HInv, HalfWay, EntryTold, Unread, AtSyscallStop, JInv, TrapOK
  <2>2. report'.trap = trap_reason(wstat)
    BY DEF WaitStopped, Report
  <2> QED
    BY <2>1, <2>2 DEF trap_reason
<1> QED
  BY <1>1, <1>2, <1>3, Invariance, TrapInvariance, PhaseInvariance, WaitInvariance, PTL
  DEF Spec, HaltsTwicePerSyscall

(***************************************************************************)
(* What InterruptStops needs besides fairness.  From a Ctrl-C on, until    *)
(* the user is back at the prompt, there is something under way that       *)
(* brings him there: the SIGSTOP itself, a stop that wait_on_signal will   *)
(* return, the end, or, when the step-over in resume has thrown the stop   *)
(* away, the breakpoint that it has put back under the tracee.             *)
(***************************************************************************)
OnSite == tracee = "running" /\ insys = None /\ sites[pc].enabled /\ sites[pc].kind = "software"

\* A stop that has not been read, and that is not one that resume throws away for good.
Returned ==
    Unread /\ wstat.info # "SIGTRAP|0x80" /\ (SteppingOver => wstat.info = "SIGSTOP")

InterruptDue == "SIGSTOP" \in pending \/ Returned \/ OnSite \/ tracee = "zombie"

\* A SIGSTOP that stops a step-over comes before its instruction.
Swallowed == SteppingOver /\ Unread /\ wstat.info = "SIGSTOP" => pc = rip /\ insys = None

\* How far away the prompt is: the most that the tracee, the kernel and the debugger have to
\* do first, and CallWait.
StepsToPrompt ==
    IF tracee = "zombie" THEN 0
    ELSE IF SteppingOver THEN (IF Unread THEN 3 ELSE IF insys = None THEN 4 ELSE 5)
    ELSE IF tracee = "running" THEN (IF insys = None THEN 2 ELSE 7)
    ELSE IF wstat.info # "SIGTRAP|0x80" THEN 1
    ELSE IF insys = None THEN 6 ELSE 8

Distance == 2 * StepsToPrompt + (IF control = "caller" THEN 1 ELSE 0)

\* What makes one of the fair actions possible, in the order of CallWait, Return, Deliver or
\* SyscallReturn or Exit, and Int3.
SomebodyCanAct ==
    \/ control = "caller" /\ state_ = "running"
    \/ control # "caller" /\ (Unread \/ tracee = "zombie")
    \/ tracee = "running" /\ (pending # {} \/ insys = "exit")
    \/ Fetch("int3")

\* What a step leaves of the way to the prompt, if it does not lead there.
Closer ==
    AtPrompt' \/ (InterruptDue' /\ Distance' < Distance)

LEMMA SwallowInvariance == Spec => []Swallowed
<1>1. Init => Swallowed
  BY DEF Init, Swallowed, SteppingOver
<1>2. IInv /\ JInv /\ Swallowed /\ [Next]_vars => Swallowed'
  <2> SUFFICES ASSUME IInv, JInv, Swallowed, [Next]_vars PROVE Swallowed'
    OBVIOUS
  <2> USE DEF Swallowed, SteppingOver, Unread
  <2>1. CASE Kernel \/ handle_sigint
    <3>1. UNCHANGED <<rip, control>>
      BY <2>1, KernelLeavesDebugger DEF debugger
    <3>2. CASE Deliver
      BY <3>1, <3>2 DEF Deliver, JInv, StepPcOK
    <3>3. CASE HardwareTrap \/ Fault \/ Int3
      BY <3>3, StatusTypes DEF HardwareTrap, Fault, Int3, Stop
    <3>4. CASE Plain
      <4>1. ~Unread
        BY <3>4 DEF Plain, Fetch, InUserMode, IInv, StatusOK
      <4> QED
        BY <3>4, <4>1, StatusTypes DEF Plain, Stop
    <3>5. CASE SyscallEntry
      <4>1. ~Unread
        BY <3>5 DEF SyscallEntry, Fetch, InUserMode, IInv, StatusOK
      <4> QED
        BY <3>5, <4>1, StatusTypes DEF SyscallEntry, Stop
    <3>6. CASE SyscallReturn
      <4>1. ~Unread /\ insys \in Syscalls
        BY <3>6 DEF SyscallReturn, IInv, StatusOK, TypeOK, KernelType
      <4> QED
        BY <3>6, <4>1, StatusTypes DEF SyscallReturn, Stop
    <3>7. CASE Exit \/ Kill
      BY <3>7, StatusTypes DEF Exit, Kill, Die
    <3>8. CASE handle_sigint
      BY <3>1, <3>8 DEF handle_sigint
    <3> QED
      BY <2>1, <3>2, <3>3, <3>4, <3>5, <3>6, <3>7, <3>8 DEF Kernel, Execute
  <2>2. CASE Resume \/ WaitUncaught \/ StepOverDone \/ step_instruction
    <3>1. wstat' = NoStatus
      BY <2>2 DEF Resume, WaitUncaught, StepOverDone, step_instruction, resume, ptrace
    <3> QED
      BY <3>1, StatusTypes
  <2>3. CASE WaitStopped \/ StepOverDead \/ WaitDead \/ CallKilled
    BY <2>3, StatusTypes DEF WaitStopped, StepOverDead, WaitDead, CallKilled
  <2>4. CASE SiteCall
    BY <2>4
    DEF SiteCall, CreateSite, EnableSite, DisableSite, RemoveSite, kernel, debugger
  <2>5. CASE CallWait \/ CallThrows
    BY <2>5 DEF CallWait, CallThrows, kernel
  <2>6. CASE (\E a \in JumpTo : set_pc(a)) \/ \E p \in Policies : set_syscall_catch_policy(p)
    BY <2>6 DEF set_pc, set_syscall_catch_policy, kernel, CanPtrace, AtPrompt
  <2>7. CASE UNCHANGED vars
    BY <2>7 DEF vars
  <2> QED
    BY <2>1, <2>2, <2>3, <2>4, <2>5, <2>6, <2>7 DEF Next, Return, Call
<1> QED
  BY <1>1, <1>2, Invariance, TrapInvariance, PTL DEF Spec

\* The kernel and the tracee.  An instruction is executed only where no signal is pending, and
\* then it is the breakpoint's.
LEMMA KernelComesCloser ==
    ASSUME HwAddrs = {}, IInv, JInv, PInv, InterruptDue, ~AtPrompt, Kernel
    PROVE  Closer
<1>1. UNCHANGED <<mem, sites, armed, request>> /\ UNCHANGED <<rip, state_, control>>
  BY KernelLeavesDebugger DEF code, debugger
<1>2. tracee = "running" => ~Unread /\ wstat.kind # "stopped"
  BY DEF IInv, StatusOK, Unread
<1>3. InUserMode => Fetch("int3") /\ ~SteppingOver
  <2> SUFFICES ASSUME InUserMode PROVE Fetch("int3") /\ ~SteppingOver
    OBVIOUS
  <2>1. OnSite
    BY <1>2 DEF InUserMode, InterruptDue, Returned
  <2>2. mem[pc] = "int3" /\ armed = {}
    BY <2>1 DEF OnSite, IInv, TypeOK, KernelType, CodeType, SitesInMemory, SitesAllowed
  <2>3. ~SteppingOver
    BY <2>1 DEF OnSite, JInv, StepPcOK
  <2> QED
    BY <2>2, <2>3 DEF Fetch
<1> USE DEF Closer, Distance, StepsToPrompt, SteppingOver, Unread
<1>4. CASE Execute
  <2>1. InUserMode /\ Fetch("int3") /\ ~SteppingOver
    BY <1>3, <1>4
    DEF Execute, HardwareTrap, Fault, Int3, Plain, SyscallEntry, Fetch
  <2>2. armed = {}
    BY DEF IInv, TypeOK, CodeType, SitesInMemory, SitesAllowed
  <2>3. Int3
    BY <1>4, <2>1, <2>2
    DEF Execute, HardwareTrap, Fault, Plain, SyscallEntry, Fetch, Syscalls
  <2>4. tracee' = "stopped" /\ wstat'.kind = "stopped" /\ wstat'.info = "SIGTRAP"
    BY <2>3, StatusTypes DEF Int3, Stop
  <2>5. InterruptDue'
    BY <1>1, <2>1, <2>4 DEF InterruptDue, Returned
  <2> QED
    BY <1>1, <2>1, <2>4, <2>5 DEF InUserMode
<1>5. CASE Deliver
  <2>1. PICK sig \in pending : /\ pending' = pending \ {sig}
                              /\ tracee' = "stopped" /\ wstat' = Signal(sig, "SI_USER")
    BY <1>5 DEF Deliver, Stop
  <2>2. /\ tracee = "running" /\ insys = None /\ insys' = None
        /\ sig \in {"SIGTRAP", "SIGSTOP"}
    BY <1>5 DEF Deliver, IInv, TypeOK, KernelType
  <2>3. wstat'.kind = "stopped" /\ wstat'.info = sig
    BY <2>1, <2>2, StatusTypes
  <2>4. InterruptDue'
    <3>1. CASE sig = "SIGSTOP" \/ ~SteppingOver
      BY <1>1, <2>2, <2>3, <3>1 DEF InterruptDue, Returned
    <3>2. CASE sig # "SIGSTOP" /\ SteppingOver
      <4>1. ~OnSite
        BY <3>2 DEF OnSite, JInv, StepPcOK
      <4>2. "SIGSTOP" \in pending
        BY <1>2, <2>2, <4>1 DEF InterruptDue, Returned
      <4> QED
        BY <2>1, <3>2, <4>2 DEF InterruptDue
    <3> QED
      BY <3>1, <3>2
  <2> QED
    BY <1>1, <1>2, <2>1, <2>2, <2>3, <2>4
<1>6. CASE SyscallReturn
  <2>1. /\ tracee = "running" /\ insys # None /\ insys \in Syscalls /\ insys' = None
        /\ pending \subseteq pending'
    BY <1>6 DEF SyscallReturn, IInv, TypeOK, KernelType
  <2>2. "SIGSTOP" \in pending
    BY <1>2, <2>1 DEF InterruptDue, Returned, OnSite
  <2>3. SteppingOver => request = "PTRACE_SINGLESTEP"
    BY DEF JInv, StepPcOK
  <2>4. \/ request = "PTRACE_SINGLESTEP" /\ tracee' = "stopped" /\ wstat'.kind = "stopped"
           /\ wstat'.info = "SIGTRAP"
        \/ request # "PTRACE_SINGLESTEP" /\ tracee' \in {"running", "stopped"}
    BY <1>6, <2>1, StatusTypes DEF SyscallReturn, Stop
  <2> QED
    BY <1>1, <1>2, <2>1, <2>2, <2>3, <2>4 DEF InterruptDue
<1>7. CASE Exit \/ Kill
  BY <1>1, <1>7 DEF Exit, Kill, Die, InterruptDue
<1> QED
  BY <1>4, <1>5, <1>6, <1>7 DEF Kernel

\* The debugger.  The SIGSTOP that a step-over throws away leaves the tracee on its breakpoint.
LEMMA DebuggerComesCloser ==
    ASSUME HwAddrs = {}, IInv, JInv, PInv, WInv, Swallowed, InterruptDue, ~AtPrompt,
           Return \/ CallKilled \/ CallWait
    PROVE  Closer
<1> USE DEF Closer, Distance, StepsToPrompt, SteppingOver, Unread
<1>1. CASE StepOverDone
  <2>1. /\ SteppingOver /\ tracee = "stopped" /\ tracee' = "running" /\ rip \in Addr
        /\ ~SteppingOver' /\ pc' = pc /\ insys' = insys /\ pending' = pending
        /\ enable(rip) /\ sites[rip].kind # "absent"
    BY <1>1 DEF StepOverDone, ptrace, IInv, StatusOK, StepOverOK, TypeOK, DebuggerType
  <2>2. insys = None
    BY <2>1, <1>1 DEF PInv, FlagAtStop, RequestsOK, StepOverDone, AtSyscallStop
  <2>3. sites'[rip].enabled /\ sites'[rip].kind = "software"
    <3>1. sites[rip].kind = "software" /\ sites[rip] \in Site
      BY <2>1 DEF IInv, TypeOK, CodeType, SitesAllowed, Site
    <3> QED
      BY <2>1, <3>1 DEF enable, IInv, TypeOK, CodeType, code, Site
  <2>4. InterruptDue'
    <3>1. CASE "SIGSTOP" \in pending
      BY <2>1, <3>1 DEF InterruptDue
    <3>2. CASE "SIGSTOP" \notin pending
      <4>1. wstat.info = "SIGSTOP" /\ Unread
        BY <2>1, <3>2 DEF InterruptDue, Returned, OnSite
      <4>2. pc = rip
        BY <2>1, <4>1 DEF Swallowed
      <4> QED
        BY <2>1, <2>2, <2>3, <4>2 DEF InterruptDue, OnSite
    <3> QED
      BY <3>1, <3>2
  <2>5. Distance = 6
    BY <1>1, <2>1 DEF StepOverDone
  <2>6. Distance' \in {4, 5}
    BY <2>1, <2>2
  <2> QED
    BY <2>4, <2>5, <2>6
<1>2. CASE StepOverDead
  BY <1>2 DEF StepOverDead, WInv, AtPrompt
<1>3. CASE WaitStopped
  BY <1>3 DEF WaitStopped, FinishStep, AtPrompt
<1>4. CASE WaitDead
  BY <1>4 DEF WaitDead, AtPrompt, IInv, StatusOK
<1>5. CASE CallKilled
  BY <1>5 DEF CallKilled, AtPrompt
<1>6. CASE WaitUncaught
  <2>1. /\ tracee = "stopped" /\ wstat.info = "SIGTRAP|0x80" /\ ~SteppingOver
        /\ control = "wait"
    BY <1>6 DEF WaitUncaught, Uncaught, IInv, StatusOK
  <2>2. "SIGSTOP" \in pending
    BY <2>1 DEF InterruptDue, Returned, OnSite
  <2>3. /\ tracee' = "running" /\ insys' = insys /\ pending' = pending
        /\ wstat' = NoStatus /\ control' # "caller"
    BY <1>6 DEF WaitUncaught, resume, ptrace
  <2> QED
    BY <2>1, <2>2, <2>3, StatusTypes DEF InterruptDue
<1>7. CASE CallWait
  <2>1. /\ control = "caller" /\ control' = "wait"
        /\ UNCHANGED <<tracee, wstat, insys, pending, pc, sites>>
    BY <1>7 DEF CallWait, kernel, code
  <2> QED
    BY <2>1 DEF InterruptDue, Returned, OnSite
<1> QED
  BY <1>1, <1>2, <1>3, <1>4, <1>5, <1>6, <1>7 DEF Return

\* After a Ctrl-C every step of the tracee, of the kernel and of the debugger brings the user
\* nearer to the prompt, and there are at most seventeen of them; another Ctrl-C and another
\* policy in between change nothing.  With a hardware site this is false, since the resume
\* flag may let the tracee pass the breakpoint at which its SIGSTOP was thrown away.
THEOREM InterruptComesThrough ==
    ASSUME HwAddrs = {}
    PROVE  Spec => [][InterruptDue /\ ~AtPrompt =>
                         \/ Closer
                         \/ /\ handle_sigint \/ \E p \in Policies : set_syscall_catch_policy(p)
                            /\ InterruptDue' /\ Distance' = Distance]_vars
<1>1. ASSUME IInv, JInv, PInv, WInv, Swallowed, InterruptDue, ~AtPrompt, Next
      PROVE  \/ Closer
             \/ /\ handle_sigint \/ \E p \in Policies : set_syscall_catch_policy(p)
                /\ InterruptDue' /\ Distance' = Distance
  <2>1. CASE Kernel
    BY <1>1, <2>1, KernelComesCloser
  <2>2. CASE Return \/ CallKilled \/ CallWait
    BY <1>1, <2>2, DebuggerComesCloser
  <2>3. CASE handle_sigint
    <3>1. /\ UNCHANGED <<tracee, wstat, insys, control>>
          /\ pending' = pending \union {"SIGSTOP"}
      BY <2>3 DEF handle_sigint, debugger
    <3> QED
      BY <2>3, <3>1 DEF InterruptDue, Distance, StepsToPrompt, SteppingOver, Unread
  <2>4. CASE \E p \in Policies : set_syscall_catch_policy(p)
    <3>1. UNCHANGED <<tracee, wstat, insys, control, pending, pc, sites>>
      BY <2>4 DEF set_syscall_catch_policy, kernel, code
    <3> QED
      BY <1>1, <2>4, <3>1
      DEF InterruptDue, Returned, OnSite, Distance, StepsToPrompt, SteppingOver, Unread
  <2>5. ~(Resume \/ step_instruction \/ CallThrows \/ SiteCall \/ \E a \in JumpTo : set_pc(a))
    BY <1>1
    DEF Resume, step_instruction, CallThrows, SiteCall, CreateSite, EnableSite, DisableSite,
        RemoveSite, set_pc, CanPtrace
  <2> QED
    BY <1>1, <2>1, <2>2, <2>3, <2>4, <2>5 DEF Next, Call
<1>2. IInv /\ JInv /\ PInv /\ WInv /\ Swallowed /\ [Next]_vars =>
          [InterruptDue /\ ~AtPrompt =>
              \/ Closer
              \/ /\ handle_sigint \/ \E p \in Policies : set_syscall_catch_policy(p)
                 /\ InterruptDue' /\ Distance' = Distance]_vars
  BY <1>1
<1> QED
  BY <1>2, Invariance, TrapInvariance, PhaseInvariance, WaitInvariance, SwallowInvariance, PTL
  DEF Spec

\* And until then somebody can always take such a step.
THEOREM InterruptIsNotStuck ==
    ASSUME HwAddrs = {}
    PROVE  Spec => [](InterruptDue /\ ~AtPrompt => SomebodyCanAct)
<1>1. IInv /\ WInv => (InterruptDue /\ ~AtPrompt => SomebodyCanAct)
  <2> SUFFICES ASSUME IInv, WInv, InterruptDue, ~AtPrompt, control # "caller",
                      tracee = "running"
               PROVE  pending # {} \/ Fetch("int3")
    BY DEF SomebodyCanAct, WInv, WaitHasEnd, AtPrompt
  <2> SUFFICES ASSUME pending = {} PROVE Fetch("int3")
    OBVIOUS
  <2>1. OnSite
    BY DEF InterruptDue, Returned, IInv, StatusOK, Unread
  <2>2. mem[pc] = "int3" /\ armed = {}
    BY <2>1 DEF OnSite, IInv, TypeOK, KernelType, CodeType, SitesInMemory, SitesAllowed
  <2> QED
    BY <2>1, <2>2 DEF OnSite, Fetch, InUserMode
<1> QED
  BY <1>1, Invariance, WaitInvariance, PTL
=============================================================================
