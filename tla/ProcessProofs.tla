--------------------------- MODULE ProcessProofs ---------------------------
(***************************************************************************)
(* Theorems about Process.tla, for every program, every set of sites and   *)
(* every system call policy.                                               *)
(***************************************************************************)
EXTENDS Process, TLAPS

SteppingOver == control \in {"step_over", "wait_step_over"}

\* A site is where the user may create one.
SitesAllowed ==
    \A a \in Addr :
        /\ sites[a].kind = "absent" => ~sites[a].enabled
        /\ sites[a].kind = "software" => a \in SwAddrs
        /\ sites[a].kind = "hardware" => a \in HwAddrs

\* Which statuses waitpid can find.
StatusOK ==
    /\ wstat.kind = "stopped" => tracee = "stopped"
    /\ tracee = "zombie" => wstat.kind \in {"exited", "terminated"}

\* At the prompt the tracee does not run, and no site is out.
PromptOK ==
    /\ AtPrompt => tracee # "running"
    /\ control = "caller" => reenable = None

\* A step_instruction with a site to enable again has not been resumed by anything else, so
\* it sees no system call stop and auto-resumes nothing.
StepOK ==
    reenable # None =>
        /\ control = "wait" /\ request = "PTRACE_SINGLESTEP"
        /\ wstat.info # "SIGTRAP|0x80"
        /\ sites[reenable].kind # "absent"

\* The site that resume is stepping over exists, and is the one the cached pc leads to.
StepOverOK == SteppingOver => sites[rip].kind # "absent"

\* The sites that a call in progress has taken out.
TakenOut == (IF SteppingOver THEN {rip} ELSE {}) \union ({reenable} \ {None})

Enabled == {a \in Addr : sites[a].enabled}

\* The user's sites are in force, or taken out by the call in progress.
WantedOK ==
    tracee \in {"running", "stopped"} =>
        Enabled \union TakenOut = wanted

IInv ==
    /\ TypeOK /\ SitesInMemory /\ SitesAllowed /\ StatusOK /\ PromptOK
    /\ StepOK /\ StepOverOK /\ WantedOK /\ RegistersCoherent /\ DeathIsTold

(***************************************************************************)
(* The code of the tracee and the sites in it.                             *)
(***************************************************************************)
CodeOK == CodeType /\ SitesInMemory /\ SitesAllowed

\* breakpoint_site::enable keeps the code and the sites consistent, and adds one site to
\* those in force.
LEMMA EnableKeepsCode ==
    ASSUME CodeOK, NEW a \in Addr, sites[a].kind # "absent", enable(a)
    PROVE  /\ CodeOK'
           /\ Enabled' = Enabled \union {a}
           /\ \A b \in Addr : sites'[b].kind = sites[b].kind
<1>0. sites[a].kind \in {"software", "hardware"}
  BY DEF CodeOK, CodeType, Site
<1>1. CASE sites[a].enabled
  BY <1>1 DEF enable, code, CodeOK, CodeType, SitesInMemory, SitesAllowed, Enabled
<1>2. CASE ~sites[a].enabled /\ sites[a].kind = "hardware"
  <2>1. armed' = armed \union {a} /\ mem' = mem /\ sites' = [sites EXCEPT ![a].enabled = TRUE]
    BY <1>2 DEF enable
  <2>2. CodeType'
    BY <2>1 DEF CodeOK, CodeType, Site
  <2>3. SitesInMemory'
    BY <1>2, <2>1 DEF CodeOK, CodeType, Site, SitesInMemory
  <2>4. SitesAllowed'
    BY <1>2, <2>1 DEF CodeOK, CodeType, Site, SitesAllowed, Absent
  <2>5. Enabled' = Enabled \union {a} /\ \A b \in Addr : sites'[b].kind = sites[b].kind
    BY <2>1 DEF CodeOK, CodeType, Site, Enabled
  <2> QED
    BY <2>2, <2>3, <2>4, <2>5 DEF CodeOK
<1>3. CASE ~sites[a].enabled /\ sites[a].kind = "software"
  <2>1. /\ mem' = [mem EXCEPT ![a] = "int3"] /\ armed' = armed
        /\ sites' = [sites EXCEPT ![a].enabled = TRUE, ![a].saved = mem[a]]
    BY <1>3 DEF enable
  <2>2. CodeType'
    BY <2>1 DEF CodeOK, CodeType, Site, Instr
  <2>3. SitesInMemory'
    BY <1>3, <2>1 DEF CodeOK, CodeType, Site, SitesInMemory
  <2>4. SitesAllowed'
    BY <1>3, <2>1 DEF CodeOK, CodeType, Site, SitesAllowed, Absent
  <2>5. Enabled' = Enabled \union {a} /\ \A b \in Addr : sites'[b].kind = sites[b].kind
    BY <2>1 DEF CodeOK, CodeType, Site, Enabled
  <2> QED
    BY <2>2, <2>3, <2>4, <2>5 DEF CodeOK
<1> QED
  BY <1>0, <1>1, <1>2, <1>3

\* breakpoint_site::disable likewise, and it takes the site out.
LEMMA DisableKeepsCode ==
    ASSUME CodeOK, NEW a \in Addr, disable(a)
    PROVE  /\ CodeOK'
           /\ Enabled' = Enabled \ {a}
           /\ \A b \in Addr : sites'[b].kind = sites[b].kind
<1>1. CodeType'
  BY ProgAssumption DEF disable, restore, CodeOK, CodeType, Site, SitesInMemory
<1>2. SitesInMemory'
  BY DEF disable, restore, CodeOK, CodeType, Site, SitesInMemory
<1>3. SitesAllowed'
  BY DEF disable, CodeOK, CodeType, Site, SitesAllowed
<1>4. Enabled' = Enabled \ {a} /\ \A b \in Addr : sites'[b].kind = sites[b].kind
  BY DEF disable, CodeOK, CodeType, Site, Enabled
<1> QED
  BY <1>1, <1>2, <1>3, <1>4 DEF CodeOK

\* So does the removal of a site.
LEMMA RemoveKeepsCode ==
    ASSUME CodeOK, NEW a \in Addr, restore(a), sites' = [sites EXCEPT ![a] = Absent]
    PROVE  CodeOK' /\ Enabled' = Enabled \ {a}
<1>1. CodeType'
  BY ProgAssumption DEF restore, CodeOK, CodeType, Site, SitesInMemory, Absent
<1>2. SitesInMemory'
  BY DEF restore, CodeOK, CodeType, Site, SitesInMemory, Absent
<1>3. SitesAllowed' /\ Enabled' = Enabled \ {a}
  BY DEF CodeOK, CodeType, SitesAllowed, Enabled, Absent
<1> QED
  BY <1>1, <1>2, <1>3 DEF CodeOK

\* A new site is not enabled.
LEMMA CreateKeepsCode ==
    ASSUME CodeOK, NEW a \in Addr, NEW kind \in {"software", "hardware"}, CreateSite(a, kind)
    PROVE  CodeOK' /\ Enabled' = Enabled
<1>1. CodeType' /\ SitesInMemory' /\ Enabled' = Enabled
  BY DEF CreateSite, create_breakpoint_site, contains_address, CodeOK, CodeType, Site,
         SitesInMemory, SitesAllowed, Enabled, Absent
<1>2. SitesAllowed'
  BY DEF CreateSite, create_breakpoint_site, contains_address, CodeOK, CodeType, Site,
         SitesAllowed, Absent
<1> QED
  BY <1>1, <1>2 DEF CodeOK

(***************************************************************************)
(* The inductive invariant.  The steps of the kernel and of the tracee     *)
(* leave the debugger and the code alone.                                  *)
(***************************************************************************)
\* Instructions that advance the pc are not at the last address, nor is a breakpoint there.
LEMMA NoFallThrough ==
    ASSUME CodeOK, KernelType, mem[pc] \in {"int3"} \union Syscalls
    PROVE  pc + 1 \in Addr
<1>1. pc # Last
  BY LastAssumption, ProgAssumption, SwAssumption
  DEF CodeOK, SitesInMemory, SitesAllowed, CodeType, Site, KernelType, Addr, Syscalls
<1> QED
  BY <1>1, LastAssumption DEF KernelType, Addr

\* The statuses the kernel makes.
LEMMA StatusTypes ==
    /\ \A info \in {"SIGTRAP", "SIGSTOP", "SIGSEGV"},
          c \in {"none", "SI_USER", "SI_KERNEL", "TRAP_TRACE", "TRAP_BRKPT", "TRAP_HWBKPT"} :
            /\ Signal(info, c) \in Status
            /\ Signal(info, c).kind = "stopped" /\ Signal(info, c).info = info
            /\ Signal(info, c).code = c
    /\ \A id \in Syscalls :
            /\ SyscallStatus(id) \in Status /\ SyscallStatus(id).kind = "stopped"
            /\ SyscallStatus(id).info = "SIGTRAP|0x80" /\ SyscallStatus(id).code = "none"
    /\ \A s \in {Exited, Terminated} :
            s \in Status /\ s.kind \in {"exited", "terminated"} /\ s.info = "none"
    /\ NoStatus \in Status /\ NoStatus.kind = "none" /\ NoStatus.info = "none"
    /\ NoStatus.code = "none"
BY DEF Status, Signal, SyscallStatus, Exited, Terminated, NoStatus

LEMMA KernelLeavesDebugger ==
    ASSUME Kernel \/ handle_sigint
    PROVE  UNCHANGED <<code, debugger, wanted, request>>
BY DEF Kernel, Execute, HardwareTrap, Fault, Int3, Plain, SyscallEntry, SyscallReturn,
       Exit, Kill, Die, Deliver, handle_sigint

LEMMA KernelTypeStep ==
    ASSUME IInv, Kernel \/ handle_sigint
    PROVE  KernelType' /\ told' \in Addr \union {None}
<1> USE StatusTypes DEF IInv, TypeOK, KernelType, Stop
<1>1. CASE HardwareTrap
  BY <1>1 DEF HardwareTrap
<1>2. CASE Fault
  BY <1>2 DEF Fault
<1>3. CASE Int3
  <2>1. pc + 1 \in Addr
    BY <1>3, NoFallThrough DEF Int3, Fetch, CodeOK
  <2> QED
    BY <1>3, <2>1 DEF Int3
<1>4. CASE Plain
  <2>1. pc' \in Addr
    BY <1>4, SuccAssumption DEF Plain
  <2>2. wstat' \in Status /\ tracee' \in {"running", "stopped", "zombie", "reaped"}
    <3>1. CASE request = "PTRACE_SINGLESTEP"
      BY <1>4, <3>1 DEF Plain
    <3>2. CASE request # "PTRACE_SINGLESTEP"
      BY <1>4, <3>2 DEF Plain
    <3> QED
      BY <3>1, <3>2
  <2>3. rf' = FALSE /\ told' = None /\ UNCHANGED <<insys, pending, request>>
    BY <1>4 DEF Plain
  <2> QED
    BY <2>1, <2>2, <2>3
<1>5. CASE SyscallEntry
  <2>1. PICK id \in Syscalls :
            Fetch(id) /\ insys' = id
            /\ IF request = "PTRACE_SYSCALL" THEN Stop(SyscallStatus(id))
               ELSE UNCHANGED <<tracee, wstat>>
    BY <1>5 DEF SyscallEntry
  <2>2. pc + 1 \in Addr
    BY <2>1, NoFallThrough DEF Fetch, CodeOK
  <2>3. wstat' \in Status /\ tracee' \in {"running", "stopped", "zombie", "reaped"}
    BY <2>1
  <2>4. pc' = pc + 1 /\ rf' = FALSE /\ told' = None /\ UNCHANGED <<pending, request>>
    BY <1>5 DEF SyscallEntry
  <2> QED
    BY <2>1, <2>2, <2>3, <2>4
<1>6. CASE SyscallReturn
  BY <1>6 DEF SyscallReturn
<1>7. CASE Exit
  BY <1>7 DEF Exit, Die
<1>8. CASE Kill
  BY <1>8 DEF Kill, Die
<1>9. CASE Deliver
  BY <1>9 DEF Deliver
<1>10. CASE handle_sigint
  BY <1>10 DEF handle_sigint
<1> QED
  BY <1>1, <1>2, <1>3, <1>4, <1>5, <1>6, <1>7, <1>8, <1>9, <1>10 DEF Kernel, Execute

\* What a step of the kernel does to the control of the tracee, whichever it is.
KernelStops ==
    /\ tracee = "running" /\ tracee' = "stopped" /\ wstat'.kind = "stopped"
    /\ wstat'.info = "SIGTRAP|0x80" => request = "PTRACE_SYSCALL"

KernelEnds ==
    /\ tracee \in {"running", "stopped"} /\ tracee' = "zombie"
    /\ wstat'.kind \in {"exited", "terminated"} /\ wstat'.info = "none"

LEMMA KernelControlStep ==
    ASSUME IInv, Kernel \/ handle_sigint
    PROVE  KernelStops \/ KernelEnds \/ UNCHANGED <<tracee, wstat>>
<1> USE StatusTypes DEF IInv, TypeOK, KernelType, Stop, KernelStops, KernelEnds
<1>1. CASE HardwareTrap
  BY <1>1 DEF HardwareTrap, InUserMode
<1>2. CASE Fault
  BY <1>2 DEF Fault, Fetch, InUserMode
<1>3. CASE Int3
  BY <1>3 DEF Int3, Fetch, InUserMode
<1>4. CASE Plain
  BY <1>4 DEF Plain, Fetch, InUserMode
<1>5. CASE SyscallEntry
  BY <1>5 DEF SyscallEntry, Fetch, InUserMode
<1>6. CASE SyscallReturn
  BY <1>6 DEF SyscallReturn
<1>7. CASE Exit
  BY <1>7 DEF Exit, Die
<1>8. CASE Kill
  BY <1>8 DEF Kill, Die
<1>9. CASE Deliver
  BY <1>9 DEF Deliver
<1>10. CASE handle_sigint
  BY <1>10 DEF handle_sigint
<1> QED
  BY <1>1, <1>2, <1>3, <1>4, <1>5, <1>6, <1>7, <1>8, <1>9, <1>10 DEF Kernel, Execute

\* A tracee that is not running stands still.
LEMMA KernelStandsStill ==
    ASSUME Kernel \/ handle_sigint, tracee # "running"
    PROVE  pc' = pc /\ rf' = rf /\ told' = told
BY DEF Kernel, Execute, HardwareTrap, Fault, Int3, Plain, SyscallEntry, SyscallReturn, Fetch,
       InUserMode, Exit, Kill, Die, Deliver, handle_sigint

LEMMA KernelKeepsIInv ==
    ASSUME IInv, Kernel \/ handle_sigint
    PROVE  IInv'
<1>1. UNCHANGED <<mem, armed, sites, wanted, request>>
      /\ UNCHANGED <<rip, state_, policy, expecting, control, reenable, report>>
  BY KernelLeavesDebugger DEF code, debugger
<1>2. KernelStops \/ KernelEnds \/ UNCHANGED <<tracee, wstat>>
  BY KernelControlStep
<1>3. TypeOK'
  BY <1>1, KernelTypeStep DEF IInv, TypeOK, CodeType, DebuggerType
<1>4. SitesInMemory' /\ SitesAllowed'
  BY <1>1 DEF IInv, SitesInMemory, SitesAllowed
<1>5. StatusOK' /\ PromptOK' /\ DeathIsTold'
  BY <1>1, <1>2 DEF IInv, StatusOK, PromptOK, AtPrompt, DeathIsTold, KernelStops, KernelEnds
<1>6. StepOK' /\ StepOverOK'
  BY <1>1, <1>2 DEF IInv, StepOK, StepOverOK, SteppingOver, KernelStops, KernelEnds
<1>7. WantedOK'
  BY <1>1, <1>2 DEF IInv, WantedOK, Enabled, TakenOut, SteppingOver, KernelStops, KernelEnds
<1>8. RegistersCoherent'
  BY <1>1, <1>2, KernelStandsStill
  DEF IInv, RegistersCoherent, CanPtrace, PromptOK, AtPrompt, KernelStops, KernelEnds
<1> QED
  BY <1>3, <1>4, <1>5, <1>6, <1>7, <1>8 DEF IInv

(***************************************************************************)
(* The steps of the debugger.                                              *)
(***************************************************************************)
LEMMA ResumeKeepsIInv ==
    ASSUME IInv, Resume
    PROVE  IInv'
<1> USE StatusTypes DEF IInv, ptrace, continue_request
<1>1. /\ control = "caller" /\ state_ # "running" /\ tracee = "stopped" /\ reenable = None
      /\ tracee' = "running" /\ wstat' = NoStatus
      /\ request' \in {"PTRACE_CONT", "PTRACE_SYSCALL", "PTRACE_SINGLESTEP"}
      /\ state_' \in {"stopped", "running"}
      /\ UNCHANGED <<rf, pc, insys, pending>>
      /\ UNCHANGED <<rip, policy, expecting, reenable, report, told, wanted>>
  BY DEF Resume, resume, CanPtrace, AtPrompt, PromptOK
<1>2. CodeOK /\ rip \in Addr
  BY DEF CodeOK, TypeOK, DebuggerType
<1>3. \/ /\ control' = "step_over" /\ state_' = "stopped"
         /\ CodeOK' /\ Enabled' = Enabled \ {rip} /\ rip \in Enabled
         /\ sites'[rip].kind # "absent"
      \/ /\ control' = "caller" /\ state_' = "running"
         /\ CodeOK' /\ Enabled' = Enabled
  <2>1. CASE enabled_stoppoint_at_address(rip)
    <3>1. disable(rip) /\ control' = "step_over" /\ state_' = "stopped"
      BY <2>1 DEF Resume, resume
    <3> QED
      BY <1>2, <2>1, <3>1, DisableKeepsCode
      DEF enabled_stoppoint_at_address, contains_address, Enabled
  <2>2. CASE ~enabled_stoppoint_at_address(rip)
    <3>1. UNCHANGED <<sites, mem, armed>> /\ control' = "caller" /\ state_' = "running"
      BY <2>2 DEF Resume, resume, code
    <3> QED
      BY <1>2, <3>1 DEF CodeOK, CodeType, SitesInMemory, SitesAllowed, Enabled
  <2> QED
    BY <2>1, <2>2
<1>4. TypeOK' /\ SitesInMemory' /\ SitesAllowed'
  BY <1>1, <1>3 DEF CodeOK, TypeOK, KernelType, DebuggerType
<1>5. StatusOK' /\ PromptOK' /\ StepOK' /\ RegistersCoherent' /\ DeathIsTold'
  BY <1>1, <1>3
  DEF StatusOK, PromptOK, AtPrompt, StepOK, RegistersCoherent, CanPtrace, DeathIsTold
<1>6. StepOverOK' /\ WantedOK'
  BY <1>1, <1>3 DEF StepOverOK, WantedOK, SteppingOver, TakenOut
<1> QED
  BY <1>4, <1>5, <1>6 DEF IInv

LEMMA StepOverDoneKeepsIInv ==
    ASSUME IInv, StepOverDone
    PROVE  IInv'
<1> USE StatusTypes DEF IInv, ptrace, continue_request
<1>1. /\ SteppingOver /\ tracee = "stopped" /\ reenable = None
      /\ tracee' = "running" /\ wstat' = NoStatus /\ state_' = "running"
      /\ request' \in {"PTRACE_CONT", "PTRACE_SYSCALL", "PTRACE_SINGLESTEP"}
      /\ control' \in {"caller", "wait"}
      /\ UNCHANGED <<rf, pc, insys, pending>>
      /\ UNCHANGED <<rip, policy, expecting, reenable, report, told, wanted>>
  BY DEF StepOverDone, SteppingOver, StatusOK, StepOK
<1>2. CodeOK' /\ Enabled' = Enabled \union {rip}
  BY EnableKeepsCode DEF StepOverDone, CodeOK, TypeOK, DebuggerType, StepOverOK, SteppingOver
<1>3. TypeOK' /\ SitesInMemory' /\ SitesAllowed'
  BY <1>1, <1>2 DEF CodeOK, TypeOK, KernelType, DebuggerType
<1>4. StatusOK' /\ PromptOK' /\ StepOK' /\ RegistersCoherent' /\ DeathIsTold'
  BY <1>1
  DEF StatusOK, PromptOK, AtPrompt, StepOK, RegistersCoherent, CanPtrace, DeathIsTold
<1>5. StepOverOK' /\ WantedOK'
  BY <1>1, <1>2 DEF StepOverOK, WantedOK, SteppingOver, TakenOut
<1> QED
  BY <1>3, <1>4, <1>5 DEF IInv

LEMMA step_instructionKeepsIInv ==
    ASSUME IInv, step_instruction
    PROVE  IInv'
<1> USE StatusTypes DEF IInv, ptrace
<1>1. /\ control = "caller" /\ state_ # "running" /\ tracee = "stopped" /\ reenable = None
      /\ tracee' = "running" /\ wstat' = NoStatus /\ control' = "wait"
      /\ request' = "PTRACE_SINGLESTEP"
      /\ UNCHANGED <<rf, pc, insys, pending>>
      /\ UNCHANGED <<rip, state_, policy, expecting, report, told, wanted>>
  BY DEF step_instruction, CanPtrace, AtPrompt, PromptOK
<1>2. CodeOK /\ rip \in Addr /\ rip # None
  BY NoneAssumption DEF CodeOK, TypeOK, DebuggerType
<1>3. \/ /\ reenable' = rip /\ sites'[rip].kind # "absent"
         /\ CodeOK' /\ Enabled' = Enabled \ {rip} /\ rip \in Enabled
      \/ /\ reenable' = None
         /\ CodeOK' /\ Enabled' = Enabled
  <2>1. CASE enabled_stoppoint_at_address(rip)
    <3>1. disable(rip) /\ reenable' = rip
      BY <2>1 DEF step_instruction
    <3> QED
      BY <1>2, <2>1, <3>1, DisableKeepsCode
      DEF enabled_stoppoint_at_address, contains_address, Enabled
  <2>2. CASE ~enabled_stoppoint_at_address(rip)
    <3>1. UNCHANGED <<sites, mem, armed>> /\ reenable' = None
      BY <1>1, <2>2 DEF step_instruction, code
    <3> QED
      BY <1>2, <3>1 DEF CodeOK, CodeType, SitesInMemory, SitesAllowed, Enabled
  <2> QED
    BY <2>1, <2>2
<1>4. TypeOK' /\ SitesInMemory' /\ SitesAllowed'
  BY <1>1, <1>2, <1>3 DEF CodeOK, TypeOK, KernelType, DebuggerType
<1>5. StatusOK' /\ PromptOK' /\ StepOK' /\ RegistersCoherent' /\ DeathIsTold'
  BY <1>1, <1>3
  DEF StatusOK, PromptOK, AtPrompt, StepOK, RegistersCoherent, CanPtrace, DeathIsTold
<1>6. StepOverOK' /\ WantedOK'
  BY <1>1, <1>2, <1>3 DEF StepOverOK, WantedOK, SteppingOver, TakenOut
<1> QED
  BY <1>4, <1>5, <1>6 DEF IInv

LEMMA WaitStoppedKeepsIInv ==
    ASSUME IInv, WaitStopped
    PROVE  IInv'
<1> USE StatusTypes DEF IInv
<1>1. /\ control = "wait" /\ tracee = "stopped" /\ control' = "caller"
      /\ wstat' = NoStatus /\ state_' = "stopped" /\ reenable' = None
      /\ rip' = instr_begin(wstat) /\ pc' = rip' /\ told' = rip'
      /\ report' = Report("stopped", trap_reason(wstat))
      /\ expecting' \in BOOLEAN
      /\ UNCHANGED <<rf, insys, pending, tracee, request, policy, wanted>>
  BY DEF WaitStopped, StatusOK, write_rip, FinishStep, augment_stop_reason, TypeOK, DebuggerType
<1>2. instr_begin(wstat) \in Addr
  BY LastAssumption DEF instr_begin, TypeOK, KernelType, Addr
<1>3. report' \in [reason : {"stopped", "exited", "terminated", "error"},
                   trap : {"none", "unknown", "single_step", "software_break",
                           "hardware_break", "syscall_entry", "syscall_exit"}]
  BY <1>1 DEF Report, trap_reason
<1>4. CodeOK' /\ Enabled' = Enabled \union ({reenable} \ {None})
  <2>1. CASE reenable = None
    <3>1. UNCHANGED <<sites, mem, armed>>
      BY <2>1 DEF WaitStopped, FinishStep, code
    <3> QED
      BY <2>1, <3>1 DEF CodeOK, TypeOK, CodeType, SitesInMemory, SitesAllowed, Enabled
  <2>2. CASE reenable # None
    <3>1. enable(reenable) /\ reenable \in Addr /\ sites[reenable].kind # "absent" /\ CodeOK
      BY <2>2 DEF WaitStopped, FinishStep, StepOK, TypeOK, DebuggerType, CodeOK
    <3> QED
      BY <2>2, <3>1, EnableKeepsCode
  <2> QED
    BY <2>1, <2>2
<1>5. TypeOK' /\ SitesInMemory' /\ SitesAllowed'
  BY <1>1, <1>2, <1>3, <1>4 DEF CodeOK, TypeOK, KernelType, DebuggerType
<1>6. StatusOK' /\ PromptOK' /\ StepOK' /\ RegistersCoherent' /\ DeathIsTold'
  BY <1>1
  DEF StatusOK, PromptOK, AtPrompt, StepOK, RegistersCoherent, CanPtrace, DeathIsTold
<1>7. StepOverOK' /\ WantedOK'
  BY <1>1, <1>4 DEF StepOverOK, WantedOK, SteppingOver, TakenOut
<1> QED
  BY <1>5, <1>6, <1>7 DEF IInv

LEMMA WaitUncaughtKeepsIInv ==
    ASSUME IInv, WaitUncaught
    PROVE  IInv'
<1> USE StatusTypes DEF IInv, ptrace, continue_request
<1>1. /\ control = "wait" /\ tracee = "stopped" /\ reenable = None
      /\ tracee' = "running" /\ wstat' = NoStatus
      /\ request' \in {"PTRACE_CONT", "PTRACE_SYSCALL", "PTRACE_SINGLESTEP"}
      /\ rip' = pc /\ expecting' \in BOOLEAN
      /\ UNCHANGED <<rf, pc, insys, pending>>
      /\ UNCHANGED <<policy, reenable, report, told, wanted>>
  BY DEF WaitUncaught, Uncaught, resume, augment_stop_reason, StepOK, StatusOK, TypeOK,
         DebuggerType
<1>2. CodeOK /\ pc \in Addr
  BY DEF CodeOK, TypeOK, KernelType
<1>3. \/ /\ control' = "wait_step_over" /\ state_' = "stopped"
         /\ CodeOK' /\ Enabled' = Enabled \ {pc} /\ pc \in Enabled
         /\ sites'[pc].kind # "absent"
      \/ /\ control' = "wait" /\ state_' = "running"
         /\ CodeOK' /\ Enabled' = Enabled
  <2>1. CASE enabled_stoppoint_at_address(pc)
    <3>1. disable(pc) /\ control' = "wait_step_over" /\ state_' = "stopped"
      BY <2>1 DEF WaitUncaught, resume
    <3> QED
      BY <1>2, <2>1, <3>1, DisableKeepsCode
      DEF enabled_stoppoint_at_address, contains_address, Enabled
  <2>2. CASE ~enabled_stoppoint_at_address(pc)
    <3>1. UNCHANGED <<sites, mem, armed>> /\ control' = "wait" /\ state_' = "running"
      BY <2>2 DEF WaitUncaught, resume, code
    <3> QED
      BY <1>2, <3>1 DEF CodeOK, CodeType, SitesInMemory, SitesAllowed, Enabled
  <2> QED
    BY <2>1, <2>2
<1>4. TypeOK' /\ SitesInMemory' /\ SitesAllowed'
  BY <1>1, <1>2, <1>3 DEF CodeOK, TypeOK, KernelType, DebuggerType
<1>5. StatusOK' /\ PromptOK' /\ StepOK' /\ RegistersCoherent' /\ DeathIsTold'
  BY <1>1, <1>3
  DEF StatusOK, PromptOK, AtPrompt, StepOK, RegistersCoherent, CanPtrace, DeathIsTold
<1>6. StepOverOK' /\ WantedOK'
  BY <1>1, <1>3 DEF StepOverOK, WantedOK, SteppingOver, TakenOut
<1> QED
  BY <1>4, <1>5, <1>6 DEF IInv

\* The three ways in which a blocked call finds that the tracee has ended.
LEMMA EndKeepsIInv ==
    ASSUME IInv, StepOverDead \/ WaitDead \/ CallKilled
    PROVE  IInv'
<1> USE StatusTypes DEF IInv
<1>1. UNCHANGED <<sites, mem, armed>> /\ UNCHANGED <<rf, pc, request>>
      /\ UNCHANGED <<rip, policy, expecting, told, wanted>>
  BY DEF StepOverDead, WaitDead, CallKilled, code
<1>2. insys' \in Syscalls \union {None} /\ pending' \subseteq {"SIGTRAP", "SIGSTOP"}
      /\ reenable' = None /\ control' = "caller"
  <2> insys \in Syscalls \union {None} /\ pending \subseteq {"SIGTRAP", "SIGSTOP"}
    BY DEF TypeOK, KernelType
  <2>1. CASE StepOverDead
    BY <2>1 DEF StepOverDead
  <2>2. CASE WaitDead
    BY <2>2 DEF WaitDead
  <2>3. CASE CallKilled
    BY <2>3 DEF CallKilled
  <2> QED
    BY <2>1, <2>2, <2>3
<1>3. report' \in [reason : {"stopped", "exited", "terminated", "error"},
                   trap : {"none", "unknown", "single_step", "software_break",
                           "hardware_break", "syscall_entry", "syscall_exit"}]
  <2>1. CASE StepOverDead
    BY <2>1 DEF StepOverDead, Error, Report
  <2>2. CASE WaitDead
    BY <2>2 DEF WaitDead, Error, Report, StatusOK
  <2>3. CASE CallKilled
    BY <2>3 DEF CallKilled, Error, Report
  <2> QED
    BY <2>1, <2>2, <2>3
<1>4. \/ /\ tracee' = "reaped" /\ wstat' = NoStatus
         /\ \/ report' = Error /\ state_' = state_
            \/ state_' \in {"exited", "terminated"}
      \/ /\ tracee = "stopped" /\ tracee' = "zombie"
         /\ wstat' = Terminated /\ state_' = "stopped"
  <2>1. CASE StepOverDead
    BY <2>1 DEF StepOverDead
  <2>2. CASE WaitDead
    BY <2>2 DEF WaitDead, StatusOK
  <2>3. CASE CallKilled
    BY <2>3 DEF CallKilled, StatusOK
  <2> QED
    BY <2>1, <2>2, <2>3
<1>5. TypeOK' /\ SitesInMemory' /\ SitesAllowed'
  BY <1>1, <1>2, <1>3, <1>4
  DEF TypeOK, CodeType, KernelType, DebuggerType, SitesInMemory, SitesAllowed
<1>6. StatusOK' /\ PromptOK' /\ StepOK' /\ RegistersCoherent' /\ DeathIsTold'
  BY <1>2, <1>4
  DEF StatusOK, PromptOK, AtPrompt, StepOK, RegistersCoherent, CanPtrace, DeathIsTold
<1>7. StepOverOK' /\ WantedOK'
  BY <1>2, <1>4 DEF StepOverOK, WantedOK, SteppingOver
<1> QED
  BY <1>5, <1>6, <1>7 DEF IInv

\* The calls that change the sites: they are made at the prompt, where no site is out.
LEMMA SiteCallKeepsIInv ==
    ASSUME IInv, SiteCall
    PROVE  IInv'
<1> USE DEF IInv
<1>1. PICK a \in Addr : \/ \E kind \in {"software", "hardware"} : CreateSite(a, kind)
                        \/ EnableSite(a) \/ DisableSite(a) \/ RemoveSite(a)
  BY DEF SiteCall
<1>2. /\ AtPrompt /\ reenable = None /\ TakenOut = {}
      /\ UNCHANGED <<rf, pc, insys, pending, tracee, request, wstat>>
      /\ UNCHANGED <<rip, state_, policy, expecting, control, reenable, report, told>>
  BY <1>1 DEF CreateSite, EnableSite, DisableSite, RemoveSite, CanPtrace, AtPrompt, PromptOK,
              TakenOut, SteppingOver, kernel, debugger
<1>3. CodeOK
  BY DEF CodeOK, TypeOK
<1>4. CodeOK' /\ wanted' \subseteq Addr
      /\ (tracee \in {"running", "stopped"} => Enabled' = wanted')
  <2>1. ASSUME NEW kind \in {"software", "hardware"}, CreateSite(a, kind)
        PROVE  CodeOK' /\ Enabled' = Enabled /\ wanted' = wanted
    BY <1>3, <2>1, CreateKeepsCode DEF CreateSite
  <2>2. CASE EnableSite(a)
    <3>1. CodeOK' /\ Enabled' = Enabled \union {a} /\ wanted' = wanted \union {a}
      BY <1>3, <2>2, EnableKeepsCode DEF EnableSite, contains_address
    <3> QED
      BY <1>2, <3>1 DEF WantedOK, TypeOK
  <2>3. CASE DisableSite(a)
    <3>1. CodeOK' /\ Enabled' = Enabled \ {a} /\ wanted' = wanted \ {a}
      BY <1>3, <2>3, DisableKeepsCode DEF DisableSite
    <3> QED
      BY <1>2, <3>1 DEF WantedOK, TypeOK
  <2>4. CASE RemoveSite(a)
    <3>1. CodeOK' /\ Enabled' = Enabled \ {a} /\ wanted' = wanted \ {a}
      BY <1>3, <2>4, RemoveKeepsCode DEF RemoveSite
    <3> QED
      BY <1>2, <3>1 DEF WantedOK, TypeOK
  <2> QED
    BY <1>1, <1>2, <2>1, <2>2, <2>3, <2>4 DEF WantedOK, TypeOK
<1>5. TypeOK' /\ SitesInMemory' /\ SitesAllowed'
  BY <1>2, <1>4 DEF CodeOK, TypeOK, KernelType, DebuggerType
<1>6. StatusOK' /\ PromptOK' /\ StepOK' /\ RegistersCoherent' /\ DeathIsTold'
  BY <1>2
  DEF StatusOK, PromptOK, AtPrompt, StepOK, RegistersCoherent, CanPtrace, DeathIsTold
<1>7. StepOverOK' /\ WantedOK'
  BY <1>2, <1>4 DEF StepOverOK, WantedOK, SteppingOver, TakenOut, AtPrompt
<1> QED
  BY <1>5, <1>6, <1>7 DEF IInv

\* The calls that change no site.
LEMMA OtherCallKeepsIInv ==
    ASSUME IInv,
           \/ CallWait \/ CallThrows \/ \E a \in JumpTo : set_pc(a)
           \/ \E p \in Policies : set_syscall_catch_policy(p)
    PROVE  IInv'
<1> USE DEF IInv
<1>1. /\ UNCHANGED <<sites, mem, armed>>
      /\ UNCHANGED <<rf, insys, pending, tracee, request, wstat>>
      /\ UNCHANGED <<state_, expecting, reenable, wanted>>
      /\ control = "caller"
  BY DEF CallWait, CallThrows, set_pc, set_syscall_catch_policy, AtPrompt, CanPtrace, code,
         kernel
<1>2. /\ UNCHANGED <<pc, rip, told>> \/ (rip' \in Addr /\ pc' = rip' /\ told' = rip')
      /\ control' = control \/ (control' = "wait" /\ state_ = "running")
      /\ policy' = policy \/ policy' \in Policies
      /\ report' = report \/ report' = Error
  BY JumpAssumption
  DEF CallWait, CallThrows, set_pc, set_syscall_catch_policy, write_rip, kernel
<1>3. Error \in [reason : {"stopped", "exited", "terminated", "error"},
                 trap : {"none", "unknown", "single_step", "software_break",
                         "hardware_break", "syscall_entry", "syscall_exit"}]
  BY DEF Error, Report
<1>4. TypeOK' /\ SitesInMemory' /\ SitesAllowed'
  BY <1>1, <1>2, <1>3, PolicyAssumption
  DEF TypeOK, CodeType, KernelType, DebuggerType, SitesInMemory, SitesAllowed
<1>5. StatusOK' /\ PromptOK' /\ StepOK' /\ RegistersCoherent' /\ DeathIsTold'
  BY <1>1, <1>2
  DEF StatusOK, PromptOK, AtPrompt, StepOK, RegistersCoherent, CanPtrace, DeathIsTold
<1>6. StepOverOK' /\ WantedOK'
  BY <1>1, <1>2 DEF StepOverOK, WantedOK, Enabled, SteppingOver, TakenOut
<1> QED
  BY <1>4, <1>5, <1>6 DEF IInv

LEMMA InitIInv ==
    ASSUME Init
    PROVE  IInv
<1> USE StatusTypes DEF Init
<1>1. TypeOK
  BY ProgAssumption, StartAssumption
  DEF TypeOK, CodeType, KernelType, DebuggerType, Site, Absent, Report, Modes
<1>2. SitesInMemory /\ SitesAllowed
  BY DEF SitesInMemory, SitesAllowed, Absent
<1>3. StatusOK /\ PromptOK /\ StepOK /\ StepOverOK /\ RegistersCoherent /\ DeathIsTold
  BY DEF StatusOK, PromptOK, AtPrompt, StepOK, StepOverOK, SteppingOver, RegistersCoherent,
         CanPtrace, DeathIsTold
<1>4. WantedOK
  BY DEF WantedOK, Enabled, TakenOut, SteppingOver, Absent
<1> QED
  BY <1>1, <1>2, <1>3, <1>4 DEF IInv

LEMMA NextKeepsIInv ==
    ASSUME IInv, [Next]_vars
    PROVE  IInv'
<1>1. CASE Kernel \/ handle_sigint
  BY <1>1, KernelKeepsIInv
<1>2. CASE Return \/ CallKilled
  BY <1>2, StepOverDoneKeepsIInv, WaitStoppedKeepsIInv, WaitUncaughtKeepsIInv, EndKeepsIInv
  DEF Return
<1>3. CASE Call
  BY <1>3, ResumeKeepsIInv, step_instructionKeepsIInv, SiteCallKeepsIInv, OtherCallKeepsIInv
  DEF Call
<1>4. CASE UNCHANGED vars
  BY <1>4
  DEF vars, IInv, TypeOK, CodeType, KernelType, DebuggerType, SitesInMemory, SitesAllowed,
      StatusOK, PromptOK, AtPrompt, StepOK, StepOverOK, WantedOK, Enabled, TakenOut,
      SteppingOver, RegistersCoherent, CanPtrace, DeathIsTold
<1> QED
  BY <1>1, <1>2, <1>3, <1>4 DEF Next

\* The inductive invariant holds in every reachable state.
THEOREM Invariance == Spec => []IInv
<1>1. Init => IInv
  BY InitIInv
<1>2. IInv /\ [Next]_vars => IInv'
  BY NextKeepsIInv
<1> QED
  BY <1>1, <1>2, PTL DEF Spec

(***************************************************************************)
(* The theorems.                                                           *)
(***************************************************************************)
\* process keeps its state, its wait statuses and its sites in the shapes of TypeOK.
THEOREM TypeCorrect == Spec => []TypeOK
<1>1. IInv => TypeOK
  BY DEF IInv
<1> QED
  BY <1>1, Invariance, PTL

\* Whatever the program, the sites and the interleaving, the tracee's code is the
\* executable's, but for one int3 at each enabled software site.
THEOREM CodeIsIntact == Spec => []SitesInMemory
<1>1. IInv => SitesInMemory
  BY DEF IInv
<1> QED
  BY <1>1, Invariance, PTL

\* No call returns with a site left out, be it by resume or by step_instruction.
THEOREM SitesComeBack == Spec => []EnabledAsWanted
<1>1. IInv => EnabledAsWanted
  BY NoneAssumption
  DEF IInv, WantedOK, PromptOK, Enabled, TakenOut, SteppingOver, EnabledAsWanted
<1> QED
  BY <1>1, Invariance, PTL

\* At the prompt the register cache is fresh.
THEOREM CacheIsFresh == Spec => []RegistersCoherent
<1>1. IInv => RegistersCoherent
  BY DEF IInv
<1> QED
  BY <1>1, Invariance, PTL

\* The tracee's end is told, or the call that met it threw.
THEOREM EndIsTold == Spec => []DeathIsTold
<1>1. IInv => DeathIsTold
  BY DEF IInv
<1> QED
  BY <1>1, Invariance, PTL
=============================================================================
