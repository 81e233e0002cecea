------------------------------ MODULE Process ------------------------------
(***************************************************************************)
(* sdb::process: one debugger thread that resumes, waits for and           *)
(* single-steps a traced program, and keeps breakpoint sites in its code.  *)
(*                                                                         *)
(* The module has two groups of actions.  Those of the kernel and of the   *)
(* program run whenever the program (the "tracee") runs, while the         *)
(* debugger is anywhere in its own code.  Those of the debugger are the    *)
(* calls of the library's user and, because resume, step_instruction and   *)
(* wait_on_signal block in waitpid, the part of a call that runs once      *)
(* waitpid has returned; `control` says in which waitpid the debugger is.  *)
(***************************************************************************)
EXTENDS Machine, FiniteSets

CONSTANTS
    SwAddrs,     \* where the user may create software breakpoint sites
    HwAddrs,     \* where the user may create hardware breakpoint sites
    JumpTo,      \* the arguments of the user's set_pc
    Policies,    \* the arguments of the user's set_syscall_catch_policy
    Gone         \* the abstract pc of a program that has ended

Modes == {"none", "some", "all"}

\* Four debug registers hold an address: with more hardware sites the fifth enable()
\* throws, which HardwareStoppoints.tla models.
ASSUME SwAssumption     == SwAddrs \subseteq Addr \ {Last}
ASSUME HwAssumption     == HwAddrs \subseteq Addr \ {Last} /\ Cardinality(HwAddrs) <= 4
ASSUME JumpAssumption   == JumpTo \subseteq Addr
ASSUME PolicyAssumption == Policies \subseteq [mode : Modes, to_catch : SUBSET Syscalls]
ASSUME GoneAssumption   == Gone \notin Addr

VARIABLES
    \* The kernel and the tracee
    mem,         \* the code as it is in the tracee's memory
    armed,       \* the addresses in its debug registers
    rf,          \* its resume flag: ignore the debug registers for one instruction
    pc,          \* its instruction pointer
    insys,       \* the system call it is in, or None
    pending,     \* signals sent to it and not delivered yet
    tracee,      \* "running", "stopped", "zombie" or "reaped"
    request,     \* the ptrace request that resumed it last
    wstat,       \* what waitpid would return
    \* The debugger
    sites,       \* breakpoint_sites_
    rip,         \* registers_, of which the pc
    state_,
    policy,      \* syscall_catch_policy_
    expecting,   \* expecting_syscall_exit_
    control,     \* the waitpid the debugger is blocked in, or "caller"
    reenable,    \* to_reenable of the step_instruction in progress, or None
    report,      \* what the last call gave its caller
    \* History
    told,        \* the pc the user last heard of, while nothing was executed since
    wanted       \* the addresses of the sites the user has enabled

kernel   == <<rf, pc, insys, pending, tracee, request, wstat>>
code     == <<sites, mem, armed>>
debugger == <<rip, state_, policy, expecting, control, reenable, report>>
vars     == <<mem, armed, rf, pc, insys, pending, tracee, request, wstat,
              sites, rip, state_, policy, expecting, control, reenable, report,
              told, wanted>>

(***************************************************************************)
(* Breakpoint sites.                                                       *)
(***************************************************************************)
Absent == [kind |-> "absent", enabled |-> FALSE, saved |-> None]

contains_address(a) == sites[a].kind # "absent"

enabled_stoppoint_at_address(a) == contains_address(a) /\ sites[a].enabled

create_breakpoint_site(a, kind) ==
    sites' = [sites EXCEPT ![a] = [kind |-> kind, enabled |-> FALSE, saved |-> None]]

\* Calling enable() twice saves the int3 of the first call.
enable_TWICE(a) ==
    /\ sites' = [sites EXCEPT ![a].enabled = TRUE, ![a].saved = mem[a]]
    /\ IF sites[a].kind = "hardware"
       THEN armed' = armed \union {a} /\ UNCHANGED mem
       ELSE mem' = [mem EXCEPT ![a] = "int3"] /\ UNCHANGED armed

\* breakpoint_site::enable: the byte it overwrites is saved.
enable(a) ==
    IF sites[a].enabled THEN UNCHANGED code
    ELSE IF sites[a].kind = "hardware"
    THEN /\ armed' = armed \union {a}
         /\ sites' = [sites EXCEPT ![a].enabled = TRUE]
         /\ UNCHANGED mem
    ELSE /\ mem' = [mem EXCEPT ![a] = "int3"]
         /\ sites' = [sites EXCEPT ![a].enabled = TRUE, ![a].saved = mem[a]]
         /\ UNCHANGED armed

\* disable() writes saved_data_ although the site is not enabled.
restore_ALWAYS(a) ==
    /\ mem' = IF sites[a].kind = "software" THEN [mem EXCEPT ![a] = sites[a].saved] ELSE mem
    /\ armed' = armed \ {a}

\* disable() leaves the int3 in place.
restore_NOTHING(a) == mem' = mem /\ armed' = armed \ {a}

\* What disable() writes to the tracee.
restore(a) ==
    /\ mem' = IF sites[a].enabled /\ sites[a].kind = "software"
              THEN [mem EXCEPT ![a] = sites[a].saved] ELSE mem
    /\ armed' = IF sites[a].enabled /\ sites[a].kind = "hardware"
                THEN armed \ {a} ELSE armed

\* breakpoint_site::disable: saved_data_ keeps its value.
disable(a) ==
    /\ restore(a)
    /\ sites' = [sites EXCEPT ![a].enabled = FALSE]

(***************************************************************************)
(* Wait statuses, and the kernel: what the tracee does when it runs.       *)
(***************************************************************************)
NoStatus   == [kind |-> "none", info |-> "none", code |-> "none", id |-> None]
Exited     == [NoStatus EXCEPT !.kind = "exited"]
Terminated == [NoStatus EXCEPT !.kind = "terminated"]

Signal(info, code_) == [kind |-> "stopped", info |-> info, code |-> code_, id |-> None]
SyscallStatus(id)   == [kind |-> "stopped", info |-> "SIGTRAP|0x80", code |-> "none", id |-> id]

Stop(status) == tracee' = "stopped" /\ wstat' = status

InUserMode == tracee = "running" /\ insys = None /\ pending = {}

\* An execution breakpoint traps before its instruction.  The kernel sets the resume
\* flag in the registers of the tracee, and nothing in src/ relies on it.
HardwareTrap ==
    /\ InUserMode /\ pc \in armed /\ ~rf
    /\ Stop(Signal("SIGTRAP", "TRAP_HWBKPT"))
    /\ rf' \in BOOLEAN
    /\ UNCHANGED <<code, pc, insys, pending, request, debugger, told, wanted>>

Fetch(instr) == InUserMode /\ (pc \in armed => rf) /\ mem[pc] = instr

Fault ==
    /\ Fetch("fault")
    /\ Stop(Signal("SIGSEGV", "none"))
    /\ UNCHANGED <<code, rf, pc, insys, pending, request, debugger, told, wanted>>

\* The site's int3, or one of the program's own.
Int3 ==
    /\ Fetch("int3")
    /\ pc' = pc + 1
    /\ rf' = FALSE
    /\ Stop(Signal("SIGTRAP", "SI_KERNEL"))
    /\ told' = IF enabled_stoppoint_at_address(pc) THEN told ELSE None
    /\ UNCHANGED <<code, insys, pending, request, debugger, wanted>>

Plain ==
    /\ Fetch("plain")
    /\ pc' \in Succ[pc]
    /\ rf' = FALSE
    /\ IF request = "PTRACE_SINGLESTEP" THEN Stop(Signal("SIGTRAP", "TRAP_TRACE"))
       ELSE UNCHANGED <<tracee, wstat>>
    /\ told' = None
    /\ UNCHANGED <<code, insys, pending, request, debugger, wanted>>

SyscallEntry ==
    /\ \E id \in Syscalls :
        /\ Fetch(id)
        /\ insys' = id
        /\ IF request = "PTRACE_SYSCALL" THEN Stop(SyscallStatus(id))
           ELSE UNCHANGED <<tracee, wstat>>
    /\ pc' = pc + 1
    /\ rf' = FALSE
    /\ told' = None
    /\ UNCHANGED <<code, pending, request, debugger, wanted>>

\* Signals are delivered on the way back to user mode, after the exit stop.
SyscallReturn ==
    /\ tracee = "running" /\ insys \notin {None, "exit"}
    /\ insys' = None
    /\ pending' = IF insys = "kill" THEN pending \union {"SIGTRAP"} ELSE pending
    /\ CASE request = "PTRACE_SYSCALL"    -> Stop(SyscallStatus(insys))
         [] request = "PTRACE_SINGLESTEP" -> Stop(Signal("SIGTRAP", "TRAP_BRKPT"))
         [] OTHER                         -> UNCHANGED <<tracee, wstat>>
    /\ UNCHANGED <<code, rf, pc, request, debugger, told, wanted>>

Die(status) ==
    /\ tracee' = "zombie" /\ wstat' = status
    /\ insys' = None /\ pending' = {}
    /\ UNCHANGED <<code, rf, pc, request, debugger, told, wanted>>

Exit == tracee = "running" /\ insys = "exit" /\ Die(Exited)

\* A SIGKILL from outside; it needs no leave of the debugger.
Kill == tracee \in {"running", "stopped"} /\ Die(Terminated)

\* A stopped tracee only takes the signal when it is resumed; the debugger suppresses
\* it, as it resumes with signal number 0.
Deliver ==
    /\ tracee = "running" /\ insys = None
    /\ \E sig \in pending :
        /\ pending' = pending \ {sig}
        /\ Stop(Signal(sig, "SI_USER"))
    /\ UNCHANGED <<code, rf, pc, insys, request, debugger, told, wanted>>

\* sdb.cpp, handle_sigint: Ctrl-C sends the tracee a SIGSTOP, whatever the debugger does.
handle_sigint ==
    /\ tracee \in {"running", "stopped"}
    /\ pending' = pending \union {"SIGSTOP"}
    /\ UNCHANGED <<code, rf, pc, insys, tracee, request, wstat, debugger, told, wanted>>

(***************************************************************************)
(* The debugger.  An operator whose name ends in a word in capitals is a   *)
(* variant of the one that follows it, with the mistake that the word      *)
(* names; no action of the specification uses it.                          *)
(***************************************************************************)
write_rip_CACHE_ONLY(a) == rip' = a /\ UNCHANGED pc

\* registers::write_by_id of rip: the cache, then the tracee.
write_rip(a) == rip' = a /\ pc' = a

continue_request == IF policy.mode = "none" THEN "PTRACE_CONT" ELSE "PTRACE_SYSCALL"

Report(reason, trap) == [reason |-> reason, trap |-> trap]
Error == Report("error", "none")

ptrace(req) == tracee' = "running" /\ request' = req /\ wstat' = NoStatus

\* process::resume, as far as its first waitpid or its end: it is called with `at` in
\* the cached pc, by the library's user or by wait_on_signal (`from`).
resume(at, from) ==
    IF enabled_stoppoint_at_address(at)
    THEN /\ disable(at)
         /\ ptrace("PTRACE_SINGLESTEP")
         /\ state_' = "stopped"
         /\ control' = IF from = "wait" THEN "wait_step_over" ELSE "step_over"
    ELSE /\ ptrace(continue_request)
         /\ state_' = "running"
         /\ control' = from
         /\ UNCHANGED code

AtPrompt == control = "caller" /\ state_ # "running"

\* ptrace only serves a tracee that is stopped; otherwise each of these calls throws.
CanPtrace == AtPrompt /\ tracee = "stopped"

Resume ==
    /\ CanPtrace
    /\ resume(rip, "caller")
    /\ UNCHANGED <<rf, pc, insys, pending,
                   rip, policy, expecting, reenable, report, told, wanted>>

\* resume forgets to enable the site again.
StepOverDone_FORGET ==
    /\ control \in {"step_over", "wait_step_over"}
    /\ wstat.kind = "stopped"
    /\ ptrace(continue_request)
    /\ state_' = "running"
    /\ control' = IF control = "step_over" THEN "caller" ELSE "wait"
    /\ UNCHANGED <<code, rf, pc, insys, pending,
                   rip, policy, expecting, reenable, report, told, wanted>>

\* The rest of resume: its waitpid reads the status and nobody looks at it.
StepOverDone ==
    /\ control \in {"step_over", "wait_step_over"}
    /\ wstat.kind = "stopped"
    /\ enable(rip)
    /\ ptrace(continue_request)
    /\ state_' = "running"
    /\ control' = IF control = "step_over" THEN "caller" ELSE "wait"
    /\ UNCHANGED <<rf, pc, insys, pending,
                   rip, policy, expecting, reenable, report, told, wanted>>

\* enable() does not notice that it failed.
StepOverDead_SILENT ==
    /\ control \in {"step_over", "wait_step_over"}
    /\ tracee = "zombie"
    /\ tracee' = "reaped" /\ wstat' = NoStatus
    /\ control' = "caller" /\ reenable' = None
    /\ UNCHANGED <<code, rf, pc, insys, pending, request,
                   rip, state_, policy, expecting, report, told, wanted>>

\* ... unless the tracee has ended: enable() throws, through every caller.
StepOverDead ==
    /\ control \in {"step_over", "wait_step_over"}
    /\ tracee = "zombie"
    /\ tracee' = "reaped" /\ wstat' = NoStatus
    /\ control' = "caller" /\ reenable' = None /\ report' = Error
    /\ UNCHANGED <<code, rf, pc, insys, pending, request,
                   rip, state_, policy, expecting, told, wanted>>

step_instruction ==
    /\ CanPtrace
    /\ ptrace("PTRACE_SINGLESTEP")
    /\ control' = "wait"
    /\ IF enabled_stoppoint_at_address(rip)
       THEN disable(rip) /\ reenable' = rip
       ELSE UNCHANGED <<code, reenable>>
    /\ UNCHANGED <<rf, pc, insys, pending,
                   rip, state_, policy, expecting, report, told, wanted>>

\* step_instruction forgets to enable the site again.
FinishStep_FORGET == reenable' = None /\ control' = "caller" /\ UNCHANGED code

\* The end of step_instruction, which is nothing when wait_on_signal has another caller.
FinishStep ==
    /\ IF reenable = None THEN UNCHANGED code ELSE enable(reenable)
    /\ reenable' = None
    /\ control' = "caller"

\* The user calls wait_on_signal after resume.
CallWait ==
    /\ control = "caller" /\ state_ = "running"
    /\ control' = "wait"
    /\ UNCHANGED <<code, kernel, rip, state_, policy, expecting, reenable, report,
                   told, wanted>>

trap_reason(status) ==
    CASE status.info = "SIGTRAP|0x80" -> IF expecting THEN "syscall_exit" ELSE "syscall_entry"
      [] status.code = "TRAP_TRACE"   -> "single_step"
      [] status.code = "SI_KERNEL"    -> "software_break"
      [] status.code = "TRAP_HWBKPT"  -> "hardware_break"
      [] OTHER                        -> "unknown"

\* The flag is toggled, and never reset at the other stops.
augment_stop_reason_TOGGLE(status) ==
    expecting' = IF status.info = "SIGTRAP|0x80" THEN ~expecting ELSE expecting

\* augment_stop_reason's effect on the process.
augment_stop_reason(status) ==
    expecting' = (status.info = "SIGTRAP|0x80" /\ ~expecting)

\* Goes back to any site, disabled ones included.
instr_begin_DISABLED(status) ==
    IF trap_reason(status) = "software_break" /\ pc > 0 /\ contains_address(pc - 1)
    THEN pc - 1 ELSE pc

\* The pc as wait_on_signal leaves it: back on the breakpoint the tracee has hit.
instr_begin(status) ==
    IF trap_reason(status) = "software_break" /\ pc > 0 /\ enabled_stoppoint_at_address(pc - 1)
    THEN pc - 1 ELSE pc

Uncaught(status) ==
    /\ status.info = "SIGTRAP|0x80"
    /\ policy.mode = "some" /\ status.id \notin policy.to_catch

\* wait_on_signal, for a tracee that has stopped and whose stop it returns.
WaitStopped ==
    /\ control = "wait" /\ wstat.kind = "stopped" /\ ~Uncaught(wstat)
    /\ augment_stop_reason(wstat)
    /\ write_rip(instr_begin(wstat)) /\ told' = rip'
    /\ wstat' = NoStatus /\ state_' = "stopped"
    /\ report' = Report("stopped", trap_reason(wstat))
    /\ FinishStep
    /\ UNCHANGED <<rf, insys, pending, tracee, request, policy, wanted>>

\* maybe_resume_from_syscall: a system call that is not to be caught; resume, and wait again.
WaitUncaught ==
    /\ control = "wait" /\ wstat.kind = "stopped" /\ Uncaught(wstat)
    /\ augment_stop_reason(wstat)
    /\ rip' = pc
    /\ resume(pc, "wait")
    /\ UNCHANGED <<rf, pc, insys, pending, policy, reenable, report, told, wanted>>

\* A tracee that has ended; if this is a step with a breakpoint to restore, enable() throws.
WaitDead ==
    /\ control = "wait" /\ tracee = "zombie"
    /\ tracee' = "reaped" /\ wstat' = NoStatus
    /\ state_' = wstat.kind
    /\ report' = IF reenable = None THEN Report(wstat.kind, "none") ELSE Error
    /\ control' = "caller" /\ reenable' = None
    /\ UNCHANGED <<code, rf, pc, insys, pending, request, rip, policy, expecting,
                   told, wanted>>

\* A SIGKILL between a successful waitpid and the next ptrace request of the call, which
\* throws: the status has been consumed, and that of the SIGKILL is never read.
CallKilled ==
    /\ control # "caller" /\ wstat.kind = "stopped"
    /\ tracee' = "zombie" /\ wstat' = Terminated /\ insys' = None /\ pending' = {}
    /\ state_' = "stopped"
    /\ report' = Error /\ control' = "caller" /\ reenable' = None
    /\ UNCHANGED <<code, rf, pc, request, rip, policy, expecting, told, wanted>>

\* Any call that needs ptrace, for a tracee that has ended: the first request throws.
CallThrows ==
    /\ AtPrompt /\ tracee \in {"zombie", "reaped"}
    /\ report' = Error
    /\ UNCHANGED <<code, kernel, rip, state_, policy, expecting, control, reenable,
                   told, wanted>>

CreateSite(a, kind) ==
    /\ AtPrompt
    /\ IF kind = "software" THEN a \in SwAddrs ELSE a \in HwAddrs
    /\ ~contains_address(a)
    /\ create_breakpoint_site(a, kind)
    /\ UNCHANGED <<mem, armed, kernel, debugger, told, wanted>>

EnableSite(a) ==
    /\ CanPtrace /\ contains_address(a)
    /\ enable(a)
    /\ wanted' = wanted \union {a}
    /\ UNCHANGED <<kernel, debugger, told>>

DisableSite(a) ==
    /\ CanPtrace /\ contains_address(a)
    /\ disable(a)
    /\ wanted' = wanted \ {a}
    /\ UNCHANGED <<kernel, debugger, told>>

\* stoppoint_collection::remove_by_address, and remove_by_id of an id that exists: the
\* site is disabled and goes.
RemoveSite(a) ==
    /\ CanPtrace /\ contains_address(a)
    /\ restore(a)
    /\ sites' = [sites EXCEPT ![a] = Absent]
    /\ wanted' = wanted \ {a}
    /\ UNCHANGED <<kernel, debugger, told>>

set_pc(a) ==
    /\ CanPtrace
    /\ write_rip(a) /\ told' = a
    /\ UNCHANGED <<code, rf, insys, pending, tracee, request, wstat,
                   state_, policy, expecting, control, reenable, report, wanted>>

\* The one call that needs no ptrace: it can also come between resume and wait_on_signal.
set_syscall_catch_policy(p) ==
    /\ control = "caller"
    /\ policy' = p
    /\ UNCHANGED <<code, kernel, rip, state_, expecting, control, reenable, report,
                   told, wanted>>

(***************************************************************************)
(* The specification.  It starts where process::launch returns: the exec   *)
(* has stopped the tracee at its first instruction and this has been       *)
(* waited for.                                                             *)
(***************************************************************************)
Init ==
    /\ mem = Prog /\ armed = {} /\ rf = FALSE
    /\ pc = Start /\ insys = None /\ pending = {}
    /\ tracee = "stopped" /\ request = "PTRACE_CONT" /\ wstat = NoStatus
    /\ sites = [a \in Addr |-> Absent]
    /\ rip = Start /\ state_ = "stopped"
    /\ policy = [mode |-> "none", to_catch |-> {}]
    /\ expecting = FALSE /\ control = "caller" /\ reenable = None
    /\ report = Report("stopped", "unknown")
    /\ told = Start /\ wanted = {}

Execute == HardwareTrap \/ Fault \/ Int3 \/ Plain \/ SyscallEntry

Kernel == Execute \/ SyscallReturn \/ Exit \/ Kill \/ Deliver

Return == StepOverDone \/ StepOverDead \/ WaitStopped \/ WaitUncaught \/ WaitDead

SiteCall ==
    \E a \in Addr :
        \/ \E kind \in {"software", "hardware"} : CreateSite(a, kind)
        \/ EnableSite(a)
        \/ DisableSite(a)
        \/ RemoveSite(a)

Call ==
    \/ Resume \/ step_instruction \/ CallWait \/ CallThrows
    \/ SiteCall
    \/ \E a \in JumpTo : set_pc(a)
    \/ \E p \in Policies : set_syscall_catch_policy(p)

Next == Kernel \/ handle_sigint \/ Return \/ CallKilled \/ Call

Spec == Init /\ [][Next]_vars

\* The scheduler runs the tracee and the debugger, the kernel delivers signals and ends
\* the system calls that a signal interrupts; a system call without one may block.  After
\* resume, handle_command's "continue" calls wait_on_signal.
Fairness ==
    /\ WF_vars(Execute) /\ WF_vars(Deliver) /\ WF_vars(Exit)
    /\ WF_vars(SyscallReturn /\ pending # {})
    /\ WF_vars(Return) /\ WF_vars(CallWait)

FairSpec == Spec /\ Fairness

(***************************************************************************)
(* Types.                                                                  *)
(***************************************************************************)
Status ==
    [kind : {"none", "stopped", "exited", "terminated"},
     info : {"none", "SIGTRAP", "SIGTRAP|0x80", "SIGSTOP", "SIGSEGV"},
     code : {"none", "SI_USER", "SI_KERNEL", "TRAP_TRACE", "TRAP_BRKPT", "TRAP_HWBKPT"},
     id   : Syscalls \union {None}]

Site == [kind : {"absent", "software", "hardware"}, enabled : BOOLEAN,
         saved : Instr \union {None}]

CodeType ==
    /\ mem \in [Addr -> Instr]
    /\ armed \subseteq Addr
    /\ sites \in [Addr -> Site]

KernelType ==
    /\ rf \in BOOLEAN /\ pc \in Addr
    /\ insys \in Syscalls \union {None}
    /\ pending \subseteq {"SIGTRAP", "SIGSTOP"}
    /\ tracee \in {"running", "stopped", "zombie", "reaped"}
    /\ request \in {"PTRACE_CONT", "PTRACE_SYSCALL", "PTRACE_SINGLESTEP"}
    /\ wstat \in Status

DebuggerType ==
    /\ rip \in Addr
    /\ state_ \in {"stopped", "running", "exited", "terminated"}
    /\ policy \in [mode : Modes, to_catch : SUBSET Syscalls]
    /\ expecting \in BOOLEAN
    /\ control \in {"caller", "wait", "step_over", "wait_step_over"}
    /\ reenable \in Addr \union {None}
    /\ report \in [reason : {"stopped", "exited", "terminated", "error"},
                   trap : {"none", "unknown", "single_step", "software_break",
                           "hardware_break", "syscall_entry", "syscall_exit"}]

\* process keeps a state, a wait status and its sites in the shapes the code can give them;
\* the pc stays in the program, and a byte to restore is a byte of the program.
TypeOK ==
    /\ CodeType /\ KernelType /\ DebuggerType
    /\ told \in Addr \union {None} /\ wanted \subseteq Addr

(***************************************************************************)
(* Safety.                                                                 *)
(***************************************************************************)
\* At any moment, and in particular while the tracee runs and while resume or
\* step_instruction has taken a site out, the tracee's code differs from the executable
\* exactly at the enabled software sites, each of which holds the byte it replaced; and
\* its debug registers hold exactly the enabled hardware sites.
SitesInMemory ==
    \A a \in Addr :
        /\ (a \in armed) = (sites[a].enabled /\ sites[a].kind = "hardware")
        /\ IF sites[a].enabled /\ sites[a].kind = "software"
           THEN mem[a] = "int3" /\ sites[a].saved = Prog[a]
           ELSE mem[a] = Prog[a]

\* When a call has returned and the tracee has not been resumed, the pc that the user
\* reads from the register cache, and that resume and step_instruction use to look for a
\* breakpoint, is the tracee's.
RegistersCoherent == CanPtrace => rip = pc

\* The single-steps over a breakpoint in resume and step_instruction put it back: when no
\* call is in progress, the sites in force are those the user enabled.
EnabledAsWanted ==
    control = "caller" /\ tracee \in {"running", "stopped"} =>
        {a \in Addr : sites[a].enabled} = wanted

\* expecting_syscall_exit_, which augment_stop_reason toggles at each system call stop it
\* sees, does not get out of step with the kernel: resume's own waitpid may swallow an exit
\* stop, and yet at each stop the flag is set exactly when the tracee is in a system call.
SyscallPhase == CanPtrace => (expecting <=> insys # None)

\* The process is declared dead only when it has been reaped, and a call that reaps it
\* either says so or throws.
DeathIsTold ==
    /\ state_ \in {"exited", "terminated"} => tracee = "reaped"
    /\ tracee = "reaped" => state_ \in {"exited", "terminated"} \/ report = Error

\* The tracee has executed the instruction at pc.
Retire == Plain \/ SyscallEntry \/ (Int3 /\ ~enabled_stoppoint_at_address(pc))

\* The instruction under a breakpoint that the user has enabled is never executed unless
\* the user has been told that the tracee is stopped there (or has moved its pc there)
\* since the tracee last executed an instruction.
NoMissedBreakpoint == [][Retire /\ pc \in wanted => told = pc]_vars

\* A stop reported as a software breakpoint is at a site in force, or just after an int3 of
\* the program's own.
BreakpointIsReal ==
    [][WaitStopped /\ report'.trap = "software_break" =>
          enabled_stoppoint_at_address(rip') \/ (rip' > 0 /\ Prog[rip' - 1] = "int3")]_vars

\* A tracee that was stopped at the entry of a system call and is continued under
\* PTRACE_SYSCALL next stops, for the user, at the exit of this call.
HaltsTwicePerSyscall ==
    [][WaitStopped /\ report.trap = "syscall_entry" /\ request = "PTRACE_SYSCALL" =>
          report'.trap = "syscall_exit"]_vars

(***************************************************************************)
(* Transparency: the program under the debugger is the program.  While the *)
(* stop at a breakpoint has not been handled the pc is one too far.        *)
(***************************************************************************)
AtTrap ==
    /\ wstat.code = "SI_KERNEL" /\ pc > 0
    /\ sites[pc - 1].enabled /\ sites[pc - 1].kind = "software"

ProgramPc ==
    IF tracee \in {"zombie", "reaped"} THEN Gone ELSE IF AtTrap THEN pc - 1 ELSE pc

P == INSTANCE Program WITH ppc <- ProgramPc, psys <- insys

\* With breakpoints set, hit, stepped over, disabled and removed, with system calls traced
\* and signals suppressed, the program executes its own instructions in its own order,
\* none of them twice and none left out.
Transparency == P!Spec

(***************************************************************************)
(* Liveness.                                                               *)
(***************************************************************************)
\* A Ctrl-C while the tracee runs brings the user back to the prompt, although resume's own
\* waitpid throws away the stop it reads, and auto-resumed system calls never return.
InterruptStops == (~AtPrompt /\ "SIGSTOP" \in pending) ~> AtPrompt
=============================================================================
