------------------------ MODULE HardwareStoppoints ------------------------
(***************************************************************************)
(* The debug registers, shared by the hardware breakpoint sites and the    *)
(* watchpoints of a process.  Each register exists twice: in the kernel,   *)
(* and in the cache of class registers, which every stop refreshes and     *)
(* every write goes through.  The address registers and the control        *)
(* register DR7 are written by separate ptrace requests, any of which may  *)
(* be refused.                                                             *)
(***************************************************************************)
EXTENDS Integers

CONSTANTS
    NumSlots,    \* the number of debug registers for addresses: 4 in the code
    Points,      \* the stoppoints the user may create
    Watches,     \* those of them that are watchpoints; the others are breakpoint sites
    AddressOf, ModeOf, SizeOf,
    Code,        \* where the pc may be
    Refused,     \* the addresses that the kernel refuses: its own
    None         \* no stoppoint, and the address 0

Slots == 0 .. NumSlots - 1
Modes == {"execute", "write", "read_write"}

ASSUME SlotsAssumption  == NumSlots \in 1 .. 4
ASSUME PointsAssumption ==
    /\ Watches \subseteq Points /\ None \notin Points
    /\ ModeOf \in [Points -> Modes]
    /\ SizeOf \in [Points -> Nat \ {0}]
    /\ \A p \in Points : AddressOf[p] # None
ASSUME CodeAssumption == None \notin Code \union Refused

\* set_hardware_breakpoint asks for an execution stoppoint of size 1.
ASSUME SitesAssumption ==
    \A p \in Points \ Watches : ModeOf[p] = "execute" /\ SizeOf[p] = 1

VARIABLES
    dr, dr7,          \* the debug registers of the tracee
    dr6,              \* the slots of a stop that the kernel tells as TRAP_HWBKPT
    cdr, cdr7,        \* the cached ones
    rf,               \* the tracee ignores execution stoppoints for one instruction
    pc,
    created,          \* breakpoint_sites_ and watchpoints_
    enabled,          \* the stoppoints with is_enabled_
    index,            \* their hardware_register_index_
    phase,            \* what the debugger does, or waits for
    out,              \* the site that resume or step_instruction has taken out
    told              \* the stoppoint that the last stop was attributed to

registers == <<dr, dr7, cdr, cdr7>>
points    == <<created, enabled, index>>
vars      == <<dr, dr7, dr6, cdr, cdr7, rf, pc, created, enabled, index, phase, out,
               told>>

(***************************************************************************)
(* The fields of the control register: one per slot.                       *)
(***************************************************************************)
Off == [on |-> FALSE, mode |-> "execute", size |-> 1]

On(p) == [on |-> TRUE, mode |-> ModeOf[p], size |-> SizeOf[p]]

\* The kernel refuses an execution stoppoint that is not of size 1, and the whole write.
KernelAccepts(control) ==
    \A s \in Slots : control[s].on /\ control[s].mode = "execute" => control[s].size = 1

\* encode_hardware_stoppoint_size throws for the other sizes.
Encodable(p) == SizeOf[p] \in {1, 2, 4, 8}

FreeSlots(control) == {s \in Slots : ~control[s].on}

\* The first slot, in use or not.
find_free_stoppoint_register_FIRST(control) == 0

find_free_stoppoint_register(control) ==
    CHOOSE s \in FreeSlots(control) : \A t \in FreeSlots(control) : s <= t

\* registers::write_by_id: the cache first, then the tracee, where the request may be refused.
write_dr(s, address) ==
    /\ cdr' = [cdr EXCEPT ![s] = address]
    /\ dr' = IF address \in Refused THEN dr ELSE [dr EXCEPT ![s] = address]

write_dr7(control) ==
    /\ cdr7' = control
    /\ dr7' = IF KernelAccepts(control) THEN control ELSE dr7

(***************************************************************************)
(* set_hardware_stoppoint and clear_hardware_stoppoint, with the enable()  *)
(* and disable() around them.  A write that throws leaves done what was    *)
(* done before it.                                                         *)
(***************************************************************************)
\* The error of the request for the address register is not looked at.
WritesControl_ANYWAY(p) == Encodable(p)

\* Whether set_hardware_stoppoint gets as far as DR7.
WritesControl(p) == AddressOf[p] \notin Refused /\ Encodable(p)

enable(p) ==
    IF p \in enabled \/ FreeSlots(cdr7) = {}
    THEN UNCHANGED <<registers, enabled, index>>
    ELSE LET free    == find_free_stoppoint_register(cdr7)
             control == [cdr7 EXCEPT ![free] = On(p)]
         IN  /\ write_dr(free, AddressOf[p])
             /\ IF WritesControl(p) THEN write_dr7(control) ELSE UNCHANGED <<cdr7, dr7>>
             /\ IF WritesControl(p) /\ KernelAccepts(control)
                THEN /\ enabled' = enabled \union {p}
                     /\ index' = [index EXCEPT ![p] = free]
                ELSE UNCHANGED <<enabled, index>>

\* The control register keeps the slot enabled.
disable_ADDRESS_ONLY(p) ==
    IF p \notin enabled THEN UNCHANGED <<registers, enabled, index>>
    ELSE /\ write_dr(index[p], None)
         /\ UNCHANGED <<cdr7, dr7>>
         /\ enabled' = enabled \ {p}
         /\ index' = [index EXCEPT ![p] = -1]

\* The slot that is cleared is written to hardware_register_index_ of a site only.
disable(p) ==
    IF p \notin enabled THEN UNCHANGED <<registers, enabled, index>>
    ELSE LET control == [cdr7 EXCEPT ![index[p]] = Off]
         IN  /\ write_dr(index[p], None)
             /\ write_dr7(control)
             /\ IF KernelAccepts(control)
                THEN /\ enabled' = enabled \ {p}
                     /\ index' = IF p \in Watches THEN index ELSE [index EXCEPT ![p] = -1]
                ELSE UNCHANGED <<enabled, index>>

\* Whether disable(p) throws.
DisableThrows(p) == p \in enabled /\ ~KernelAccepts([cdr7 EXCEPT ![index[p]] = Off])

(***************************************************************************)
(* The user's calls on stoppoints, at the prompt.                          *)
(***************************************************************************)
AtPrompt == phase = "prompt"

\* create_breakpoint_site or create_watchpoint: one of a kind at an address.
Create(p) ==
    /\ AtPrompt
    /\ ~\E q \in created : (q \in Watches <=> p \in Watches) /\ AddressOf[q] = AddressOf[p]
    /\ p \notin created
    /\ created' = created \union {p}
    /\ UNCHANGED <<registers, dr6, rf, pc, enabled, index, phase, out, told>>

Enable(p) ==
    /\ AtPrompt /\ p \in created
    /\ enable(p)
    /\ UNCHANGED <<dr6, rf, pc, created, phase, out, told>>

Disable(p) ==
    /\ AtPrompt /\ p \in created
    /\ disable(p)
    /\ UNCHANGED <<dr6, rf, pc, created, phase, out, told>>

\* remove_by_id erases the stoppoint without its disable().
Remove_FORGET(p) ==
    /\ AtPrompt /\ p \in created
    /\ created' = created \ {p}
    /\ UNCHANGED <<registers, dr6, rf, pc, enabled, index, phase, out, told>>

\* remove_by_id: a disable() that throws keeps the stoppoint.
Remove(p) ==
    /\ AtPrompt /\ p \in created
    /\ disable(p)
    /\ created' = IF DisableThrows(p) THEN created ELSE created \ {p}
    /\ UNCHANGED <<dr6, rf, pc, phase, out, told>>

(***************************************************************************)
(* resume and step_instruction.  Only a breakpoint site at the pc is taken *)
(* out; an execution watchpoint there is left to the resume flag.          *)
(***************************************************************************)
SitesAtPc == {p \in enabled \ Watches : AddressOf[p] = pc}

\* resume and step_instruction as far as their first waitpid.  With no hardware site at the
\* pc there may be a software one: Process.tla has those, here they only make a step-over.
Go(next_with, next_without) ==
    /\ AtPrompt
    /\ IF SitesAtPc = {}
       THEN phase' \in {next_with, next_without} /\ UNCHANGED <<registers, enabled, index, out>>
       ELSE \E p \in SitesAtPc :
              /\ disable(p)
              /\ IF DisableThrows(p) THEN UNCHANGED <<phase, out>>
                 ELSE phase' = next_with /\ out' = p
    /\ told' = None
    /\ UNCHANGED <<dr6, rf, pc, created>>

Resume == Go("step_over", "running")

step_instruction == Go("step", "step")

\* What follows the waitpid in resume: nobody looks at the registers.
StepOverDone ==
    /\ phase = "step_over_stopped"
    /\ IF out = None THEN UNCHANGED <<registers, enabled, index>> ELSE enable(out)
    /\ phase' = "running" /\ out' = None
    /\ UNCHANGED <<dr6, rf, pc, created, told>>

\* get_current_hardware_stoppoint: the lowest slot in DR6, and a breakpoint site with its
\* address, enabled or not, before a watchpoint.
Lowest(S) == CHOOSE s \in S : \A t \in S : s <= t

\* The first slot, hit or not.
get_current_hardware_stoppoint_FIRST == {p \in created : AddressOf[p] = dr[0]}

get_current_hardware_stoppoint ==
    LET at == {p \in created : AddressOf[p] = dr[Lowest(dr6)]}
    IN  IF at \ Watches # {} THEN at \ Watches ELSE at

\* wait_on_signal: the cache is refreshed; then step_instruction puts its site back.
WaitStopped ==
    /\ phase \in {"stopped", "step_stopped"}
    /\ cdr' = dr /\ cdr7' = dr7
    /\ IF dr6 # {} THEN \E p \in get_current_hardware_stoppoint : told' = p
       ELSE told' = None
    /\ phase' = IF out = None THEN "prompt" ELSE "reenable"
    /\ UNCHANGED <<dr, dr7, dr6, rf, pc, points, out>>

StepDone ==
    /\ phase = "reenable"
    /\ enable(out)
    /\ phase' = "prompt" /\ out' = None
    /\ UNCHANGED <<dr6, rf, pc, created, told>>

(***************************************************************************)
(* The tracee.                                                             *)
(***************************************************************************)
Runs == phase \in {"running", "step_over", "step"}

\* The phase after a stop of the tracee.
Stopped ==
    CASE phase = "running"   -> "stopped"
      [] phase = "step_over" -> "step_over_stopped"
      [] phase = "step"      -> "step_stopped"

Hit(address, modes) == {s \in Slots : dr7[s].on /\ dr7[s].mode \in modes /\ dr[s] = address}

\* An execution stoppoint traps before the instruction.  The kernel sets the resume flag,
\* and nothing in src/ relies on it.
ExecuteHit ==
    /\ Runs /\ ~rf /\ Hit(pc, {"execute"}) # {}
    /\ dr6' = Hit(pc, {"execute"})
    /\ rf' \in BOOLEAN
    /\ phase' = Stopped
    /\ UNCHANGED <<registers, pc, points, out, told>>

\* An instruction, which may access one location; a watchpoint traps after it.  The trap of
\* a single step is told as TRAP_TRACE, whatever else the instruction did.
Access(address, modes) ==
    /\ Runs /\ (rf \/ Hit(pc, {"execute"}) = {})
    /\ pc' \in Code
    /\ rf' = FALSE
    /\ dr6' = IF phase = "running" THEN Hit(address, modes) ELSE {}
    /\ phase' = IF dr6' = {} /\ phase = "running" THEN "running" ELSE Stopped
    /\ UNCHANGED <<registers, points, out, told>>

Instruction ==
    \/ Access(None, {})
    \/ \E p \in Watches :
          \/ Access(AddressOf[p], {"read_write"})             \* a read
          \/ Access(AddressOf[p], {"read_write", "write"})    \* a write

\* Anything else that stops a tracee: a signal, a software breakpoint, a system call.
OtherStop ==
    /\ Runs
    /\ dr6' = {}
    /\ phase' = Stopped
    /\ UNCHANGED <<registers, rf, pc, points, out, told>>

(***************************************************************************)
(* The specification.                                                      *)
(***************************************************************************)
Init ==
    /\ dr = [s \in Slots |-> None] /\ cdr = dr
    /\ dr7 = [s \in Slots |-> Off] /\ cdr7 = dr7
    /\ dr6 = {} /\ rf = FALSE /\ pc \in Code
    /\ created = {} /\ enabled = {} /\ index = [p \in Points |-> -1]
    /\ phase = "prompt" /\ out = None /\ told = None

Next ==
    \/ \E p \in Points : Create(p) \/ Enable(p) \/ Disable(p) \/ Remove(p)
    \/ Resume \/ StepOverDone \/ step_instruction \/ WaitStopped \/ StepDone
    \/ ExecuteHit \/ Instruction \/ OtherStop

Spec == Init /\ [][Next]_vars

(***************************************************************************)
(* Properties.                                                             *)
(***************************************************************************)
Control == [Slots -> [on : BOOLEAN, mode : Modes, size : Nat \ {0}]]

Phases == {"prompt", "running", "stopped", "step_over", "step_over_stopped",
           "step", "step_stopped", "reenable"}

\* The type of each variable, and what `out` says of the phase.
TypeOK ==
    /\ {dr, cdr} \subseteq [Slots -> {AddressOf[p] : p \in Points} \union {None}]
    /\ {dr7, cdr7} \subseteq Control
    /\ dr6 \subseteq Slots /\ rf \in BOOLEAN /\ pc \in Code
    /\ enabled \subseteq created /\ created \subseteq Points
    /\ index \in [Points -> Slots \union {-1}]
    /\ phase \in Phases
    /\ out \in (created \ Watches) \union {None}
    /\ out # None => phase \notin {"prompt", "running", "stopped"}
    /\ told \in Points \union {None}

Owns(p, s) == p \in enabled /\ index[p] = s

\* Every enabled stoppoint has one debug register, with its address, its mode and its size
\* in the tracee; no two stoppoints share one; and a register in use belongs to a stoppoint.
\* find_free_stoppoint_register allots the registers from the cached DR7, and a site that
\* resume takes out may come back in another register than it had.
SlotOwnership ==
    /\ \A p \in enabled :
          /\ index[p] \in Slots
          /\ dr[index[p]] = AddressOf[p]
          /\ dr7[index[p]] = On(p)
    /\ \A p, q \in enabled : index[p] = index[q] => p = q
    /\ \A s \in Slots : dr7[s].on => \E p \in enabled : Owns(p, s)

\* The DR7 from which the next enable() computes is the tracee's, also between resume's
\* step-over and the next stop.  An address may differ, when the kernel has refused it and
\* registers::write has cached it, but only in a register that is not in use: an enable() that
\* throws half way spoils no stoppoint in force, and puts none in force at a wrong address.
CacheCoherent ==
    /\ cdr7 = dr7
    /\ \A s \in Slots : cdr[s] # dr[s] => ~dr7[s].on /\ cdr[s] \in Refused

Undisturbed ==
    \A p \in enabled \intersect enabled' :
        /\ index'[p] = index[p]
        /\ dr'[index[p]] = dr[index[p]]
        /\ dr7'[index[p]] = dr7[index[p]]

\* No call on one stoppoint, and no resume or step, changes the register of another.
\* clear_hardware_stoppoint and set_hardware_stoppoint rewrite the whole of DR7.
NoInterference == [][Undisturbed]_vars

\* A stop is attributed to the address of a stoppoint that is enabled and was hit, and to this
\* one unless others were created there: get_current_hardware_stoppoint takes any of them.
Attribution ==
    [][WaitStopped /\ told' # None =>
          \E p \in enabled : index[p] \in dr6 /\ AddressOf[p] = AddressOf[told']]_vars

BackIn == (StepOverDone \/ StepDone) /\ out # None => out \in enabled'

\* The site that resume or step_instruction takes out comes back, also when every register
\* was in use: its enable() finds the one it left.
OutComesBack == [][BackIn]_vars

\* What the comment in set_hardware_breakpoint says: "size of execution stoppoint must be 1
\* on x64".  set_watchpoint writes any size, and keeps the refused DR7 in the cache.
ExecuteSizeIsOne == KernelAccepts(cdr7)

=============================================================================
