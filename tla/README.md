# sdb, modelled and proved

sdb is a debugger for x64 Linux: a library, `libsdb`, and a command line, `tools/sdb.cpp`. It
controls one process, the *tracee*, through `ptrace` and `waitpid`. Both ends of that interface
move by themselves: the tracee runs, is sent signals, enters system calls, ends or is killed
while the debugger is anywhere in its own code. This directory holds TLA+ models of the parts of
the library where that matters, model-checking runs for them, and theorems about them.

Paths below are those of the repository, without the leading `src/`: `src/process.cpp`,
`include/libsdb/process.hpp`, `tools/sdb.cpp`.

## 1. The system

| part | state it keeps | operations | talks to |
|---|---|---|---|
| process control, `process.cpp` | `state_`, `syscall_catch_policy_`, `expecting_syscall_exit_` | `resume`, `wait_on_signal`, `step_instruction`, `set_syscall_catch_policy` | kernel (ptrace, waitpid), breakpoint sites, registers |
| breakpoint sites, `breakpoint_site.cpp` | `is_enabled_`, `saved_data_`, `hardware_register_index_` of each site | `enable`, `disable`, creation, removal | tracee's memory (PEEKDATA/POKEDATA), debug registers |
| watchpoints and debug registers, `watchpoint.cpp`, `process.cpp` | the same, `previous_data_`; DR0-DR3, DR6, DR7 of the tracee | `set_hardware_stoppoint`, `clear_hardware_stoppoint`, `get_current_hardware_stoppoint` | registers |
| stoppoint collection, `stoppoint_collection.hpp` | the vector of stoppoints | `push`, look-up by id and address, `get_in_region`, removal | |
| registers, `registers.cpp` | the cached `user` area | `read`, `write`, refresh at every stop | kernel (GETREGS, POKEUSER) |
| memory, `process.cpp` | none | `read_memory`, `read_memory_without_traps`, `write_memory` | kernel (process_vm_readv, POKEDATA), sites |
| launch, attach, detach, `process.cpp`, `pipe.cpp` | `pid_`, `terminate_on_end_`, `is_attached_` | `launch`, `attach`, `~process` | fork, a close-on-exec pipe, signals |
| ELF, `elf.cpp`, `types.cpp` | headers, symbol table, maps, load bias | constructor, `notify_loaded`, look-ups | |
| target, `target.cpp` | a process and an ELF file | `launch`, `attach` | both, and the auxiliary vector |
| text parsing, `parse.hpp` | none | `to_integral`, `to_float`, `parse_vector` | the command line |
| command line, `tools/sdb.cpp` | `g_sdb_process`, history; through it both collections of stoppoints | one command per line; SIGINT handler | all of the above |
| value types, system call names, disassembler | none | conversions and tables | |

What is hard, and what makes each part correct:

* **Process control.** `resume` steps over a breakpoint at the pc with a `waitpid` of its own and does
  not look at what that returned. Signals, system call stops, watchpoint hits and the end of the tracee
  may all be that stop. `wait_on_signal` resumes by itself after an uncaught system call, and so may
  step over a breakpoint nobody has heard of. Correct means: no breakpoint is missed, none is invented,
  the sites in force are those the user asked for, the phase of system calls is not lost, the end is
  told, and the program executes what it would have executed.
* **Sites.** An int3 lives in the tracee's code and the byte it replaced in the debugger. Any order of
  enable, disable, step-over and removal must leave the code right.
* **Debug registers.** Four of them are shared by two kinds of stoppoints. They are allotted from a
  cache, and written by several requests each of which may be refused.
* **Memory.** Words are written and bytes are meant; two kernel interfaces with different ideas of
  protection meet.
* **Launch and detach.** A failed exec and a running program are told apart by a pipe; the child may be
  killed anywhere; a destructor that looks at no result must leave no zombie and no stopped program.
* **ELF.** A look-up inspects two entries of an ordered map; symbols may be equal, empty or nested. The
  table of symbols and that of strings are chosen apart from each other, from a number of headers that
  has lost its upper bits.
* **Registers.** They overlap. A write goes to a copy first, and then hands the kernel, which may refuse
  it, more than the register.
* **Text parsing.** A conversion compares where it stopped with the end of the text, and nothing else.
* **Command line.** A command creates a point, which takes an id, and enables it; each of the two may
  throw. Ids outlive their points. What is listed must be what is in force, and a stop must be told with
  the right point.

PROJECT.json lists the hazards of this code line by line, with the properties that would notice.

## 2. Modules

| module | models | checked by |
|---|---|---|
| `Machine` | the traced program: its code and where it may go | (constants) |
| `Program` | *abstract*: what the program does when nobody debugs it | refined by `Process` |
| `Process` | process control, sites of both kinds, the kernel around them | `MCProcess`, three cfgs |
| `HardwareStoppoints` | debug registers, watchpoints, hardware sites, the cached debug registers | `MCHardwareStoppoints`, two cfgs |
| `Memory` | reading and writing memory with traps in it | `MCMemory`, two cfgs |
| `Launch` | launch and its child, the pipe, attach, `~process` | `MCLaunch` |
| `Elf` | section headers, symbols and their names, look-ups, load bias | `MCElf` |
| `Parse` | texts to numbers and bytes, character by character | through `MCRegisters` and `MCSession` |
| `Registers` | the register area, its copy, reads and writes | `MCRegisters`, two cfgs |
| `Session` | the commands, both collections of stoppoints, ids, the naming of stops | `MCSession` |
| `ProcessProofs`, `ProcessRefinement`, `HardwareStoppointsProofs`, `MemoryProofs`, `LaunchProofs`, `ElfProofs`, `RegistersProofs`, `SessionProofs` | theorems | tlapm |

The components are composed where they interact: `Process` contains sites, the part of the registers
they need and the kernel; `HardwareStoppoints` repeats `resume` and `step_instruction` as far as they
touch debug registers (`Go`, `StepOverDone`, `StepDone`) because those take a site out while other
stoppoints compete for its register. `Launch` ends where `Process` begins (`phase = "user"`) and begins
again where it ends. `Session` has the stoppoints of both modules under the commands, and takes from
them what a stop may be; `Registers` and `Session` get what the user types from `Parse`.

Operators whose names end in `_SOMETHING` in capitals are what the code would be with one bug. No
specification uses them; they show that a property can fail.

### Process

A call that blocks is two actions: up to `waitpid`, and after it. `control` says which `waitpid` the
debugger is in: `"step_over"` is that of `resume`, `"wait"` that of `wait_on_signal`,
`"wait_step_over"` that of the `resume` inside `wait_on_signal`. Between the two the kernel's
actions run.

| model | code |
|---|---|
| `resume`, `Resume`, `StepOverDone`, `StepOverDead` | `process::resume`; the last is the program's end in the step-over, where `bp.enable()` throws |
| `step_instruction`, `FinishStep` | `process::step_instruction` |
| `CallWait`, `WaitStopped`, `WaitDead` | `wait_on_signal`: refresh, `augment_stop_reason`, rewind |
| `WaitUncaught` | `maybe_resume_from_syscall`, which resumes and waits again |
| `trap_reason`, `augment_stop_reason`, `instr_begin` | the classification of a stop and the move of the pc back over an int3 |
| `CallThrows`, `CallKilled` | a call that throws at its first request, and one that finds the tracee killed after `waitpid` |
| `CreateSite` ... `RemoveSite`, `set_pc`, `set_syscall_catch_policy` | the commands |
| `handle_sigint` | Ctrl-C, at any moment |
| `HardwareTrap`, `Fault`, `Int3`, `Plain`, `SyscallEntry`, `SyscallReturn`, `Exit`, `Kill`, `Deliver` | the processor and the kernel (external) |

Abstractions. One instruction occupies one address: the code under `src/` relies on the length of one
instruction only, that of int3, which is 1. Registers other than the pc, the printed reasons and the ids
of sites are left out. The processor's resume flag `rf`, which lets an instruction with a hardware
breakpoint execute once, is set or not as the kernel likes at a hardware trap. The user calls site
commands, `resume` and `step` while the program is stopped, which is when the command line reads a
command; the policy may change at any time.

### HardwareStoppoints

Every register exists twice, in the kernel (`dr`, `dr7`) and in the cache (`cdr`, `cdr7`). The three
fields of a slot in DR7 are a record, so the bit masks of `set_hardware_stoppoint` and
`clear_hardware_stoppoint` are modelled by what they change. `KernelAccepts` is the kernel's refusal
of an execution stoppoint of more than one byte; `DisableThrows` is what that does to `disable`.
`Refused` are the addresses that it puts in no debug register, its own. A write changes the cache first
(`registers::write`), so that an address which is refused, or one whose size cannot be encoded, stays
behind in the cache or in a free register; `WritesControl` says whether an `enable()` gets any further.

### Memory

`Word` and `Page` are constants (8 and 4096 in the code). `read_memory` returns zeros for what a
short `process_vm_readv` has not transferred, as the code does; `write_memory` is the whole loop:
`Poked` are the chunks that are handed to POKEDATA, the last of them perhaps one that fails, and `Stored`
is where they end up: of a word that reaches into a page which is not mapped the kernel stores the part
before it, and then fails. `prog` is the memory the user and the program
mean, without traps, and `spoiled` are the sites whose int3 the user has overwritten; both are
history.

### Launch

`step` is the child's place in `launch`, `phase` the debugger's. `writers` and `message` are the
pipe. `Stray` sends the inferior signals of others, and `Kill` kills it anywhere. A signal between
`PTRACE_TRACEME` and exec is assumed away: see the comment at `Stray`.

### Elf

A `file` is its `e_shnum` and its section headers, each with what its section holds. `open` is the
constructor up to the loop: `n_headers` is cut to the bits of a half word (`Half`), and
`parse_symbol_table` prefers `.symtab`. `build_symbol_maps` is one turn of the loop. An optional is a
set of at most one element. `symbol_name_map_` is not kept as a variable: its entries are those of the
symbols the loop has come by. The key of a demangled name has been freed, so `get_symbols_by_name` is
the set of results that a look-up may have.

### Parse

A text is a sequence of characters. `to_integral` and both `parse_vector` return the set of the values
that may come out: where `from_chars` finds no digit, or a number that does not fit, the result is the
uninitialized variable, one of `Leftovers`. `from_chars` is the standard library's, digit by digit from
the left, as a recursive function, so that proofs may use it. `Denotes` and `DenotesBytes` are what the
texts mean, defined from the end of the text (`Positional`: each digit times its weight) and without the
code's way of reading.

### Registers

The user area is a function of offsets to bytes, twice: the tracee's `user` and the copy `data`. `write`
is the whole of `registers::write`: widening, the copy, then the aligned word or the floating point
block that the kernel is handed and may refuse. `last` remembers what the last write was meant to leave
in its register.

### Session

One command is one action, with everything it calls. A point is a record with its id, its state and, for
a watchpoint, `data_` and `previous_data_`; the counters of ids are never set back. `traps` and `slots`
are what the points have put into the tracee.

`continue` and `step` are several actions: `Go` up to the first step of the program, `StepOver` for each
site taken out and put back on the way, which for one in hardware may be in another register, and
`Stops`, the stop and its naming, or `Ends`. Why the program stops is any reason that `traps`, `slots` and
the policy allow, Process being where the reasons are narrowed; an int3 of the program's own may be
executed under an enabled site, as `step` does. `phase` is `"gone"` when the tracee has ended and
`"crashed"` when the debugger has: the commands that end it (`DeleteNothing`, a word that is no number
after `catchpoint syscall` or `memory write`) are there.

`memory write` writes word after word and breaks off at the first that is not mapped, with those before
it written (`Stored`). It is a write of data: a range that reaches into the code is left to `Memory`,
because one over a trap replaces the int3 of a site that stays listed (a hazard that no property covers:
nothing in the repository says what should happen). The address register that an `enable()` leaves behind
when the size cannot be encoded, or is refused, is not in force and is left to `HardwareStoppoints`.

## 3. Runs

| run | what it shows | distinct states |
|---|---|---|
| process_safety | `TypeOK`, `SitesInMemory`, `RegistersCoherent`, `EnabledAsWanted`, `SyscallPhase`, `DeathIsTold`, `NoMissedBreakpoint`, `BreakpointIsReal`, `Transparency` | 945,684 |
| process_live | `InterruptStops`, software sites | 61,000 |
| hardware_slots | `TypeOK`, `SlotOwnership`, `CacheCoherent`, `NoInterference`, `Attribution`, `OutComesBack` | 832,336 |
| memory_writes | `TypeOK`, `TrapsStay`, `TrapsAreHidden` | 23,104 |
| launch | `TypeOK`, `LaunchIsExec`, `FailureIsTold`, `NothingIsLeft`, `LaunchReturns`, `DestroyReturns` | 854 |
| elf_lookup | `TypeOK`, `LookupIsExact`, `PcIsTranslated`, `NamedAsInFile` | 23,444 |
| registers | `TypeOK`, `Coherent`, `WrittenAsMeant`, `WriteIsLocal` | 446,800 |
| session | `TypeOK`, `ListedIsInForce`, `OneOfEach`, `IdsAreForever`, `FailureIsContained`, `StopIsNamed`, `OldAndNew` | 432,108 |

`InterruptStops` is checked with software sites only. With a hardware site at the pc the SIGSTOP of
Ctrl-C may be the very stop that the step-over of `resume` throws away, and the program runs on: the
property does not hold there, and nothing in the repository promises it.

Bounds, and why they are enough.

* *Process*: four code addresses and the end. A loop with a branch, a system call that raises a signal
  or blocks, an int3 of the program's own, exit, and running into unmapped memory are all there; sites
  of both kinds are at neighbouring addresses, on the system call, just after it, on the own int3 and on
  the exit. The four policies cover none, all, and `some` with and without the call that is made. The
  hazards need at most two sites and one system call.
* *Hardware stoppoints*: two slots and six stoppoints, so that the registers run out; three sites, one of
  them at an address that the kernel refuses, and three watchpoints, two of them at the address of a
  site, one of a size that cannot be encoded.
* *Memory*: words of two bytes, pages of three, two pages, ranges up to three bytes, so that words cross
  a page and the end of the mapping, and a write has a full word and a partial one.
* *Launch*: finite as it stands; two other signals, so that one may be pending when another is read.
* *Elf*: tables of up to three symbols with starts 0, 1, 2, 4 and sizes 0, 1, 3: they touch, overlap,
  enclose, equal one another. Three is one look-up's neighbour on each side. Files without headers,
  stripped, with both pairs of tables, and with one header more than `Half` can count.
* *Registers*: a word of two bytes with a register and its upper half in it, a debug register, and a
  floating point block with a number and a vector of two bytes; values of one byte, signed or
  not; fourteen texts, each one character away from a good one or beyond a limit; one value the kernel
  refuses in each of two registers.
* *Session*: three instructions (one an int3 of the program's own, one where nothing is mapped and that
  no debug register takes) and a word of data with nothing after it, so that a write of two words breaks
  off after the first, two debug registers, up to two sites and two watchpoints, of a size the registers can
  say and of one they cannot, so that every half of a command can fail. Two ids of each kind are enough
  for one to be given after another was deleted. The `VIEW` of the cfg leaves out what was printed,
  which no action reads (the properties about it are of steps), and, once the tracee is gone, its memory
  and the policy, on which nothing then depends.

Deadlock is not checked in `launch`, `elf_lookup` and `session`: a debugging session ends, a table is read
to its end, and the commands that would end the debugger leave nothing to do.

Four runs are expected to fail: each checks one sentence of the repository that the code does not keep.

| run | property | what happens |
|---|---|---|
| process_halts | `HaltsTwicePerSyscall` | with a breakpoint just after a system call, the step-over swallows the stop at its exit |
| hardware_size | `ExecuteSizeIsOne` | `watchpoint set <addr> execute 8`: the kernel refuses DR7, the cache keeps it |
| memory_protected | `ReadsBack` | a range that reaches into a page the program may not read reads as zeros, with no error |
| registers_number | `OnlyNumbersAreWritten` | a text without digits, or with a number that does not fit, writes an uninitialized number |

### Fairness

`Process`: weak fairness of the program's execution, of signal delivery and exit, of the end of a
system call that a signal interrupts (a blocked one may otherwise never return), of whatever follows
a `waitpid` that has something to return, and of the `wait_on_signal` that `handle_command` calls
after `resume`. These are promises of the scheduler and of straight-line code; the user is never
assumed to do anything. `Launch`: the same for the debugger's calls, the child's and signal delivery.

## 4. Proofs

The theorems hold for every value of the constants that satisfies the named assumptions.

**ProcessProofs.** The invariant `IInv` proves `TypeOK`, `SitesInMemory`, `EnabledAsWanted`,
`RegistersCoherent` and `DeathIsTold`. None of these is inductive: whether `enable` saves a byte of the
program depends on the site being out exactly while a step-over is in progress. So `IInv` adds where
sites may be (`SitesAllowed`), what `waitpid` can find (`StatusOK`), that nothing runs at the prompt
(`PromptOK`), that a step with a site to put back sees no system call stop (`StepOK`), that the site
being stepped over exists (`StepOverOK`) and that the user's sites are in force or taken out by the call
in progress (`WantedOK`). The lemmas `EnableKeepsCode`, `DisableKeepsCode`, `RemoveKeepsCode` and
`CreateKeepsCode` carry the argument about bytes, one lemma per group of actions the rest.

**ProcessRefinement.** `Implements`: `Process` implements `Program`, under the mapping `ProgramPc` that
moves the pc back while the stop at a breakpoint has not been handled. A second invariant, `JInv`, says
that the status of a breakpoint trap is that of an int3 just before the pc and that a step-over executes the
instruction at the cached pc. The hypothesis `NoInt3UnderHw` excludes a hardware site on an int3 of
the program's own, which `wait_on_signal` would rewind although it was executed; the run
process_safety has no such site either.

`SyscallPhase`, `NoMissedBreakpoint` and `BreakpointIsReal` follow from a third invariant, `PInv`, which
needs no such hypothesis. `SyscallPhase` speaks of stops the user sees, and is not inductive, because
between two of them the step-over of `resume` may swallow an exit stop, and `expecting_syscall_exit_` is
then wrong. `PInv` says where it is right (`FlagAtStop`, `FlagInStepOver`) and that where it is wrong
the tracee is on a breakpoint, which comes before any system call and sets it right (`FlagInRun`, by the
lemma `TrapComesFirst`). `ToldOK` says that the user knows where a single step begins; `NoSiteAtExit`
that `wait_on_signal` never resumes by itself from a system call onto a site.

Two more invariants stand on these. `WInv` is about what there is to wait for: `WaitsHaveAnEnd` says that
no `waitpid`, not even the one in the step-over that looks at nothing, is called where the tracee
neither runs nor has a status to be read. `HInv` is about the time between the two ends of a system
call: `HaltsTwiceWithoutStepOver` says that the user is told of both under the hypothesis
`NothingAfterSyscall`, that no site lies just after a system call or where the user moves the pc, and
that a user who catches some calls does not set another policy. The run process_halts, which is expected
to fail, has a site just after a system call: the theorem is the other half of that finding, and shows
that the step-over is the only cause of it. The hypotheses are of sites and policies, not of schedules:
signals, exits and Ctrl-C may come at any time.

`InterruptComesThrough` is `InterruptStops` without its fairness. `InterruptDue` is what is under way from a
Ctrl-C to the prompt: the SIGSTOP itself, a stop that will be returned, the end, or, where the step-over
has thrown the SIGSTOP away (`Swallowed`: before its instruction), the breakpoint it has put back under
the tracee. Each step of the tracee, the kernel and the debugger leads to the prompt or makes `Distance`
smaller, which begins at seventeen at most; `InterruptIsNotStuck` says that one of the fair actions
always has something to do. Both need `HwAddrs = {}`, as the run does: with a hardware site the
resume flag may let the tracee pass the breakpoint that was to stop it.

**HardwareStoppointsProofs.** `HInv` adds to `SlotOwnership` and `CacheCoherent` that a site taken out
leaves a free register (`RoomToComeBack`): an argument on `FreeSlots`, the pigeonhole of the four
registers being spelled out in `LeastExists`; and that the address of a stoppoint in force, or of the one taken
out, is one the kernel takes (`TakenAddresses`), without which the site taken out might not come back. The
hypothesis `ExecuteSizes` is what `set_watchpoint` does not check; hardware_size shows what happens
without. `CacheCoherent` is not that cache and tracee are the same, which a refused address belies: it is
that DR7, from which the next register is computed, is the same, and that an address which differs is
one that was refused, in a register that is not in use. `NoInterference` and `OutComesBack` are about
steps. `Attribution` needs a second invariant, `HitsOn`: what the status register says was hit is still in
force when `wait_on_signal` reads it. It is about the address that is told; which of several stoppoints
created there is told is a choice that the code makes by the kind alone.

**MemoryProofs.** The hypothesis `WordFitsInPage` is x64's. The lemmas `Division`, `Monotone`,
`AtMostNext` and `ChunkBegins` are the arithmetic of words and pages; with them every chunk of
`write_memory`, a last partial word completed from what was read included, is shown to keep the traps
and the bytes outside of the range. `TrapsStay` is inductive together with the types and with what the
saved bytes are (`SavedIsByte`); `TrapsAreHidden` follows from it for every range of mapped addresses.
`WritesAPrefix` is about the memory after a write, wherever it broke off, or did not: each byte that has
changed is one of the range, and the range up to there holds what was to be written; left out are the
bytes behind the range, in a page that cannot be read, which the last word zeroes. `WrittenIsRead`
is the other half of what memory_protected shows: where every page that POKEDATA writes can be read by
`process_vm_readv`, a write that did not throw is read back, word by word, however it lies to the pages.

**LaunchProofs.** `LInv` has one part per party: `Pipe` (a child that lives and has not come to its program
holds the pipe, and then launch is reading it), `Origin`, `Stopped` (what a ptrace stop says of its
inferior), `Left`. `LaunchIsExec`, `FailureIsTold` and `NothingIsLeft` follow.

`SInv` adds what the debugger may expect where it blocks: that nothing holds the child up before its
program (`Unhindered`), that no stop it waits for was taken by an earlier wait (`NotTaken`), and that an
inferior which runs has a signal before it that stops it (`Signalled`). `NeverWaitsForNothing` follows,
and with the measure `Distance` the action property `WaitsComeToAnEnd`: while the debugger is in a read or
a `waitpid`, each step of the child and each signal delivered brings the answer nearer and nobody puts
it off. The two are everything in `LaunchReturns` and `DestroyReturns` but the rule that a fair action
which stays enabled is taken; that last step is left to TLC.

**ElfProofs.** `FirstOfEqual` is the invariant of the loop. `LookupIsExact` follows from it for every
table and address: `HoldersBeginTogether` is the fact about tables without overlaps that makes looking
at two entries enough. `PcTranslation` is arithmetic on the load bias. `NamesAreKept` says that in a
file as linkers and `strip` leave it (`Ordinary`) the choice of the string table falls on that of the
symbol table, although the code never looks at `sh_link`.

**RegistersProofs.** `TypeOK /\ Coherent` is inductive. `WriteIsLocal` follows from `Coherent`, since
what the kernel is handed besides the register is what it has already. The file's layout is
`LayoutAssumption`: no word belongs to two parts.

`WrittenAsMeant` is proved in two halves that meet in `ParserIsExact`. `WrittenCorrect` follows a value from
the command to the tracee: `AcceptedStep` and `WidenedIsExtended` say what a write that the kernel
accepts leaves in its register, and a refusal claims nothing. `ParserCorrect` is about the parser, for
every text, and is induction over it. The library's induction theorems take an operator as their
parameter and cannot be used; what can is that the order of the natural numbers is well founded. From
that come `Least` (a set of natural numbers has a least one), `Induct` (induction, with a set instead
of a predicate) and `Recursion` (a function that begins and goes on exists). With them `FromChars` and
`Weights` unfold the two recursive functions, and `LeftToRightIsPositional` shows that what
`from_chars` adds up from the left is what the digits weigh at their places. `ToIntegralDenotes` and
`ParseVectorDenotes` take care of everything around: the prefix, the empty text, the number that does not
fit, the brackets, the commas and the length. `ParseVectorAccepts` compares the two loops: the one without
a length, which `memory write` uses, takes what the other takes for some length, and besides "[]" and a
comma after the last byte. The hypothesis `Sentinels` says that nullopt is no number,
and texts are sequences of strings; `WrittenAsMeantCorrect` joins the halves for the parser of the code.

**SessionProofs.** The invariant `Facts` says that an id and an address are one point of a kind
(`Proper`), that no id is above its counter (`IdsInOrder`), that a watchpoint's data is what was last
told of it (`ShownIsData`), and that the points enabled are what is in force (`InForceOf`). It is stated
of a set of points, so that the lemmas about enabling, disabling and updating a point are about
`enable`, `lift` and `update_data` and serve every command; `StepOverStep` is the site that comes back in
another register. All seven properties of the run follow. `FailureIsContained` allows two things to a
command that fails: a `set` leaves a disabled point, and a `memory write` the words before the one it broke
off at (`WriteMemoryStep`, which finds the first that is not mapped by `Least`). `StopIsNamed` asks for an
enabled point of the kind that was hit, and names the one exception, a site at a watchpoint's address.
Texts are parameters: what the parser makes of them does not matter here.

Every invariant and action property that a passing run checks is proved, some under the hypotheses named
above, which the runs satisfy. Only model-checked: the liveness properties `InterruptStops`,
`LaunchReturns` and `DestroyReturns`, because the prover has neither ENABLED nor the rules of fairness;
their safety parts are `WaitsHaveAnEnd`, `InterruptComesThrough`, `InterruptIsNotStuck`, `NeverWaitsForNothing`
and `WaitsComeToAnEnd`.

## 5. Not modelled

* `to_float` and the registers that hold floating point numbers (formats `double_float` and
  `long_double`): the value is a conversion of the C++ library's, and the write is that of any register
  of its size.
* The disassembler: a loop around Zydis over `read_memory_without_traps`, which `Memory` has. It keeps
  nothing.
* The system call table, which is generated; `Session` has what follows from a name that is or is not in
  it.
* The layout and the wording of what is printed, abbreviations of commands, help texts, line editing and
  history.
* Mapping the ELF file and handing out the bytes of a section, which are reads without state; files
  whose header for the names of sections is not among those read.
* `get_auxv` reading `/proc`: `Elf` takes `AT_ENTRY` as given.
* Process ids, and so a pid that is used again; a signal that stops the child between `PTRACE_TRACEME`
  and exec, for which nobody waits (the comment at `Stray` in `Launch`).
* The shifts and masks of DR7, which is a record for each register.
* The copy in `watchpoint::update_data` of a watchpoint of more than 8 bytes, which `watchpoint set` accepts
  and whose data is read before the size is refused: it writes past the variable it copies to.
* What the kernel makes of a value that it accepts but masks (flags, reserved bits of DR7): `Registers`
  has kernels that take a value or refuse it.
* What becomes of the sites of a program that is let go: `Process` ends where `~process` begins.

## 6. Plan

What is left, in this order:

1. `~process` over `Process`: detaching with software sites in the code. 2. The masks of DR7, bit by
bit, shown to implement the records of `HardwareStoppoints`. 3. An abstract specification of
the stoppoints (a set of what is in force), with `HardwareStoppoints` and `Session` shown to implement it.
