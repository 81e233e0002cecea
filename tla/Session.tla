------------------------------ MODULE Session -------------------------------
(***************************************************************************)
(* The command line, sdb.cpp, and the two collections of stoppoints that   *)
(* its commands name by id and the rest of the library by address.  One    *)
(* command is one action, with all that it calls: a stoppoint is created   *)
(* first and enabled then, and each of the two may throw.  What happens    *)
(* inside `continue` and `step` is the matter of Process; here the program *)
(* runs, sites are stepped over, and it stops for any reason that the      *)
(* points in force allow; the debugger says which.                         *)
(***************************************************************************)
EXTENDS Integers, Sequences, FiniteSets

CONSTANTS
    Code, Data,      \* the addresses of instructions, and of words of data
    Watched,         \* the addresses that the user wants to watch
    Mapped,          \* those that the tracee has in its memory
    OwnInt3,         \* the addresses of the program's own int3
    Numbers,         \* what a word of memory holds
    Trap,            \* what read_memory returns of a word with an int3 of the debugger's in it
    NumSlots,        \* debug registers: 4, or fewer
    WatchSizes,      \* sizes that the user asks for
    Encodable,       \* those of them that DR7 can say: 1, 2, 4 and 8
    Refused,         \* addresses that the kernel puts in no debug register: its own
    Ids,             \* the ids that the user types
    MaxId,           \* a bound on the points that are ever created, for each kind
    Syscalls, Known, \* system calls that the program makes; those in syscalls.inc
    CatchLists,      \* what follows `catchpoint syscall`: lists of words
    WordOf(_),       \* what comes of a word: the id, Unknown, or NoNumber
    VectorTexts,     \* what follows `memory write <address>`
    BytesOf(_),      \* what comes of it: words, NoFormat, or NoNumber
    Unknown, NoNumber, NoFormat, None

Addr  == Code \union Data
Slots == 0 .. NumSlots - 1
Kinds == {"breakpoint", "watchpoint"}

ASSUME AddrAssumption  == Addr \subseteq Nat /\ Mapped \union Watched \subseteq Addr /\ OwnInt3 \subseteq Code
ASSUME SlotsAssumption == NumSlots \in 1 .. 4 /\ WatchSizes \subseteq Nat \ {0}
ASSUME NoneAssumption  == None \notin Nat \union Kinds \union (Kinds \X Addr) /\ Known \subseteq Syscalls
ASSUME BoundAssumption == MaxId \in Nat /\ 0 \in Numbers
ASSUME BytesAssumption ==
    \A text \in VectorTexts : BytesOf(text) \ {NoFormat, NoNumber} \subseteq Seq(Numbers)

Words == Numbers \union {Trap}

\* A site, or a watchpoint, with its debug register if it has one.
Points == [kind : Kinds, id : 1 .. MaxId, address : Addr, hardware : BOOLEAN,
           size : WatchSizes \union {1}, enabled : BOOLEAN, slot : Slots \union {None},
           data : Words, previous : Words]

VARIABLES
    points,   \* breakpoint_sites_ and watchpoints_
    next_id,  \* the static counters of the two kinds
    traps,    \* the addresses where the debugger has put an int3
    slots,    \* the debug registers: the kind and address of what is in force there
    mem,      \* the words of the program, without traps
    policy,   \* syscall_catch_policy_
    phase,    \* "prompt", "running"; "gone" with the tracee; "crashed" the debugger
    said,     \* what the last command printed
    shown     \* the value of a watchpoint as of its creation or its last report (history)

vars  == <<points, next_id, traps, slots, mem, policy, phase, said, shown>>
force == <<traps, slots>>

Alive == phase \in {"prompt", "running"}

(***************************************************************************)
(* The collections: vectors in the order of creation, hence of ids.        *)
(***************************************************************************)
collection(kind) == {p \in points : p.kind = kind}

find_by_id(kind, id) == {p \in collection(kind) : p.id = id}

\* find_if returns the first of those at the address.
find_by_address(kind, a) ==
    LET there == {p \in collection(kind) : p.address = a}
    IN  {p \in there : \A q \in there : p.id <= q.id}

contains_address(kind, a) == find_by_address(kind, a) # {}

(***************************************************************************)
(* What the user reads.                                                    *)
(***************************************************************************)
Say(what) == [what |-> what, kind |-> None, id |-> None, cause |-> None, at |-> None,
              old |-> None, new |-> None]

Done  == Say("done")
Error == Say("error")

(***************************************************************************)
(* enable() and disable() of the point p; `others` are the other points.   *)
(***************************************************************************)
Hardware(p) == p.kind = "watchpoint" \/ p.hardware

FreeSlots == {s \in Slots : slots[s] = None}

find_free_stoppoint_register(free) == CHOOSE s \in free : \A t \in free : s <= t

\* What the requests of enable() need: a debug register that takes the address, or memory there.
\* The address register of a size that cannot be encoded, written by then and not in force, is
\* left to HardwareStoppoints.
CanEnable(p) ==
    Alive /\ IF Hardware(p) THEN FreeSlots # {} /\ p.size \in Encodable /\ p.address \notin Refused
             ELSE p.address \in Mapped

Enabled(p) ==
    [p EXCEPT !.enabled = TRUE,
              !.slot = IF Hardware(p) THEN find_free_stoppoint_register(FreeSlots) ELSE None]

\* is_enabled_ is set before the requests that may fail.
enable_EARLY(p, others) ==
    /\ points' = others \union {[p EXCEPT !.enabled = TRUE]}
    /\ said' = IF p.enabled \/ CanEnable(p) THEN Done ELSE Error
    /\ IF CanEnable(p) /\ ~p.enabled /\ ~Hardware(p)
       THEN traps' = traps \union {p.address} ELSE traps' = traps
    /\ slots' = slots

enable(p, others) ==
    IF p.enabled \/ ~CanEnable(p)
    THEN /\ points' = others \union {p}
         /\ said' = IF p.enabled THEN Done ELSE Error
         /\ UNCHANGED force
    ELSE /\ points' = others \union {Enabled(p)}
         /\ said' = Done
         /\ IF Hardware(p)
            THEN /\ slots' = [slots EXCEPT ![Enabled(p).slot] = <<p.kind, p.address>>]
                 /\ UNCHANGED traps
            ELSE traps' = traps \union {p.address} /\ UNCHANGED slots

\* The point is not asked whether it is enabled.
lift_ALWAYS(p) ==
    IF Hardware(p) THEN slots' = [slots EXCEPT ![p.slot] = None] /\ UNCHANGED traps
    ELSE traps' = traps \ {p.address} /\ UNCHANGED slots

\* The requests of disable(), which fail without a tracee.
lift(p) ==
    IF ~p.enabled THEN UNCHANGED force
    ELSE IF Hardware(p) THEN slots' = [slots EXCEPT ![p.slot] = None] /\ UNCHANGED traps
    ELSE traps' = traps \ {p.address} /\ UNCHANGED slots

CanDisable(p) == Alive \/ ~p.enabled

Disabled(p) == [p EXCEPT !.enabled = FALSE,
                         !.slot = IF p.kind = "breakpoint" THEN None ELSE @]

(***************************************************************************)
(* The commands.                                                           *)
(***************************************************************************)
AtPrompt == phase \in {"prompt", "gone"}

Fails == said' = Error /\ UNCHANGED <<points, force>>

\* The counter's value before it is incremented.
get_next_id_POST(kind) == next_id[kind]

\* The id is the number of points, and so given again after a removal.
get_next_id_SIZE(kind) == Cardinality(collection(kind)) + 1

get_next_id(kind) == next_id[kind] + 1

Point(kind, a, hardware, size, data) ==
    [kind |-> kind, id |-> get_next_id(kind), address |-> a, hardware |-> hardware,
     size |-> size, enabled |-> FALSE, slot |-> None, data |-> data, previous |-> 0]

TakeId(kind) == next_id' = [next_id EXCEPT ![kind] = @ + 1]

\* A second site at an address is let in.
create_breakpoint_site_TWICE(a, hardware) ==
    LET p == Point("breakpoint", a, hardware, 1, 0)
    IN  TakeId("breakpoint") /\ enable(p, points)

\* breakpoint set: a site whose enable() throws stays, disabled.
create_breakpoint_site(a, hardware) ==
    IF contains_address("breakpoint", a) THEN Fails /\ UNCHANGED next_id
    ELSE LET p == Point("breakpoint", a, hardware, 1, 0)
         IN  TakeId("breakpoint") /\ enable(p, points)

BreakpointSet(a, hardware) ==
    /\ AtPrompt /\ next_id["breakpoint"] < MaxId
    /\ create_breakpoint_site(a, hardware)
    /\ UNCHANGED <<mem, policy, phase, shown>>

\* What the debugger reads of the memory m of the program.
read_memory(m, a) == IF a \in traps THEN Trap ELSE m[a]

\* No bit is set both in the address and in size - 1: for sizes that are no power of two, this
\* is not divisibility.
Bit(n, b) == (n \div 2 ^ b) % 2 = 1

Aligned(a, size) == ~\E b \in 0 .. size : Bit(a, b) /\ Bit(size - 1, b)

\* watchpoint set: a watchpoint that is not aligned takes no id; one whose data cannot be read
\* takes one, and is not created.
WatchpointSet(a, size) ==
    /\ AtPrompt /\ next_id["watchpoint"] < MaxId
    /\ IF contains_address("watchpoint", a) \/ ~Aligned(a, size)
       THEN Fails /\ UNCHANGED <<next_id, shown>>
       ELSE /\ TakeId("watchpoint")
            /\ IF ~Alive \/ a \notin Mapped THEN Fails /\ UNCHANGED shown
               ELSE LET p == Point("watchpoint", a, TRUE, size, read_memory(mem, a))
                    IN  /\ enable(p, points)
                        /\ shown' = [shown EXCEPT ![p.id] = read_memory(mem, a)]
    /\ UNCHANGED <<mem, policy, phase>>

PointEnable(kind, id) ==
    /\ AtPrompt
    /\ \/ find_by_id(kind, id) = {} /\ Fails
       \/ \E p \in find_by_id(kind, id) : enable(p, points \ {p})
    /\ UNCHANGED <<next_id, mem, policy, phase, shown>>

PointDisable(kind, id) ==
    /\ AtPrompt
    /\ \/ find_by_id(kind, id) = {} /\ Fails
       \/ \E p \in find_by_id(kind, id) :
             \/ ~CanDisable(p) /\ Fails
             \/ /\ CanDisable(p) /\ lift(p)
                /\ points' = (points \ {p}) \union {IF p.enabled THEN Disabled(p) ELSE p}
                /\ said' = Done
    /\ UNCHANGED <<next_id, mem, policy, phase, shown>>

\* remove_by_id; there is no test whether the id exists, and then the debugger is lost.
PointDelete(kind, id) ==
    /\ AtPrompt
    /\ \E p \in find_by_id(kind, id) :
          \/ ~CanDisable(p) /\ Fails /\ UNCHANGED shown
          \/ /\ CanDisable(p) /\ lift(p) /\ points' = points \ {p} /\ said' = Done
             /\ shown' = IF kind = "watchpoint" THEN [shown EXCEPT ![id] = None] ELSE shown
    /\ UNCHANGED <<next_id, mem, policy, phase>>

Crash == phase' = "crashed" /\ said' = Say("crash")

DeleteNothing(kind, id) ==
    /\ AtPrompt /\ find_by_id(kind, id) = {}
    /\ Crash
    /\ UNCHANGED <<points, next_id, force, mem, policy, shown>>

\* Each word takes effect on its own.
catch_PARTLY(list) ==
    /\ policy' = [mode |-> "some", to_catch |-> {WordOf(w) : w \in list} \ {Unknown, NoNumber}]
    /\ said' = IF \E w \in list : WordOf(w) \in {Unknown, NoNumber} THEN Error ELSE Done
    /\ UNCHANGED phase

\* catchpoint syscall: nothing, "none", or a list.  A word that begins with a digit and is no
\* number throws bad_optional_access, which nobody catches; to_integral may turn one that does
\* not fit into any number.
catch(list) ==
    \/ \E w \in list : WordOf(w) = NoNumber /\ Crash /\ UNCHANGED policy
    \/ \E w \in list : WordOf(w) = Unknown /\ said' = Error /\ UNCHANGED <<policy, phase>>
    \/ /\ \A w \in list : WordOf(w) \notin {NoNumber, Unknown}
       /\ policy' = [mode |-> "some", to_catch |-> {WordOf(w) : w \in list}]
       /\ said' = Done /\ UNCHANGED phase

CatchSyscall ==
    /\ AtPrompt
    /\ \/ \E mode \in {"none", "all"} :
             /\ policy' = [mode |-> mode, to_catch |-> {}]
             /\ said' = Done /\ UNCHANGED phase
       \/ \E list \in CatchLists : catch(list)
    /\ UNCHANGED <<points, next_id, force, mem, shown>>

\* The words of a range that write_memory writes: up to the first that is not mapped.
Stored(a, bytes) == {x \in a .. a + Len(bytes) - 1 : Alive /\ a .. x \subseteq Mapped}

\* write_memory fails with the words before the one that it cannot write in the tracee.  For the
\* bytes of a word, and for writes over a trap, see Memory.
write_memory(a, bytes) ==
    /\ mem' = [x \in Addr |-> IF x \in Stored(a, bytes) THEN bytes[x - a + 1] ELSE mem[x]]
    /\ said' = IF a .. a + Len(bytes) - 1 \subseteq Stored(a, bytes) THEN Done ELSE Error
    /\ UNCHANGED phase

\* memory write; a vector of no bytes writes nothing.
MemoryWrite(a, text) ==
    /\ AtPrompt
    /\ \E bytes \in BytesOf(text) :
          \/ bytes = NoNumber /\ Crash /\ UNCHANGED mem
          \/ bytes = NoFormat /\ said' = Error /\ UNCHANGED <<mem, phase>>
          \/ /\ bytes \notin {NoNumber, NoFormat} /\ (a .. a + Len(bytes) - 1) \intersect Code = {}
             /\ write_memory(a, bytes)
    /\ UNCHANGED <<points, next_id, force, policy, shown>>

(***************************************************************************)
(* continue and step: the program runs, writes to its data, and stops.     *)
(***************************************************************************)
Stop(cause, at) == [Say("stop") EXCEPT !.cause = cause, !.at = at]

Named(stop, p) ==
    IF p.kind = "breakpoint" THEN [stop EXCEPT !.kind = p.kind, !.id = p.id]
    ELSE [stop EXCEPT !.kind = p.kind, !.id = p.id, !.old = p.previous, !.new = p.data]

\* previous_data_ keeps what it had at the creation.
update_data_FIRST(p, now) == [p EXCEPT !.data = now]

update_data(p, now) == [p EXCEPT !.data = now, !.previous = p.data]

\* get_sigtrap_info of a software_break: the site at the pc, or an exception.
BreakAt(cause, a, at) ==
    /\ \/ ~contains_address("breakpoint", at) /\ said' = Error
       \/ \E p \in find_by_address("breakpoint", at) : said' = Named(Stop(cause, a), p)
    /\ UNCHANGED <<points, shown>>

\* The watchpoint is looked for first.
current_WATCH_FIRST(a) ==
    IF contains_address("watchpoint", a) THEN find_by_address("watchpoint", a)
    ELSE find_by_address("breakpoint", a)

\* get_current_hardware_stoppoint, of the register with the address a.
current(a) ==
    IF contains_address("breakpoint", a) THEN find_by_address("breakpoint", a)
    ELSE find_by_address("watchpoint", a)

\* wait_on_signal updates the watchpoint, print_stop_reason reads it.
HardwareBreak(s) ==
    LET kind == slots[s][1]
        a    == slots[s][2]
    IN  \E p \in current(a) :
          IF p.kind = "breakpoint"
          THEN said' = Named(Stop(kind, a), p) /\ UNCHANGED <<points, shown>>
          ELSE LET q == update_data(p, read_memory(mem', a))
               IN  /\ points' = (points \ {p}) \union {q}
                   /\ said' = Named(Stop(kind, a), q)
                   /\ shown' = [shown EXCEPT ![p.id] = read_memory(mem', a)]

SyscallStop(id) ==
    /\ policy.mode = "all" \/ (policy.mode = "some" /\ id \in policy.to_catch)
    /\ said' \in {Stop("syscall", id), IF id \in Known THEN Stop("syscall", id) ELSE Error}
    /\ UNCHANGED <<points, shown>>

\* The program is let go.
Go ==
    /\ phase = "prompt" /\ phase' = "running" /\ said' = Say("running")
    /\ UNCHANGED <<points, next_id, force, mem, policy, shown>>

\* disable() gives back the register of a hardware site, enable() takes the first that is free.
Rearmed(p) == find_free_stoppoint_register(FreeSlots \union {p.slot})

\* A site is stepped over, in resume or step_instruction, also when a stop was passed by unseen.
\* For one in software all is as before: its trap may be taken for in force, as nothing that is
\* told is looked up in between.
StepOver ==
    /\ phase = "running" /\ said' = Say("running")
    /\ \E p \in collection("breakpoint") :
          /\ p.enabled /\ Hardware(p)
          /\ points' = (points \ {p}) \union {[p EXCEPT !.slot = Rearmed(p)]}
          /\ slots' = [s \in Slots |-> IF s = Rearmed(p) THEN <<p.kind, p.address>>
                                       ELSE IF s = p.slot THEN None ELSE slots[s]]
    /\ UNCHANGED <<next_id, traps, mem, policy, phase, shown>>

\* The pc after an int3 of the program's own, which `step` may execute also under an enabled site:
\* wait_on_signal moves it back when the site is in force by then, which can be one in hardware.
AfterInt3(a) ==
    {a + 1} \union {p.address : p \in {q \in find_by_address("breakpoint", a) : q.enabled /\ Hardware(q)}}

Stops ==
    /\ phase = "running" /\ phase' = "prompt"
    /\ \E stored \in [Data -> Numbers] : mem' = [a \in Addr |-> IF a \in Data THEN stored[a] ELSE mem[a]]
    /\ \/ \E a \in traps : BreakAt("trap", a, a)
       \/ \E a \in OwnInt3 : \E pc \in AfterInt3(a) : BreakAt("int3", a, pc)
       \/ \E s \in Slots \ FreeSlots : HardwareBreak(s)
       \/ \E id \in Syscalls : SyscallStop(id)
       \/ said' = Stop("signal", None) /\ UNCHANGED <<points, shown>>
    /\ UNCHANGED <<next_id, force, policy>>

\* ... or ends, in the step-over of a site perhaps, which then cannot be enabled again.
Ends ==
    /\ phase = "running" /\ phase' = "gone"
    /\ \/ said' = Say("ended") /\ UNCHANGED points
       \/ /\ said' = Error
          /\ \E p \in collection("breakpoint") :
                p.enabled /\ points' = (points \ {p}) \union {Disabled(p)}
    /\ UNCHANGED <<next_id, force, mem, policy, shown>>

\* `continue` and `step` of a program that has ended.
GoNowhere ==
    /\ phase = "gone" /\ said' = Error
    /\ UNCHANGED <<points, next_id, force, mem, policy, phase, shown>>

Init ==
    /\ points = {} /\ next_id = [kind \in Kinds |-> 0]
    /\ traps = {} /\ slots = [s \in Slots |-> None]
    /\ mem = [a \in Addr |-> 0]
    /\ policy = [mode |-> "none", to_catch |-> {}]
    /\ phase = "prompt" /\ said = Done
    /\ shown = [id \in 1 .. MaxId |-> None]

PointCommand ==
    \/ \E a \in Code, hardware \in BOOLEAN : BreakpointSet(a, hardware)
    \/ \E a \in Watched, size \in WatchSizes : WatchpointSet(a, size)
    \/ \E kind \in Kinds, id \in Ids :
          PointEnable(kind, id) \/ PointDisable(kind, id) \/ PointDelete(kind, id)
          \/ DeleteNothing(kind, id)

Command ==
    \/ PointCommand \/ CatchSyscall
    \/ \E a \in Data, text \in VectorTexts : MemoryWrite(a, text)

Next == Command \/ Go \/ StepOver \/ Stops \/ Ends \/ GoNowhere

Spec == Init /\ [][Next]_vars

(***************************************************************************)
(* Properties.                                                             *)
(***************************************************************************)
\* Points, registers and counters are what their names say.
TypeOK ==
    /\ points \subseteq Points
    /\ \A p \in collection("breakpoint") : p.address \in Code
    /\ next_id \in [Kinds -> 0 .. MaxId]
    /\ traps \subseteq Code
    /\ slots \in [Slots -> (Kinds \X Addr) \union {None}]
    /\ mem \in [Addr -> Numbers]
    /\ phase \in {"prompt", "running", "gone", "crashed"}

HardOnes == {p \in points : p.enabled /\ Hardware(p)}
SoftOnes == {p \in points : p.enabled /\ ~Hardware(p)}

\* What `breakpoint list` and `watchpoint list` call enabled is in force in the tracee, each
\* point in a place of its own, and nothing else is: also after commands that failed half-way.
ListedIsInForce ==
    Alive => /\ traps = {p.address : p \in SoftOnes}
             /\ \A p \in HardOnes : p.slot \in Slots /\ slots[p.slot] = <<p.kind, p.address>>
             /\ \A p, q \in HardOnes : p.slot = q.slot => p = q
             /\ \A s \in Slots \ FreeSlots : \E p \in HardOnes : p.slot = s

\* Within a kind, an id is one point and an address is one point: then the look-ups by id and
\* those by address, on which the naming of stops rests, find the point that was meant.
OneOfEach ==
    \A p, q \in points : p.kind = q.kind /\ (p.id = q.id \/ p.address = q.address) => p = q

\* An id stands for one point for ever: a command that names a removed one finds nothing, even
\* after points were created and failed in between.
IdsAreForever ==
    [][\A p \in points' : p.id <= next_id[p.kind] =>
          \E q \in points : q.kind = p.kind /\ q.id = p.id /\ q.address = p.address]_vars

\* A command that reports an error leaves what is in force, the policy and every point as they
\* were; of a `set` that failed at most a disabled point remains, which can be enabled or deleted.
\* Memory is changed by a write that broke off, and then only before the word that it broke off at.
FailureIsContained ==
    [][Command /\ said' = Error =>
          /\ UNCHANGED <<force, policy, phase>>
          /\ points \subseteq points'
          /\ \A p \in points' \ points : ~p.enabled
          /\ \/ mem' = mem
             \/ \E hole \in {x + 1 : x \in Mapped} \ Mapped :
                   \A x \in {y \in Addr : mem'[y] # mem[y]} :
                      x < hole /\ x .. hole - 1 \subseteq Mapped \ Code]_vars

\* A stop at a trap of the debugger or at a hardware stoppoint is that of an enabled point of its
\* kind, and told with the id of this point; except that for a watchpoint a site at the same
\* address, be it disabled, is named in its stead.
StopIsNamed ==
    [][said'.what = "stop" /\ said'.cause \in {"trap"} \union Kinds =>
          \E p, hit \in points' :
              /\ hit.enabled /\ hit.address = said'.at
              /\ IF said'.cause = "trap" THEN ~Hardware(hit)
                 ELSE Hardware(hit) /\ hit.kind = said'.cause
              /\ p.kind = said'.kind /\ p.id = said'.id
              /\ \/ p = hit
                 \/ hit.kind = "watchpoint" /\ p.kind = "breakpoint" /\ p.address = hit.address]_vars

\* A watchpoint's report shows what is in memory now, and as the old value the one that its
\* last report, or its creation, found: reports of other points, changes while it was disabled and
\* writes of the debugger's own in between do not disturb the pair.
OldAndNew ==
    [][said'.what = "stop" /\ said'.kind = "watchpoint" =>
          /\ said'.new = read_memory(mem', said'.at)
          /\ said'.old = shown[said'.id]]_vars

=============================================================================
