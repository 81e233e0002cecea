------------------------------- MODULE Memory -------------------------------
(***************************************************************************)
(* The memory of a stopped tracee as the debugger reads and writes it.     *)
(* Two interfaces of the kernel meet here: process_vm_readv, which honours *)
(* the protection of pages and may transfer less than it was asked for,    *)
(* and ptrace's PEEKDATA and POKEDATA, which transfer a word and ignore    *)
(* the protection.  Software breakpoint sites keep an int3 in the memory   *)
(* and the byte it replaced with themselves.                               *)
(***************************************************************************)
EXTENDS Integers

CONSTANTS
    Size,           \* the addresses are 0 .. Size - 1; nothing is mapped above
    Word,           \* the bytes that POKEDATA writes: 8
    Page,           \* the bytes of a page: 0x1000
    ReadablePages,  \* the pages that the program itself may read
    PokeablePages,  \* those that ptrace may: any that is mapped privately
    Bytes, Int3, Zero,
    SiteAddrs,      \* where the user may create software breakpoint sites
    MaxLength,      \* the longest range the user reads or writes
    None

Addr == 0 .. Size - 1

ASSUME SizeAssumption  == {Size, Word, Page, MaxLength} \subseteq Nat \ {0}
ASSUME PagesAssumption == ReadablePages \subseteq PokeablePages
                          /\ PokeablePages \subseteq {x \div Page : x \in Addr}
                          /\ Size % Page = 0
ASSUME BytesAssumption == {Int3, Zero} \subseteq Bytes /\ None \notin Bytes
ASSUME SitesAssumption == SiteAddrs \subseteq Addr

VARIABLES
    mem,        \* the tracee's memory
    sites,      \* "absent", "disabled" or "enabled", for each of SiteAddrs
    saved,      \* saved_data_ of the sites
    prog,       \* the memory without the debugger's traps (history)
    spoiled     \* the sites whose int3 the user has written over (history)

vars == <<mem, sites, saved, prog, spoiled>>

(***************************************************************************)
(* The kernel.                                                             *)
(***************************************************************************)
PageOf(x) == x \div Page

\* process_vm_readv gets as far as the first page that it may not read.
ReadsUpTo(a, x) == \A y \in a .. x : PageOf(y) \in ReadablePages

\* PEEKDATA and POKEDATA get as far as the first page that is not mapped, and fail without the
\* whole word.
PokesUpTo(a, x) == \A y \in a .. x : PageOf(y) \in PokeablePages

Pokeable(a) == PokesUpTo(a, a + Word - 1)

(***************************************************************************)
(* Reading.                                                                *)
(***************************************************************************)
\* read_memory throws when nothing at all was transferred ...
read_fails(a, n) == n > 0 /\ PageOf(a) \notin ReadablePages

\* ... and leaves the bytes zero that were not.
read_memory(a, n) ==
    [i \in 0 .. n - 1 |-> IF ReadsUpTo(a, a + i) THEN mem[a + i] ELSE Zero]

in_range(x, low, high) == low <= x /\ high > x

\* The sites that are hidden, without a look at is_enabled().
Hidden_DISABLED(a, n) == {x \in SiteAddrs : in_range(x, a, a + n) /\ saved[x] # None}

\* get_in_region, and the test in the loop.
Hidden(a, n) == {x \in SiteAddrs : in_range(x, a, a + n) /\ sites[x] = "enabled"}

read_memory_without_traps(a, n) ==
    [i \in 0 .. n - 1 |-> IF a + i \in Hidden(a, n) THEN saved[a + i] ELSE read_memory(a, n)[i]]

(***************************************************************************)
(* Writing: whole words; the last one is completed with what is there.     *)
(***************************************************************************)
\* The values of `written` in the loop over n bytes.
Chunks(n) == {k \in 0 .. n - 1 : k % Word = 0}

\* The last word is completed with the program's bytes.
word_WITHOUT_TRAPS(a, n, data, k) ==
    [i \in 0 .. Word - 1 |-> IF k + i < n THEN data[k + i]
                             ELSE read_memory_without_traps(a + k, Word)[i]]

word(a, n, data, k) ==
    [i \in 0 .. Word - 1 |-> IF k + i < n THEN data[k + i] ELSE read_memory(a + k, Word)[i]]

\* The word cannot be completed; or POKEDATA fails.
ReadFails(a, n, k)  == n - k < Word /\ read_fails(a + k, Word)
ChunkFails(a, n, k) == ReadFails(a, n, k) \/ ~Pokeable(a + k)

\* The chunks that are poked: those before one fails, and this one itself unless it is the read
\* that fails.
Poked(a, n) ==
    {k \in Chunks(n) : ~ReadFails(a, n, k) /\ \A j \in Chunks(n) : j < k => ~ChunkFails(a, n, j)}

ChunkOf(a, x) == (x - a) - ((x - a) % Word)

\* Where a write of n bytes at a stores: of a word that POKEDATA fails for, the part before the
\* page that is not mapped.
Stored(a, n) ==
    LET poked == Poked(a, n)
    IN  {x \in Addr : x >= a /\ ChunkOf(a, x) \in poked /\ PokesUpTo(a + ChunkOf(a, x), x)}

Reached(a, n) == Stored(a, n) \intersect (a .. a + n - 1)

write_memory(a, n, data) ==
    LET stored == Stored(a, n)
    IN  mem' = [x \in Addr |-> IF x \in stored
                               THEN word(a, n, data, ChunkOf(a, x))[x - a - ChunkOf(a, x)]
                               ELSE mem[x]]

(***************************************************************************)
(* The user's calls.                                                       *)
(***************************************************************************)
Write(a, n, data) ==
    /\ write_memory(a, n, data)
    /\ LET reached == Reached(a, n)
       IN  /\ prog' = [x \in Addr |-> IF x \in reached THEN data[x - a] ELSE prog[x]]
           /\ spoiled' = (spoiled \ reached) \union
                             {x \in reached \intersect SiteAddrs : sites[x] = "enabled"}
    /\ UNCHANGED <<sites, saved>>

Create(a) ==
    /\ sites[a] = "absent"
    /\ sites' = [sites EXCEPT ![a] = "disabled"]
    /\ saved' = [saved EXCEPT ![a] = None]
    /\ UNCHANGED <<mem, prog, spoiled>>

\* breakpoint_site::enable: PEEKDATA and POKEDATA of the word that starts at the site.
Enable(a) ==
    /\ sites[a] = "disabled" /\ Pokeable(a)
    /\ saved' = [saved EXCEPT ![a] = mem[a]]
    /\ mem' = [mem EXCEPT ![a] = Int3]
    /\ sites' = [sites EXCEPT ![a] = "enabled"]
    /\ UNCHANGED <<prog, spoiled>>

\* disable() restores a byte although the site is not enabled.
restore_ALWAYS(a) == mem' = [mem EXCEPT ![a] = saved[a]]

restore(a) == mem' = IF sites[a] = "enabled" THEN [mem EXCEPT ![a] = saved[a]] ELSE mem

\* disable(), and the end of the site if it is remove_by_address that calls it.
Disable(a, next) ==
    /\ sites[a] # "absent"
    /\ restore(a)
    /\ sites' = [sites EXCEPT ![a] = next]
    /\ UNCHANGED <<saved, prog, spoiled>>

\* The program stores a byte while it runs, not into its own code.
Store(x, byte) ==
    /\ PageOf(x) \in ReadablePages
    /\ x \notin SiteAddrs
    /\ mem' = [mem EXCEPT ![x] = byte] /\ prog' = [prog EXCEPT ![x] = byte]
    /\ UNCHANGED <<sites, saved, spoiled>>

Init ==
    /\ mem = [x \in Addr |-> Zero] /\ prog = mem
    /\ sites = [a \in SiteAddrs |-> "absent"] /\ saved = [a \in SiteAddrs |-> None]
    /\ spoiled = {}

Data == Bytes \ {Int3}

Next ==
    \/ \E a \in Addr, n \in 1 .. MaxLength : \E data \in [0 .. n - 1 -> Data] : Write(a, n, data)
    \/ \E a \in SiteAddrs :
          \/ Create(a)
          \/ Enable(a)
          \/ Disable(a, "disabled")
          \/ Disable(a, "absent")
    \/ \E x \in Addr, byte \in Data : Store(x, byte)

Spec == Init /\ [][Next]_vars

(***************************************************************************)
(* Properties.                                                             *)
(***************************************************************************)
\* Bytes stay bytes: in particular disable() never writes back a byte it has not saved.
TypeOK ==
    /\ {mem, prog} \subseteq [Addr -> Bytes]
    /\ sites \in [SiteAddrs -> {"absent", "disabled", "enabled"}]
    /\ saved \in [SiteAddrs -> Bytes \union {None}]
    /\ spoiled \subseteq SiteAddrs

Enabled(x) == x \in SiteAddrs /\ sites[x] = "enabled"

\* Unless the user writes over a trap, the traps stay where they are and everything else is
\* as the program and the user have written it: write_memory writes whole words, completes
\* the last one with what it reads, traps included, and changes nothing outside its range.
\* The pages that the program may not read are left out: see ReadsBack.
TrapsStay ==
    \A x \in {y \in Addr \ spoiled : PageOf(y) \in ReadablePages} :
        IF Enabled(x) THEN mem[x] = Int3 /\ saved[x] = prog[x] ELSE mem[x] = prog[x]

\* The disassembler sees the program's bytes, with no trap and no stale saved byte among
\* them, wherever the range that it reads begins and ends.
TrapsAreHidden ==
    \A a \in Addr, n \in 1 .. MaxLength :
        \A i \in 0 .. n - 1 :
            ReadsUpTo(a, a + i) /\ a + i \notin spoiled =>
                read_memory_without_traps(a, n)[i] = prog[a + i]

\* A range that was read holds what was written to it, as the test "Reading and writing
\* memory works" expects: POKEDATA writes pages that process_vm_readv does not read, and
\* read_memory returns zeros for them, unless the range begins there.
ReadsBack ==
    \A a \in Addr, n \in 1 .. MaxLength :
        a + n <= Size /\ ~read_fails(a, n) =>
            \A i \in 0 .. n - 1 : read_memory(a, n)[i] = mem[a + i]

=============================================================================
