--------------------------------- MODULE Elf ---------------------------------
(***************************************************************************)
(* The symbols of the debugged program.  An elf object reads the section   *)
(* headers and one symbol table, and enters its symbols, one by one, into  *)
(* a map by name and into a map ordered by their first address; a target   *)
(* computes where the program was loaded from the auxiliary vector of the  *)
(* process.  All this tells the user in which function the program has     *)
(* stopped.                                                                *)
(*                                                                         *)
(* An optional is a set of at most one element.  A symbol is named by its  *)
(* place in the table, a section by that in the headers, and a string by   *)
(* where it begins in its string table.                                    *)
(***************************************************************************)
EXTENDS Integers, Sequences

CONSTANTS
    Files,      \* e_shnum and the section headers, each with what its section holds
    Half,       \* how many numbers an Elf64_Half has: 2^16
    Offsets,    \* where strings begin in a string table
    Symbols,    \* what a symbol of a table may be
    Demangle,   \* what __cxa_demangle makes of a name
    Entry,      \* e_entry
    Biases,     \* where the kernel may load it
    MaxAddr     \* bounds the addresses that are looked up

FileAddr == 0 .. MaxAddr

Header == [name : STRING, addr : Nat, size : Nat, link : Nat,
           symbols : Seq(Symbols), strings : [Offsets -> STRING]]

\* A file without section headers has no size for them either.
n_headers(f) ==
    IF f.shnum = 0 /\ f.headers # <<>> THEN f.headers[1].size % Half ELSE f.shnum

\* Sections without a header are not read, and the names of the sections are those of a
\* header that is.
ASSUME FilesAssumption ==
    \A f \in Files :
        /\ f \in [shnum : Nat, headers : Seq(Header)]
        /\ n_headers(f) \in 0 .. Len(f.headers)
ASSUME SymbolsAssumption  ==
    Symbols \subseteq [name : Offsets, value : Nat, size : Nat, type : {"func", "tls", "other"}]
ASSUME HalfAssumption     == Half \in Nat \ {0} /\ 0 \in Offsets
ASSUME LoadAssumption     == Entry \in Nat /\ Biases \subseteq Nat /\ MaxAddr \in Nat

VARIABLES
    file,
    phase,          \* "closed", "indexing", "open", "loaded"
    section_headers_,
    symbol_table_,
    next,           \* the next symbol of the loop in build_symbol_maps
    symbol_addr_map_,
    bias,           \* where the kernel has loaded the program
    load_bias_

vars == <<file, phase, section_headers_, symbol_table_, next, symbol_addr_map_, bias,
          load_bias_>>

(***************************************************************************)
(* Opening a file.                                                         *)
(***************************************************************************)
\* The number of headers is kept in the 16 bits of e_shnum, also when it is read from the
\* first header because these 16 bits are too few.
parse_section_headers == SubSeq(file.headers, 1, n_headers(file))

\* section_map_, in which the last section of a name replaces the others.
get_section(headers, name) ==
    {i \in DOMAIN headers :
        /\ headers[i].name = name
        /\ \A j \in DOMAIN headers : headers[j].name = name => j <= i}

get_section_or(headers, name, other) ==
    IF get_section(headers, name) # {} THEN get_section(headers, name)
    ELSE get_section(headers, other)

parse_symbol_table(headers) ==
    LET symtab == get_section_or(headers, ".symtab", ".dynsym")
    IN  IF symtab = {} THEN <<>> ELSE headers[CHOOSE i \in symtab : TRUE].symbols

\* The constructor, up to build_symbol_maps.
open ==
    /\ phase = "closed"
    /\ section_headers_' = parse_section_headers
    /\ symbol_table_' = parse_symbol_table(section_headers_')
    /\ next' = 1
    /\ phase' = "indexing"
    /\ UNCHANGED <<file, symbol_addr_map_, bias, load_bias_>>

\* Undefined symbols, whose value is 0, are entered as well.
Indexed_UNDEFINED(s) == s.name # 0 /\ s.type # "tls"

\* The symbols that have an address of their own.
Indexed(s) == s.name # 0 /\ s.value # 0 /\ s.type # "tls"

\* The last of the symbols with one address stays in the map: map[key] = symbol.
insert_LAST(map, v, i) == [x \in DOMAIN map \union {v} |-> IF x = v THEN i ELSE map[x]]

\* std::map::insert, with range_comparator: the first of them does.
insert(map, v, i) == [x \in DOMAIN map \union {v} |-> IF x \in DOMAIN map THEN map[x] ELSE i]

\* One turn of the loop.
build_symbol_maps ==
    /\ phase = "indexing" /\ next <= Len(symbol_table_)
    /\ LET symbol == symbol_table_[next]
       IN  symbol_addr_map_' = IF Indexed(symbol) THEN insert(symbol_addr_map_, symbol.value, next)
                               ELSE symbol_addr_map_
    /\ next' = next + 1
    /\ UNCHANGED <<file, phase, section_headers_, symbol_table_, bias, load_bias_>>

opened ==
    /\ phase = "indexing" /\ next > Len(symbol_table_)
    /\ phase' = "open"
    /\ UNCHANGED <<file, section_headers_, symbol_table_, next, symbol_addr_map_, bias,
                   load_bias_>>

(***************************************************************************)
(* target::launch and target::attach: AT_ENTRY is where e_entry has come   *)
(* to lie.                                                                 *)
(***************************************************************************)
AT_ENTRY(b) == b + Entry

\* The entry point is taken for the beginning.
create_loaded_elf_ENTRY(b) == AT_ENTRY(b)

create_loaded_elf(b) == AT_ENTRY(b) - Entry

notify_loaded(b) ==
    /\ phase \in {"open", "loaded"}
    /\ bias' = b
    /\ load_bias_' = create_loaded_elf(b)
    /\ phase' = "loaded"
    /\ UNCHANGED <<file, section_headers_, symbol_table_, next, symbol_addr_map_>>

(***************************************************************************)
(* Looking up.                                                             *)
(***************************************************************************)
\* The sections of which the code returns the first; its callers ask if there is one.
get_section_containing_address(v) ==
    {i \in DOMAIN section_headers_ :
        LET s == section_headers_[i]
        IN  load_bias_ + s.addr <= v /\ v < load_bias_ + s.addr + s.size}

to_file_addr(v) == IF get_section_containing_address(v) # {} THEN {v - load_bias_} ELSE {}

get_symbol_at_address(a) == {symbol_addr_map_[x] : x \in DOMAIN symbol_addr_map_ \intersect {a}}

\* The entry before the lower bound of a.
Preceding(a) ==
    {x \in DOMAIN symbol_addr_map_ :
        x < a /\ \A y \in DOMAIN symbol_addr_map_ : y < a => y <= x}

\* The end of the symbol is not compared.
get_symbol_containing_address_NEAREST(a) ==
    IF get_symbol_at_address(a) # {} THEN get_symbol_at_address(a)
    ELSE {symbol_addr_map_[x] : x \in Preceding(a)}

get_symbol_containing_address(a) ==
    IF get_symbol_at_address(a) # {} THEN get_symbol_at_address(a)
    ELSE {symbol_addr_map_[x] : x \in
             {y \in Preceding(a) : y + symbol_table_[symbol_addr_map_[y]].size > a}}

\* The same for an address of the process: the pc of a stop.
symbol_of_pc(v) == UNION {get_symbol_containing_address(a) : a \in to_file_addr(v)}

\* Only the string table of .symtab is known.
get_string_STRTAB(index) ==
    LET strtab == get_section(section_headers_, ".strtab")
    IN  IF strtab = {} THEN "" ELSE section_headers_[CHOOSE i \in strtab : TRUE].strings[index]

\* Neither the symbol nor the table that it comes from says in which string table its name
\* is: the choice is made anew.
get_string(index) ==
    LET strtab == get_section_or(section_headers_, ".strtab", ".dynstr")
    IN  IF strtab = {} THEN "" ELSE section_headers_[CHOOSE i \in strtab : TRUE].strings[index]

\* The keys under which build_symbol_maps enters a symbol: its name, whatever the symbol is,
\* and the demangled name, if it has one, in a string that it frees afterwards.
mangled_name(i) == get_string(symbol_table_[i].name)

demangled_name(i) ==
    IF mangled_name(i) \in DOMAIN Demangle THEN {Demangle[mangled_name(i)]} ELSE {}

\* Whether a symbol is found under a key that has been freed is the allocator's affair: the
\* results that a look-up may have.
get_symbols_by_name(name) ==
    LET entered == 1 .. next - 1
    IN  {{i \in entered : mangled_name(i) = name} \union found :
            found \in SUBSET {i \in entered : name \in demangled_name(i)}}

\* get_signal_stop_reason names the symbol if it is a function.
function_of_pc(v) == {i \in symbol_of_pc(v) : symbol_table_[i].type = "func"}

(***************************************************************************)
(* The specification.                                                      *)
(***************************************************************************)
Init ==
    /\ file \in Files
    /\ phase = "closed"
    /\ section_headers_ = <<>> /\ symbol_table_ = <<>> /\ next = 1
    /\ symbol_addr_map_ = [x \in {} |-> 0]
    /\ bias = 0 /\ load_bias_ = 0

Next ==
    \/ open \/ build_symbol_maps \/ opened
    \/ \E b \in Biases : notify_loaded(b)

Spec == Init /\ [][Next]_vars

(***************************************************************************)
(* Properties.                                                             *)
(***************************************************************************)
\* What the variables may be; the map never has a symbol without an address.
TypeOK ==
    /\ phase \in {"closed", "indexing", "open", "loaded"}
    /\ section_headers_ \in Seq(Header)
    /\ symbol_table_ \in Seq(Symbols)
    /\ next \in 1 .. Len(symbol_table_) + 1
    /\ DOMAIN symbol_addr_map_ \subseteq Nat \ {0}
    /\ \A x \in DOMAIN symbol_addr_map_ : symbol_addr_map_[x] \in 1 .. next - 1
    /\ bias \in Nat /\ load_bias_ \in Nat

\* The symbols that the loop has come by and entered, or not.
Known == {i \in 1 .. next - 1 : Indexed(symbol_table_[i])}

Value(i) == symbol_table_[i].value
End(i)   == symbol_table_[i].value + symbol_table_[i].size

\* Of the symbols that begin at one address, aliases of a function among them, the map has
\* the one that comes first in the table, whatever the order of the others.
FirstOfEqual ==
    /\ DOMAIN symbol_addr_map_ = {Value(i) : i \in Known}
    /\ \A i \in Known :
          /\ symbol_addr_map_[Value(i)] \in Known
          /\ Value(symbol_addr_map_[Value(i)]) = Value(i)
          /\ symbol_addr_map_[Value(i)] <= i

Holds(i, a) == Value(i) = a \/ (Value(i) < a /\ a < End(i))

\* Aliases are of one size, and no symbol begins inside another.
WellLaidOut ==
    \A i, j \in Known :
        /\ Value(i) = Value(j) => End(i) = End(j)
        /\ Value(i) < Value(j) => End(i) <= Value(j)

\* get_symbol_containing_address, which looks at one entry of the map or at two, never names
\* a symbol that does not hold the address; and when symbols do not overlap it finds the
\* first one that does, and nothing only if there is none.
LookupIsExact ==
    \A a \in FileAddr :
        /\ \A i \in get_symbol_containing_address(a) : i \in Known /\ Holds(i, a)
        /\ WellLaidOut =>
              get_symbol_containing_address(a) =
                  {i \in Known : Holds(i, a) /\ \A j \in Known : Holds(j, a) => i <= j}

InSection(a) ==
    \E i \in DOMAIN section_headers_ :
        LET s == section_headers_[i] IN s.addr <= a /\ a < s.addr + s.size

\* Wherever the program was loaded, and loaded again, the function shown for a pc is that of
\* the instruction in the file, and a pc outside of the file's sections has none.
PcIsTranslated ==
    phase = "loaded" =>
        \A v \in 0 .. bias + MaxAddr :
            function_of_pc(v) =
                {i \in get_symbol_containing_address(v - bias) :
                    InSection(v - bias) /\ symbol_table_[i].type = "func"}

\* What linkers and strip leave: every symbol table with its own string table, and none of
\* .strtab without .symtab; and a file of which all headers could be read.
Ordinary ==
    LET headers == file.headers
    IN  /\ section_headers_ = headers
        /\ \A i \in get_section(headers, ".symtab") :
              headers[i].link \in get_section(headers, ".strtab")
        /\ \A i \in get_section(headers, ".dynsym") :
              headers[i].link \in get_section(headers, ".dynstr")
        /\ get_section(headers, ".strtab") # {} => get_section(headers, ".symtab") # {}

\* The name that the symbol has in the file: sh_link leads to its string table.
OwnName(i) ==
    LET symtab == get_section_or(file.headers, ".symtab", ".dynsym")
        link   == file.headers[CHOOSE t \in symtab : TRUE].link
    IN  file.headers[link].strings[symbol_table_[i].name]

\* A symbol is shown with its own name and is found by it, in whole files and in stripped
\* ones, although the tables of symbols and of strings are chosen apart from each other;
\* and what is found by a name is called so, mangled or not.
NamedAsInFile ==
    Ordinary /\ phase # "closed" =>
        \A i \in 1 .. next - 1 :
            /\ mangled_name(i) = OwnName(i)
            /\ \A found \in get_symbols_by_name(OwnName(i)) :
                  /\ i \in found
                  /\ \A j \in found :
                        \/ OwnName(j) = OwnName(i)
                        \/ OwnName(j) \in DOMAIN Demangle /\ Demangle[OwnName(j)] = OwnName(i)

==============================================================================
