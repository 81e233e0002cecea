------------------------------ MODULE ElfProofs ------------------------------
(***************************************************************************)
(* The symbol map and its look-ups, for every file and every load address. *)
(* The invariant of the loop in build_symbol_maps is FirstOfEqual; that a  *)
(* look-up of at most two entries of the map is exact follows from it, and *)
(* from nothing else that the object has done.                             *)
(***************************************************************************)
EXTENDS Elf, TLAPS

\* Nothing is known before the file is open, then what its headers lead to; and the debugger
\* and the kernel agree on where the program is.
Start == /\ file \in Files
         /\ phase = "closed" => next = 1
         /\ phase # "closed" => /\ section_headers_ = parse_section_headers
                               /\ symbol_table_ = parse_symbol_table(section_headers_)
         /\ load_bias_ = bias

IInv == TypeOK /\ FirstOfEqual /\ Start

LEMMA InitEstablishesIInv == Init => IInv
<1> SUFFICES ASSUME Init PROVE IInv
  OBVIOUS
<1>1. /\ symbol_table_ = <<>> /\ Len(symbol_table_) = 0 /\ symbol_table_ \in Seq(Symbols)
      /\ section_headers_ \in Seq(Header)
  BY DEF Init
<1>2. DOMAIN symbol_addr_map_ = {} /\ Known = {}
  BY DEF Init, Known
<1>3. TypeOK
  BY <1>1, <1>2 DEF Init, TypeOK
<1>4. FirstOfEqual
  BY <1>2 DEF FirstOfEqual
<1> QED
  BY <1>3, <1>4 DEF Init, IInv, Start

\* As many headers are read as the file says, truncated or not.
LEMMA ParsedHeaders == ASSUME file \in Files PROVE parse_section_headers \in Seq(Header)
<1>1. file.headers \in Seq(Header) /\ n_headers(file) \in 0 .. Len(file.headers)
  BY FilesAssumption
<1> QED
  BY <1>1 DEF parse_section_headers

\* A name leads to one header at most.
LEMMA OneSection ==
    ASSUME NEW headers \in Seq(Header), NEW name
    PROVE  /\ get_section(headers, name) \subseteq 1 .. Len(headers)
           /\ \A i, j \in get_section(headers, name) : i = j
BY DEF get_section

\* The table that is parsed is one of the file's, or empty.
LEMMA ParsedTable ==
    ASSUME NEW headers \in Seq(Header)
    PROVE  parse_symbol_table(headers) \in Seq(Symbols)
<1> DEFINE symtab == get_section_or(headers, ".symtab", ".dynsym")
<1>1. CASE symtab = {}
  BY <1>1 DEF parse_symbol_table
<1>2. CASE symtab # {}
  <2>1. (CHOOSE i \in symtab : TRUE) \in 1 .. Len(headers)
    BY <1>2, OneSection DEF get_section_or
  <2>2. headers[CHOOSE i \in symtab : TRUE] \in Header
    BY <2>1
  <2> QED
    BY <1>2, <2>2 DEF parse_symbol_table, Header
<1> QED
  BY <1>1, <1>2

LEMMA OpenPreserves == ASSUME IInv, open PROVE IInv'
<1> USE DEF IInv
<1>1. Known = {} /\ DOMAIN symbol_addr_map_ = {}
  BY DEF open, Start, Known, FirstOfEqual
<1>2. Known' = {} /\ DOMAIN symbol_addr_map_' = {}
  BY <1>1 DEF open, Known
<1>3. /\ section_headers_' \in Seq(Header) /\ section_headers_' = parse_section_headers'
      /\ symbol_table_' = parse_symbol_table(section_headers_')
  BY ParsedHeaders DEF open, Start, parse_section_headers
<1>0. symbol_table_' \in Seq(Symbols) /\ Len(symbol_table_') \in Nat
  BY <1>3, ParsedTable
<1>4. TypeOK'
  BY <1>0, <1>2, <1>3 DEF open, TypeOK
<1>5. FirstOfEqual'
  BY <1>2 DEF FirstOfEqual
<1>6. Start'
  BY <1>3 DEF open, Start
<1> QED
  BY <1>4, <1>5, <1>6

\* One turn of the loop: a symbol is entered unless an earlier one has its address.
LEMMA BuildPreserves == ASSUME IInv, build_symbol_maps PROVE IInv'
<1> USE DEF IInv
<1> DEFINE symbol == symbol_table_[next]
<1>1. next \in 1 .. Len(symbol_table_) /\ Len(symbol_table_) \in Nat /\ symbol \in Symbols
  BY DEF build_symbol_maps, TypeOK
<1>2. symbol.value \in Nat /\ \A i \in Known : i \in Nat /\ i < next
  BY <1>1, SymbolsAssumption DEF Known
<1>3. /\ symbol_table_' = symbol_table_ /\ next' = next + 1
      /\ UNCHANGED <<file, phase, section_headers_, bias, load_bias_>>
  BY DEF build_symbol_maps
<1>4. \A i : Value(i)' = Value(i)
  BY <1>3 DEF Value
<1>5. CASE ~Indexed(symbol)
  <2>1. symbol_addr_map_' = symbol_addr_map_
    BY <1>5 DEF build_symbol_maps
  <2>2. Known' = Known
    BY <1>1, <1>3, <1>5 DEF Known, Indexed
  <2>3. TypeOK'
    BY <1>1, <1>3, <2>1 DEF TypeOK
  <2>4. FirstOfEqual'
    BY <1>4, <2>1, <2>2 DEF FirstOfEqual
  <2> QED
    BY <1>3, <2>3, <2>4, <1>1 DEF Start, build_symbol_maps, parse_section_headers
<1>6. CASE Indexed(symbol)
  <2>1. symbol_addr_map_' = insert(symbol_addr_map_, symbol.value, next)
    BY <1>6 DEF build_symbol_maps
  <2>2. /\ DOMAIN symbol_addr_map_' = DOMAIN symbol_addr_map_ \union {symbol.value}
        /\ \A x \in DOMAIN symbol_addr_map_' :
              symbol_addr_map_'[x] = IF x \in DOMAIN symbol_addr_map_ THEN symbol_addr_map_[x] ELSE next
    BY <2>1 DEF insert
  <2>3. Known' = Known \union {next} /\ Value(next) = symbol.value /\ symbol.value # 0
    BY <1>1, <1>3, <1>6 DEF Known, Indexed, Value
  <2>4. TypeOK'
    <3>1. DOMAIN symbol_addr_map_' \subseteq Nat \ {0}
      BY <1>2, <2>2, <2>3 DEF TypeOK
    <3>2. \A x \in DOMAIN symbol_addr_map_' : symbol_addr_map_'[x] \in 1 .. next' - 1
      BY <1>1, <1>3, <2>2 DEF TypeOK
    <3> QED
      BY <1>1, <1>3, <3>1, <3>2 DEF TypeOK
  <2>5. FirstOfEqual'
    <3>1. DOMAIN symbol_addr_map_' = {Value(i)' : i \in Known'}
      BY <1>4, <2>2, <2>3 DEF FirstOfEqual
    <3>2. ASSUME NEW i \in Known'
          PROVE  LET j == symbol_addr_map_'[Value(i)]
                 IN  j \in Known' /\ Value(j) = Value(i) /\ j <= i
      <4>1. CASE Value(i) \in DOMAIN symbol_addr_map_
        <5>1. PICK k \in Known : Value(k) = Value(i)
          BY <4>1 DEF FirstOfEqual
        <5>2. symbol_addr_map_'[Value(i)] = symbol_addr_map_[Value(k)]
          BY <2>2, <4>1, <5>1
        <5>3. /\ symbol_addr_map_[Value(k)] \in Known
              /\ Value(symbol_addr_map_[Value(k)]) = Value(k)
              /\ symbol_addr_map_[Value(k)] <= k
          BY DEF FirstOfEqual
        <5>4. symbol_addr_map_[Value(k)] <= i
          <6>1. CASE i \in Known
            BY <5>1, <6>1 DEF FirstOfEqual
          <6>2. CASE i = next
            BY <1>1, <1>2, <5>3, <6>2
          <6> QED
            BY <2>3, <6>1, <6>2
        <5> QED
          BY <2>3, <5>1, <5>2, <5>3, <5>4
      <4>2. CASE Value(i) \notin DOMAIN symbol_addr_map_
        <5>1. i = next
          BY <2>3, <4>2 DEF FirstOfEqual
        <5>2. symbol_addr_map_'[Value(i)] = next
          BY <2>2, <2>3, <4>2, <5>1
        <5> QED
          BY <1>1, <2>3, <5>1, <5>2
      <4> QED
        BY <4>1, <4>2
    <3> QED
      BY <1>4, <3>1, <3>2 DEF FirstOfEqual
  <2> QED
    BY <1>3, <2>4, <2>5, <1>1 DEF Start, build_symbol_maps, parse_section_headers
<1> QED
  BY <1>5, <1>6

\* The other steps leave the table and the map alone.
LEMMA OthersPreserve ==
    ASSUME IInv, opened \/ (\E b \in Biases : notify_loaded(b)) \/ UNCHANGED vars
    PROVE  IInv'
<1> USE DEF IInv
<1>1. UNCHANGED <<file, section_headers_, symbol_table_, next, symbol_addr_map_>>
  BY DEF opened, notify_loaded, vars
<1>2. Known' = Known /\ \A i : Value(i)' = Value(i)
  BY <1>1 DEF Known, Value
<1>3. FirstOfEqual'
  BY <1>1, <1>2 DEF FirstOfEqual
<1>4. bias' \in Nat /\ load_bias_' = bias'
  BY LoadAssumption DEF TypeOK, Start, opened, notify_loaded, vars, create_loaded_elf, AT_ENTRY
<1>5. TypeOK'
  BY <1>1, <1>4 DEF TypeOK, opened, notify_loaded, vars
<1>6. /\ phase' = "closed" => next' = 1
      /\ phase' # "closed" => /\ section_headers_' = parse_section_headers'
                              /\ symbol_table_' = parse_symbol_table(section_headers_')
  BY <1>1 DEF opened, notify_loaded, vars, Start, parse_section_headers
<1> QED
  BY <1>1, <1>3, <1>4, <1>5, <1>6 DEF Start

THEOREM Inductive == Spec => []IInv
<1>1. IInv /\ [Next]_vars => IInv'
  BY OpenPreserves, BuildPreserves, OthersPreserve DEF Next
<1> QED
  BY InitEstablishesIInv, <1>1, PTL DEF Spec

\* The map is well formed, and never has an undefined symbol.
THEOREM TypeCorrect == Spec => []TypeOK
<1>1. IInv => TypeOK
  BY DEF IInv
<1> QED
  BY Inductive, <1>1, PTL

\* Of the symbols at one address the map has the first, for every table.
THEOREM FirstWins == Spec => []FirstOfEqual
<1>1. IInv => FirstOfEqual
  BY DEF IInv
<1> QED
  BY Inductive, <1>1, PTL

(***************************************************************************)
(* The look-ups.                                                           *)
(***************************************************************************)
\* An entry of the map, seen from its address.
LEMMA Entries ==
    ASSUME IInv, NEW x \in DOMAIN symbol_addr_map_
    PROVE  /\ symbol_addr_map_[x] \in Known
           /\ Value(symbol_addr_map_[x]) = x
           /\ \A i \in Known : Value(i) = x => symbol_addr_map_[x] <= i
BY DEF IInv, FirstOfEqual

LEMMA Numbers ==
    ASSUME IInv, NEW i \in Known
    PROVE  i \in Nat /\ Value(i) \in Nat /\ End(i) \in Nat /\ Value(i) <= End(i)
<1>1. i \in 1 .. Len(symbol_table_) /\ Len(symbol_table_) \in Nat
  BY DEF IInv, TypeOK, Known
<1>2. symbol_table_[i] \in Symbols
  BY <1>1 DEF IInv, TypeOK
<1> QED
  BY <1>1, <1>2, SymbolsAssumption DEF Value, End

\* Whatever a look-up names holds the address.
LEMMA LookupIsSound ==
    ASSUME IInv, NEW a \in Nat, NEW i \in get_symbol_containing_address(a)
    PROVE  i \in Known /\ Holds(i, a)
<1>1. CASE get_symbol_at_address(a) # {}
  <2>1. a \in DOMAIN symbol_addr_map_ /\ i = symbol_addr_map_[a]
    BY <1>1 DEF get_symbol_containing_address, get_symbol_at_address
  <2> QED
    BY <2>1, Entries DEF Holds
<1>2. CASE get_symbol_at_address(a) = {}
  <2>1. PICK x \in DOMAIN symbol_addr_map_ :
          /\ i = symbol_addr_map_[x] /\ x < a
          /\ x + symbol_table_[symbol_addr_map_[x]].size > a
    BY <1>2 DEF get_symbol_containing_address, Preceding
  <2>2. i \in Known /\ Value(i) = x
    BY <2>1, Entries
  <2>3. End(i) = x + symbol_table_[i].size /\ End(i) \in Nat
    BY <2>2, Numbers DEF End, Value
  <2> QED
    BY <2>1, <2>2, <2>3 DEF Holds
<1> QED
  BY <1>1, <1>2

First(a) == {i \in Known : Holds(i, a) /\ \A j \in Known : Holds(j, a) => i <= j}

\* In a table without overlaps nothing that holds an address begins at another place than
\* whatever else holds it.
LEMMA HoldersBeginTogether ==
    ASSUME IInv, WellLaidOut, NEW a \in Nat, NEW i \in Known, NEW j \in Known, Holds(i, a), Holds(j, a)
    PROVE  Value(i) = Value(j)
<1>1. /\ Value(i) \in Nat /\ End(i) \in Nat /\ Value(j) \in Nat /\ End(j) \in Nat
  BY Numbers
<1>2. Value(i) < Value(j) => End(i) <= Value(j)
  BY DEF WellLaidOut
<1>3. Value(j) < Value(i) => End(j) <= Value(i)
  BY DEF WellLaidOut
<1> QED
  BY <1>1, <1>2, <1>3 DEF Holds

LEMMA LookupFindsFirst ==
    ASSUME IInv, WellLaidOut, NEW a \in Nat
    PROVE  get_symbol_containing_address(a) = First(a)
<1>1. ASSUME NEW i \in get_symbol_containing_address(a) PROVE i \in First(a)
  <2>1. i \in Known /\ Holds(i, a)
    BY <1>1, LookupIsSound
  <2>2. PICK x \in DOMAIN symbol_addr_map_ : i = symbol_addr_map_[x]
    BY DEF get_symbol_containing_address, get_symbol_at_address, Preceding
  <2>3. ASSUME NEW j \in Known, Holds(j, a) PROVE i <= j
    BY <2>1, <2>2, <2>3, HoldersBeginTogether, Entries
  <2> QED
    BY <2>1, <2>3 DEF First
<1>2. ASSUME NEW i \in First(a) PROVE i \in get_symbol_containing_address(a)
  <2>1. i \in Known /\ Holds(i, a) /\ Value(i) \in DOMAIN symbol_addr_map_
    BY <1>2 DEF First, IInv, FirstOfEqual
  <2> DEFINE k == symbol_addr_map_[Value(i)]
  <2>2. k \in Known /\ Value(k) = Value(i) /\ k <= i
    BY <2>1, Entries
  <2>3. End(k) = End(i)
    BY <2>1, <2>2 DEF WellLaidOut
  <2>4. Holds(k, a)
    BY <2>1, <2>2, <2>3 DEF Holds
  <2>5. k = i
    <3>1. i <= k
      BY <1>2, <2>2, <2>4 DEF First
    <3> QED
      BY <3>1, <2>1, <2>2, Numbers
  <2>6. CASE Value(i) = a
    BY <2>1, <2>5, <2>6 DEF get_symbol_containing_address, get_symbol_at_address
  <2>7. CASE Value(i) < a /\ a < End(i)
    <3>1. ASSUME a \in DOMAIN symbol_addr_map_ PROVE FALSE
      <4>1. symbol_addr_map_[a] \in Known /\ Holds(symbol_addr_map_[a], a)
        BY <3>1, Entries DEF Holds
      <4>2. Value(symbol_addr_map_[a]) = Value(i)
        BY <2>1, <4>1, HoldersBeginTogether
      <4> QED
        BY <3>1, <4>2, <2>1, <2>7, Entries, Numbers
    <3>2. get_symbol_at_address(a) = {}
      BY <3>1 DEF get_symbol_at_address
    <3>3. ASSUME NEW y \in DOMAIN symbol_addr_map_, y < a PROVE y <= Value(i)
      <4>1. symbol_addr_map_[y] \in Known /\ Value(symbol_addr_map_[y]) = y
        BY Entries
      <4>2. y \in Nat /\ Value(i) \in Nat /\ End(i) \in Nat
        BY <2>1, <4>1, Numbers
      <4>3. Value(i) < y => End(i) <= y
        BY <2>1, <4>1 DEF WellLaidOut
      <4> QED
        BY <2>7, <3>3, <4>2, <4>3
    <3>4. Value(i) \in Preceding(a)
      BY <2>1, <2>7, <3>3 DEF Preceding
    <3>5. Value(i) + symbol_table_[symbol_addr_map_[Value(i)]].size > a
      <4>1. Value(i) + symbol_table_[i].size = End(i)
        BY DEF Value, End
      <4> QED
        BY <4>1, <2>5, <2>7, <2>1, Numbers
    <3> QED
      BY <2>5, <3>2, <3>4, <3>5 DEF get_symbol_containing_address
  <2> QED
    BY <2>1, <2>6, <2>7 DEF Holds
<1> QED
  BY <1>1, <1>2

\* A look-up is exact, for every table and every address.
THEOREM ExactLookup == Spec => []LookupIsExact
<1>1. IInv => LookupIsExact
  <2> SUFFICES ASSUME IInv, NEW a \in FileAddr
               PROVE  /\ \A i \in get_symbol_containing_address(a) : i \in Known /\ Holds(i, a)
                      /\ WellLaidOut => get_symbol_containing_address(a) = First(a)
    BY DEF LookupIsExact, First
  <2>1. a \in Nat
    BY LoadAssumption DEF FileAddr
  <2> QED
    BY <2>1, LookupIsSound, LookupFindsFirst
<1> QED
  BY Inductive, <1>1, PTL

\* The function shown for a pc is that of the instruction, for every load address.
THEOREM PcTranslation == Spec => []PcIsTranslated
<1>1. IInv => PcIsTranslated
  <2> SUFFICES ASSUME IInv, NEW v \in 0 .. bias + MaxAddr
               PROVE  function_of_pc(v) =
                        {i \in get_symbol_containing_address(v - bias) :
                            InSection(v - bias) /\ symbol_table_[i].type = "func"}
    BY DEF PcIsTranslated
  <2>1. load_bias_ = bias /\ bias \in Nat /\ v \in Int
    BY DEF IInv, TypeOK, Start
  <2>2. ASSUME NEW i \in DOMAIN section_headers_
        PROVE  LET s == section_headers_[i]
               IN  (load_bias_ + s.addr <= v /\ v < load_bias_ + s.addr + s.size)
                     <=> (s.addr <= v - bias /\ v - bias < s.addr + s.size)
    <3>1. section_headers_ \in Seq(Header)
      BY DEF IInv, TypeOK
    <3>2. section_headers_[i] \in Header
      BY <3>1
    <3>3. section_headers_[i].addr \in Nat /\ section_headers_[i].size \in Nat
      BY <3>2 DEF Header
    <3> QED
      BY <2>1, <3>3
  <2>3. get_section_containing_address(v) # {} <=> InSection(v - bias)
    BY <2>2 DEF get_section_containing_address, InSection
  <2>4. to_file_addr(v) = IF InSection(v - bias) THEN {v - bias} ELSE {}
    BY <2>1, <2>3 DEF to_file_addr
  <2> QED
    BY <2>4 DEF symbol_of_pc, function_of_pc
<1> QED
  BY Inductive, <1>1, PTL

(***************************************************************************)
(* Names.                                                                  *)
(***************************************************************************)
\* In an ordinary file the string table that get_string finds is the one that belongs to the
\* symbol table that parse_symbol_table has found, if that has any symbols.
LEMMA StringTableIsOwn ==
    ASSUME IInv, Ordinary, phase # "closed", NEW i \in 1 .. next - 1
    PROVE  mangled_name(i) = OwnName(i)
<1> DEFINE headers == file.headers
           symtab  == get_section_or(headers, ".symtab", ".dynsym")
           strtab  == get_section_or(headers, ".strtab", ".dynstr")
           t       == CHOOSE x \in symtab : TRUE
<1>1. section_headers_ = headers /\ headers \in Seq(Header)
  BY DEF Ordinary, IInv, TypeOK
<1>2. symtab # {}
  <2>1. symbol_table_ # <<>>
    <3>1. i \in Nat /\ 1 <= i /\ i <= next - 1 /\ next \in 1 .. Len(symbol_table_) + 1
          /\ Len(symbol_table_) \in Nat
      BY DEF IInv, TypeOK
    <3>2. Len(symbol_table_) # 0
      BY <3>1
    <3> QED
      BY <3>2
  <2>2. symbol_table_ = parse_symbol_table(headers)
    BY <1>1 DEF IInv, Start
  <2> QED
    BY <2>1, <2>2 DEF parse_symbol_table
<1>3. t \in symtab
  BY <1>2
<1>4. headers[t].link \in strtab
  <2>1. CASE get_section(headers, ".symtab") # {}
    BY <1>3, <2>1 DEF get_section_or, Ordinary
  <2>2. CASE get_section(headers, ".symtab") = {}
    BY <1>3, <2>2 DEF get_section_or, Ordinary
  <2> QED
    BY <2>1, <2>2
<1>5. (CHOOSE x \in strtab : TRUE) = headers[t].link
  <2>1. (CHOOSE x \in strtab : TRUE) \in strtab
    BY <1>4
  <2> QED
    BY <1>1, <1>4, <2>1, OneSection DEF get_section_or
<1> QED
  BY <1>1, <1>4, <1>5 DEF mangled_name, get_string, OwnName

\* Symbols keep their names, and are found by them, for every ordinary file.
THEOREM NamesAreKept == Spec => []NamedAsInFile
<1>1. IInv => NamedAsInFile
  <2> SUFFICES ASSUME IInv, Ordinary, phase # "closed", NEW i \in 1 .. next - 1,
                      NEW found \in get_symbols_by_name(OwnName(i))
               PROVE  /\ i \in found
                      /\ \A j \in found :
                            \/ OwnName(j) = OwnName(i)
                            \/ OwnName(j) \in DOMAIN Demangle /\ Demangle[OwnName(j)] = OwnName(i)
    <3>1. \A k \in 1 .. next - 1 : mangled_name(k) = OwnName(k)
          \/ ~(IInv /\ Ordinary /\ phase # "closed")
      BY StringTableIsOwn
    <3> QED
      BY <3>1 DEF NamedAsInFile
  <2>1. \A k \in 1 .. next - 1 : mangled_name(k) = OwnName(k)
    BY StringTableIsOwn
  <2>2. i \in found
    BY <2>1 DEF get_symbols_by_name
  <2>3. ASSUME NEW j \in found
        PROVE  \/ OwnName(j) = OwnName(i)
               \/ OwnName(j) \in DOMAIN Demangle /\ Demangle[OwnName(j)] = OwnName(i)
    <3>1. j \in 1 .. next - 1
      BY DEF get_symbols_by_name
    <3> QED
      BY <2>1, <3>1 DEF get_symbols_by_name, demangled_name
  <2> QED
    BY <2>2, <2>3
<1> QED
  BY Inductive, <1>1, PTL

==============================================================================
