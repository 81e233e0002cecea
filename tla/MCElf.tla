-------------------------------- MODULE MCElf --------------------------------
(***************************************************************************)
(* Tables of up to three symbols that touch, overlap, enclose or equal one *)
(* another, are empty, have no name or belong to a thread, in whole files, *)
(* stripped ones, and ones with too many sections.                         *)
(***************************************************************************)
EXTENDS Elf

MCOffsets == 0 .. 2

Symbol(name, value, size, type) == [name |-> name, value |-> value, size |-> size, type |-> type]

MCSymbols ==
    {Symbol(IF size = 3 THEN 2 ELSE 1, value, size, IF size = 0 THEN "other" ELSE "func") :
        value \in {0, 1, 2, 4}, size \in {0, 1, 3}}
        \union {Symbol(0, 2, 1, "func"), Symbol(1, 2, 1, "tls")}

Dynamic == <<Symbol(2, 4, 3, "func"), Symbol(1, 0, 0, "other")>>

\* One name is mangled, and another is what it demangles to.
MCDemangle == [name \in {"_Z4mainv"} |-> "main"]

NoStrings  == <<"", "", "">>
Strings(s) == [i \in MCOffsets |-> s[i + 1]]

Section(name, addr, size, link, symbols, strings) ==
    [name |-> name, addr |-> addr, size |-> size, link |-> link, symbols |-> symbols,
     strings |-> Strings(strings)]

\* The first header holds nothing, or the number of headers.  A text section, what belongs to
\* no section, and data.
Program(count) ==
    <<Section("", 0, count, 0, <<>>, NoStrings),
      Section(".text", 1, 4, 0, <<>>, NoStrings),
      Section(".data", 6, 1, 0, <<>>, NoStrings)>>

DynamicPart(first) ==
    <<Section(".dynsym", 0, 0, first + 1, Dynamic, NoStrings),
      Section(".dynstr", 0, 0, 0, <<>>, <<"", "puts", "_Z4mainv">>)>>

StaticPart(first, symbols) ==
    <<Section(".symtab", 0, 0, first + 1, symbols, NoStrings),
      Section(".strtab", 0, 0, 0, <<>>, <<"", "_Z4mainv", "main">>)>>

File(shnum, headers) == [shnum |-> shnum, headers |-> headers]

\* Eight headers are one too many for MCHalf, and are counted as none; a file that has kept
\* .strtab without .symtab is not Ordinary.
MCHalf == 8

MCFiles ==
    {File(0, <<>>), File(3, Program(0)), File(5, Program(0) \o DynamicPart(4)),
     File(0, Program(7) \o StaticPart(4, Dynamic) \o DynamicPart(6)),
     File(0, Program(8) \o StaticPart(4, Dynamic) \o DynamicPart(6)
                        \o <<Section(".bss", 7, 1, 0, <<>>, NoStrings)>>),
     File(6, Program(0) \o DynamicPart(4) \o <<StaticPart(6, <<>>)[2]>>)} \union
    {File(7, Program(0) \o StaticPart(4, symbols) \o DynamicPart(6)) :
        symbols \in UNION {[1 .. n -> MCSymbols] : n \in 1 .. 3}}
==============================================================================
