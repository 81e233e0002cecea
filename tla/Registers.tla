----------------------------- MODULE Registers ------------------------------
(***************************************************************************)
(* The registers of the tracee, byte by byte, and the debugger's copy of   *)
(* them, data_, which is read at every stop.  Registers overlap: a         *)
(* sub-register is some bytes of a larger one.  A write changes the copy   *)
(* and then hands the kernel more than the register: the aligned word it   *)
(* lies in, or all floating point registers.  The kernel may refuse it.    *)
(***************************************************************************)
EXTENDS Integers, Sequences

CONSTANTS
    Size,              \* the user area has the offsets 0 .. Size - 1
    Word,              \* the bytes that POKEUSER writes, and their alignment: 8
    Fprs,              \* the offsets of i387, which are written together
    Registers,         \* g_register_infos, with size, offset and format of each
    SizeOf, OffsetOf, FormatOf,
    Bytes,             \* what a byte of the area may hold
    Computed,          \* what the program puts into the first byte of a register
    Refused,           \* <<offset, byte>>: the kernel accepts no write that has one of these
    Values,            \* what callers of the library write: a sign and 1 .. 16 bytes
    Texts,             \* what the user types after `register write <name>`
    Parsed(_, _),      \* parse_register_value: what may come of the text for the register
    Meant(_, _),       \* the bytes that the text means for it
    SignOf(_),         \* the byte that continues a signed number whose highest byte is this
    Failed,            \* the text is no value; and no register
    Unfit              \* the place of a byte, where a number has no digits or does not fit

Area == 0 .. Size - 1

\* The bytes of a register.
BytesOf(r) == OffsetOf[r] .. OffsetOf[r] + SizeOf[r] - 1

ASSUME AreaAssumption == {Size, Word} \subseteq Nat \ {0} /\ Fprs \subseteq Area
ASSUME RegistersAssumption ==
    /\ SizeOf \in [Registers -> Nat \ {0}] /\ OffsetOf \in [Registers -> Area]
    /\ FormatOf \in [Registers -> {"uint", "vector"}]
    /\ \A r \in Registers : BytesOf(r) \subseteq Area
    /\ \A r \in Registers : FormatOf[r] = "uint" => SizeOf[r] \in {1, 2, 4, 8}

Typed(v) == v.signed \in BOOLEAN /\ v.bytes \in Seq(Bytes) /\ v.bytes # <<>>

ASSUME ValuesAssumption ==
    /\ 0 \in Bytes /\ Computed \subseteq Bytes /\ \A b \in Bytes : SignOf(b) \in Bytes
    /\ \A v \in Values : Typed(v)
    /\ \A r \in Registers, t \in Texts : \A v \in Parsed(r, t) :
          v = Failed \/ (Typed(v) /\ Len(v.bytes) = SizeOf[r])

\* The register file: nothing that is written as one word belongs to two of its parts.
ASSUME LayoutAssumption ==
    \A r \in Registers :
        IF OffsetOf[r] \in Fprs THEN BytesOf(r) \subseteq Fprs
        ELSE \A i \in BytesOf(r) : i \div Word = OffsetOf[r] \div Word

VARIABLES
    user,     \* the registers of the tracee
    data,     \* registers::data_
    tracee,   \* "stopped", "running" or "dead"
    refused,  \* a write has been refused since the registers were last read (history)
    last      \* the last write: its register, what it should hold now, and how it went

vars == <<user, data, tracee, refused, last>>

(***************************************************************************)
(* Writing.                                                                *)
(***************************************************************************)
\* The sign is taken for the byte.
widen_RAW(r, v, i) ==
    IF i <= Len(v.bytes) THEN v.bytes[i] ELSE IF v.signed THEN -1 ELSE 0

\* widen() fills up with zeros whatever the sign.
widen_ZERO(r, v, i) == IF i <= Len(v.bytes) THEN v.bytes[i] ELSE 0

\* The i-th byte of what widen() returns: a signed number is extended for the sizes 2, 4 and 8
\* of a register that holds a number, anything else is followed by zeros.
widen(r, v, i) ==
    CASE i <= Len(v.bytes) -> v.bytes[i]
      [] i > Len(v.bytes) /\ v.signed /\ FormatOf[r] = "uint" /\ SizeOf[r] \in {2, 4, 8}
                           -> SignOf(v.bytes[Len(v.bytes)])
      [] OTHER             -> 0

\* The copy in the cache is as long as the wide value.
copied_WIDE(r, v) ==
    [i \in Area |-> IF i \in OffsetOf[r] .. OffsetOf[r] + SizeOf[r]
                    THEN widen(r, v, i - OffsetOf[r] + 1) ELSE data[i]]

\* registers::write, the visitor: std::copy of info.size bytes.
copied(r, v) ==
    [i \in Area |-> IF i \in BytesOf(r) THEN widen(r, v, i - OffsetOf[r] + 1) ELSE data[i]]

\* What write_fprs or write_user_area hands to the kernel.
region(r) ==
    IF OffsetOf[r] \in Fprs THEN Fprs ELSE {i \in Area : i \div Word = OffsetOf[r] \div Word}

\* The kernel takes all of it or nothing, and only for a tracee that is stopped.
KernelAccepts(area, part) ==
    tracee = "stopped" /\ \A i \in part : <<i, area[i]>> \notin Refused

\* registers::write of a value that is not too large.
write(r, v) ==
    LET area == copied(r, v)
    IN  /\ data' = area
        /\ IF KernelAccepts(area, region(r))
           THEN /\ user' = [i \in Area |-> IF i \in region(r) THEN area[i] ELSE user[i]]
                /\ refused' = refused
           ELSE user' = user /\ refused' = TRUE
        /\ UNCHANGED tracee

\* The bytes that a register holds, as registers::read gets them from the cache.
read(r) == [i \in 1 .. SizeOf[r] |-> data[OffsetOf[r] + i - 1]]

NoWrite == [reg |-> Failed, holds |-> <<>>, written |-> FALSE]

Outcome(r, bytes, written) == [reg |-> r, holds |-> bytes, written |-> written]

\* The same number in the width of the register, or the same bytes followed by zeros.
Extended(r, v) ==
    [i \in 1 .. SizeOf[r] |->
        IF i <= Len(v.bytes) THEN v.bytes[i]
        ELSE IF v.signed /\ FormatOf[r] = "uint" THEN SignOf(v.bytes[Len(v.bytes)]) ELSE 0]

\* write_by_id from code that uses the library.  A value that is larger than the register
\* ends the debugger (std::terminate), so nobody makes that call.
WriteById(r, v) ==
    /\ Len(v.bytes) <= SizeOf[r]
    /\ write(r, v)
    /\ last' = Outcome(r, Extended(r, v), KernelAccepts(copied(r, v), region(r)))

\* sdb.cpp, handle_register_write: the user is told "invalid format", or what was refused.
RegisterWrite(r, text) ==
    /\ tracee # "running"
    /\ \E v \in Parsed(r, text) :
          IF v = Failed
          THEN /\ last' = Outcome(r, Meant(r, text), FALSE)
               /\ UNCHANGED <<user, data, tracee, refused>>
          ELSE /\ write(r, v)
               /\ last' = Outcome(r, Meant(r, text), KernelAccepts(copied(r, v), region(r)))

(***************************************************************************)
(* The tracee.                                                             *)
(***************************************************************************)
Resume ==
    /\ tracee = "stopped"
    /\ tracee' = "running" /\ last' = NoWrite
    /\ UNCHANGED <<user, data, refused>>

\* The program, or the kernel for it, changes the first byte of a register.
Compute(r, b) ==
    /\ tracee = "running"
    /\ <<OffsetOf[r], b>> \notin Refused
    /\ user' = [user EXCEPT ![OffsetOf[r]] = b]
    /\ UNCHANGED <<data, tracee, refused, last>>

\* Only the general purpose registers are read.
read_all_registers_GPR == data' = [i \in Area |-> IF i \in Fprs THEN data[i] ELSE user[i]]

\* GETREGS, GETFPREGS, and PEEKUSER of each debug register.
read_all_registers == data' = user

Stop ==
    /\ tracee = "running"
    /\ tracee' = "stopped"
    /\ read_all_registers /\ refused' = FALSE
    /\ UNCHANGED <<user, last>>

Die ==
    /\ tracee # "dead" /\ tracee' = "dead"
    /\ UNCHANGED <<user, data, refused, last>>

Init ==
    /\ user = [i \in Area |-> 0] /\ data = user
    /\ tracee = "stopped" /\ refused = FALSE /\ last = NoWrite

Next ==
    \/ \E r \in Registers, v \in Values : WriteById(r, v)
    \/ \E r \in Registers, text \in Texts : RegisterWrite(r, text)
    \/ Resume \/ Stop \/ Die
    \/ \E r \in Registers, b \in Computed : Compute(r, b)

Spec == Init /\ [][Next]_vars

(***************************************************************************)
(* Properties.                                                             *)
(***************************************************************************)
\* Both copies hold bytes, also where a negative number was extended to the width of its register.
TypeOK ==
    /\ {user, data} \subseteq [Area -> Bytes]
    /\ tracee \in {"stopped", "running", "dead"}
    /\ refused \in BOOLEAN
    /\ last.reg \in Registers \union {Failed} /\ last.written \in BOOLEAN

\* What the debugger shows and computes with is what the tracee has, whenever it is stopped,
\* as long as no write was refused since the stop: a refused one stays in data_.
Coherent == tracee = "stopped" /\ ~refused => data = user

\* A write reaches the bytes of its register and no other, although the kernel is handed a
\* word or all floating point registers from the cache: [][...] of what the debugger does.
\* After a refused write this fails: the next one carries the refused bytes along.
WriteIsLocal ==
    [][tracee # "running" /\ ~refused =>
          \A i \in Area : user'[i] # user[i] => i \in BytesOf(last'.reg)]_vars

\* A write that was not refused put into the tracee, and into the copy, the number or the
\* bytes that the caller meant, whatever overlaps the register; and a text that is no number
\* and no vector was refused.
WrittenAsMeant ==
    last.written /\ (\A i \in DOMAIN last.holds : last.holds[i] # Unfit) =>
        /\ read(last.reg) = last.holds
        /\ \A i \in BytesOf(last.reg) : user[i] = data[i]

\* A text without digits ("", "0x") or with a number that does not fit is refused: "convert
\* string to number (hex numbers must be prefixed with 0x)", parse.hpp, line 14.  It is not:
\* to_integral returns its uninitialized variable, which the register then holds.
OnlyNumbersAreWritten ==
    last.written => \A i \in DOMAIN last.holds : last.holds[i] # Unfit

=============================================================================
