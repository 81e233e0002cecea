------------------------------- MODULE Parse --------------------------------
(***************************************************************************)
(* The texts that the user types where a number or bytes are expected:     *)
(* parse.hpp and parse_register_value of sdb.cpp.  A text is a sequence of *)
(* characters.  What a conversion returns is the SET of the values it may  *)
(* return: to_integral returns an uninitialized variable when from_chars   *)
(* has found no digits, or a number that does not fit, up to the end of    *)
(* the text.                                                               *)
(***************************************************************************)
EXTENDS Integers, Sequences

CONSTANTS
    Leftovers,  \* what may lie where `ret` is: an uninitialized number is one of these
    Failed,     \* nullopt, or an sdb::error in its stead
    Throws,     \* std::bad_optional_access, which is no sdb::error
    Unfit       \* what a text denotes that is a number, but none that fits

\* What a character counts; one that is no digit, more than any digit of a base may.
digit(c) ==
    CASE c = "0" -> 0 [] c = "1" -> 1 [] c = "2" -> 2 [] c = "3" -> 3 [] c = "4" -> 4
      [] c = "5" -> 5 [] c = "6" -> 6 [] c = "7" -> 7 [] c = "8" -> 8 [] c = "9" -> 9
      [] c \in {"a", "A"} -> 10 [] c \in {"b", "B"} -> 11 [] c \in {"c", "C"} -> 12
      [] c \in {"d", "D"} -> 13 [] c \in {"e", "E"} -> 14 [] c \in {"f", "F"} -> 15
      [] OTHER -> 16

IsDigit(c, base) == digit(c) < base

AllDigits(sv, base) == \A i \in DOMAIN sv : IsDigit(sv[i], base)

\* The prefix is skipped without a look at what follows it.
begin_ANY(sv, base) == IF Len(sv) > 1 /\ sv[2] = "x" THEN SubSeq(sv, 3, Len(sv)) ELSE sv

\* What from_chars gets: "0x" is skipped in base 16.
begin(sv, base) ==
    IF base = 16 /\ Len(sv) > 1 /\ sv[1] = "0" /\ sv[2] = "x" THEN SubSeq(sv, 3, Len(sv)) ELSE sv

\* std::from_chars reads the digits from the left.
from_chars(chars, base) ==
    LET number[i \in 0 .. Len(chars)] ==
            IF i = 0 THEN 0 ELSE base * number[i - 1] + digit(chars[i])
    IN  number[Len(chars)]

Uninitialized(max) == {n \in Leftovers : n <= max}

\* The digits up to the first other character are taken for the number.
to_integral_PREFIX(sv, base, max) ==
    LET digits == SelectSeq(begin(sv, base), LAMBDA c : IsDigit(c, base))
        number == from_chars(digits, base)
    IN  IF digits = <<>> \/ number > max THEN Uninitialized(max) ELSE {number}

\* to_integral for an unsigned type whose largest number is max.
to_integral(sv, base, max) ==
    LET chars  == begin(sv, base)
        number == from_chars(chars, base)
    IN  IF ~AllDigits(chars, base)           THEN {Failed}
        ELSE IF chars = <<>> \/ number > max THEN Uninitialized(max)
        ELSE {number}

(***************************************************************************)
(* Vectors: "[", tokens of four characters with commas between them, "]".  *)
(***************************************************************************)
char(text, i) == IF i <= Len(text) THEN text[i] ELSE "nul"

\* The i-th token, and the character after it.  Beyond the text there is its nul.
token(text, i) == [k \in 1 .. 4 |-> char(text, 5 * i - 4 + k)]
after(text, i) == char(text, 5 * i + 1)

byte(text, i) == to_integral(token(text, i), 16, 255)

\* The bytes of the first n tokens, in every way that they may come out.
Vectors(text, n) ==
    {bytes \in [1 .. n -> UNION {byte(text, i) : i \in 1 .. n}] :
        \A i \in 1 .. n : bytes[i] \in byte(text, i)}

\* The number of bytes is not compared with N.
parse_vector_N_SHORT(text, n) ==
    IF /\ char(text, 1) = "["
       /\ \A i \in 1 .. n : Failed \notin byte(text, i)
       /\ \A i \in 1 .. n - 1 : after(text, i) = ","
    THEN Vectors(text, n) ELSE {Failed}

\* parse_vector<N>.
parse_vector_N(text, n) ==
    IF /\ char(text, 1) = "["
       /\ \A i \in 1 .. n : Failed \notin byte(text, i)
       /\ \A i \in 1 .. n - 1 : after(text, i) = ","
       /\ after(text, n) = "]" /\ Len(text) = 5 * n + 1
    THEN Vectors(text, n) ELSE {Failed}

\* The loop of parse_vector goes on after n tokens as long as it has found tokens and commas;
\* where it stops, it has found the bracket, or throws: bad_optional_access for a bad token
\* (Throws), sdb::error for anything else.
GoesOn(text, i) ==
    char(text, 5 * i - 3) # "]" /\ Failed \notin byte(text, i) /\ after(text, i) = ","

parse_vector(text) ==
    LET n     == CHOOSE n \in 0 .. Len(text) :
                    ~GoesOn(text, n + 1) /\ \A i \in 1 .. n : GoesOn(text, i)
        close == char(text, 5 * n + 2)
        given == IF close = "]" THEN n ELSE n + 1
        ended == Len(text) = IF close = "]" THEN 5 * n + 2 ELSE 5 * n + 6
    IN  IF char(text, 1) # "[" THEN {Failed}
        ELSE IF close # "]" /\ Failed \in byte(text, n + 1) THEN {Throws}
        ELSE IF ended /\ "]" \in {close, after(text, n + 1)} THEN Vectors(text, given)
        ELSE {Failed}

(***************************************************************************)
(* The values that registers are written with.                             *)
(***************************************************************************)
\* A number as its `size` bytes, least significant first.
as_bytes(number, size) == [i \in 1 .. size |-> (number \div 256 ^ (i - 1)) % 256]

Value(bytes) == [signed |-> FALSE, bytes |-> bytes]

\* sdb.cpp, parse_register_value: whatever is thrown becomes "invalid format".
parse_register_value(format, size, text) ==
    LET results == IF format = "uint" THEN to_integral(text, 16, 256 ^ size - 1)
                                      ELSE parse_vector_N(text, size)
    IN  {IF r = Failed THEN Failed
         ELSE Value(IF format = "uint" THEN as_bytes(r, size) ELSE r) : r \in results}

(***************************************************************************)
(* What the texts mean to who types them; compare parse.hpp, lines 14 and  *)
(* 48.                                                                     *)
(***************************************************************************)
\* The last k characters of a text: each counts sixteen times as much as the one after it.
Positional(text, k) ==
    LET weight[i \in 0 .. Len(text)] == IF i = 0 THEN 1 ELSE 16 * weight[i - 1]
        last[i \in 0 .. Len(text)] ==
            IF i = 0 THEN 0
            ELSE last[i - 1] + digit(text[Len(text) + 1 - i]) * weight[i - 1]
    IN  last[k]

\* The number that a text denotes: hexadecimal digits, with or without "0x"; Unfit if there is
\* no digit or it is larger than max, Failed if the text is anything else.
Denotes(text, max) ==
    LET prefixed == Len(text) >= 2 /\ text[1] = "0" /\ text[2] = "x"
        first    == IF prefixed THEN 3 ELSE 1
        number   == Positional(text, Len(text) + 1 - first)
    IN  IF \E i \in first .. Len(text) : ~IsDigit(text[i], 16) THEN Failed
        ELSE IF first > Len(text) \/ number > max               THEN Unfit
        ELSE number

\* The bytes that a text in brackets denotes: n tokens with a comma between two of them.
DenotesBytes(text, n) ==
    LET bytes == [i \in 1 .. n |-> Denotes(SubSeq(text, 5 * i - 3, 5 * i), 255)]
    IN  IF /\ Len(text) = 5 * n + 1 /\ text[1] = "["
           /\ \A i \in 1 .. n : text[5 * i + 1] = (IF i = n THEN "]" ELSE ",")
           /\ \A i \in 1 .. n : bytes[i] # Failed
        THEN bytes ELSE <<Failed>>

\* The bytes that a register holds after a text was understood.
Meaning(format, size, text) ==
    LET n == Denotes(text, 256 ^ size - 1)
    IN  IF format = "vector" THEN DenotesBytes(text, size)
        ELSE IF n \in {Failed, Unfit} THEN <<n>> ELSE as_bytes(n, size)

=============================================================================
